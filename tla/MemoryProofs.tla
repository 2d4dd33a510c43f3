---------------------------- MODULE MemoryProofs ----------------------------
(***************************************************************************)
(* Proofs about the physical memory manager of source/memory.c and that of *)
(* the EFI platform (source/platform/efi/memory.c), for every memory map,  *)
(* all areas and all requests, as long as is_suitable_range() accepts no   *)
(* range because it wraps around the address space.                        *)
(***************************************************************************)
EXTENDS Memory, EfiMemory, RangeListProofs, FiniteSetTheorems

-----------------------------------------------------------------------------
(***************************************************************************)
(* Multiples of an alignment.                                              *)
(***************************************************************************)
(* round_down() gives the last multiple that is not above the value.       *)
LEMMA RoundDownFact ==
  ASSUME NEW v \in Nat, NEW a \in Nat \ {0}, NEW r, r = round_down(v, a)
  PROVE  /\ r \in Nat /\ r <= v /\ v < r + a /\ r % a = 0
         /\ \A m \in Nat : m <= v /\ m % a = 0 => m <= r
<1>1. r = v - (v % a) /\ v % a \in Nat /\ v % a < a /\ r % a = 0 /\ r \in Int
  BY Multiple DEF round_down
<1>2. r \in Nat /\ r <= v /\ v < r + a
  <2>1. v % a <= v
    <3>1. v \div a \in Nat /\ v = a * (v \div a) + (v % a)
      BY DivMod
    <3>2. a * (v \div a) \in Nat
      BY <3>1
    <3> QED BY <1>1, <3>1, <3>2
  <2> HIDE DEF round_down
  <2> QED BY <1>1, <2>1
<1>3. ASSUME NEW m \in Nat, m <= v, m % a = 0 PROVE m <= r
  <2>1. CASE r < m
    BY <1>1, <1>2, <1>3, <2>1, MultipleGap
  <2> QED BY <1>2, <2>1
<1> QED BY <1>1, <1>2, <1>3

(* round_up() gives a multiple, of the alignment or, past the last page of *)
(* the address space, 0.                                                   *)
LEMMA RoundUpMultiple ==
  ASSUME NEW v \in Nat, NEW a \in Nat \ {0}, v + a <= AddrMod, NEW r, r = round_up(v, a)
  PROVE  r % a = 0
<1>1. CASE v % a = 0
  BY <1>1 DEF round_up
<1>2. CASE v % a # 0
  <2> DEFINE d == round_down(v, a)
  <2>1. d \in Nat /\ d <= v /\ d % a = 0
    BY RoundDownFact
  <2>2. d + a < AddrMod
    <3>1. d = v - (v % a) /\ v % a \in Nat
      BY Multiple DEF round_down
    <3> HIDE DEF d
    <3> QED BY <1>2, <2>1, <3>1, AddrNat
  <2>3. r = d + a
    <3>1. r = Wrap(d + a)
      BY <1>2 DEF round_up
    <3> HIDE DEF d
    <3>2. d + a \in Addr
      BY <2>1, <2>2, AddrNat
    <3> QED BY <3>1, <3>2, WrapSmall
  <2>4. a % a = 0
    OBVIOUS
  <2> HIDE DEF d
  <2>5. (d + a) % a = 0
    BY <2>1, <2>4, MultipleSum
  <2> QED BY <2>3, <2>5
<1> QED BY <1>1, <1>2

(* It does not wrap if there is a multiple ahead.                          *)
LEMMA RoundUpBelow ==
  ASSUME NEW v \in Nat, NEW a \in Nat \ {0}, NEW m \in Nat, v <= m, m % a = 0, m < AddrMod,
         NEW r, r = round_up(v, a)
  PROVE  r \in Nat /\ v <= r /\ r <= m
<1>1. CASE v % a = 0
  BY <1>1 DEF round_up
<1>2. CASE v % a # 0
  <2> DEFINE d == round_down(v, a)
  <2>1. d \in Nat /\ d <= v /\ v < d + a /\ d % a = 0
    BY RoundDownFact
  <2>2. d # v
    BY <1>2, <2>1
  <2>3. r = Wrap(d + a)
    BY <1>2 DEF round_up
  <2> HIDE DEF d
  <2>4. d + a <= m
    <3>1. d \in Int /\ m \in Int /\ d < m
      BY <2>1, <2>2
    <3> QED BY <2>1, <3>1, MultipleGap
  <2>5. d + a \in Addr
    BY <2>1, <2>4, AddrNat
  <2> QED BY <2>1, <2>3, <2>4, <2>5, WrapSmall
<1> QED BY <1>1, <1>2

LEMMA PageSize == PAGE_SIZE \in Nat \ {0} /\ PAGE_SIZE >= 2 /\ AddrMod % PAGE_SIZE = 0
BY AddressSpaceAssumption

(* An address rounded up to a page is an address.                          *)
LEMMA RoundUpPage ==
  ASSUME NEW v \in Addr, NEW r, r = round_up(v, PAGE_SIZE)
  PROVE  r \in Addr /\ r % PAGE_SIZE = 0
<1>1. CASE v % PAGE_SIZE = 0
  BY <1>1 DEF round_up
<1>2. CASE v % PAGE_SIZE # 0
  <2> DEFINE d == round_down(v, PAGE_SIZE)
  <2>0. v \in Nat /\ v < AddrMod /\ AddrMod \in Nat
    BY AddrNat
  <2>1. d \in Nat /\ d <= v /\ d % PAGE_SIZE = 0
    BY <2>0, PageSize, RoundDownFact
  <2>2. r = Wrap(d + PAGE_SIZE)
    BY <1>2 DEF round_up
  <2> HIDE DEF d
  <2>3. d + PAGE_SIZE <= AddrMod
    <3>1. d < AddrMod /\ d \in Int /\ AddrMod \in Int
      BY <2>0, <2>1
    <3> QED BY <2>1, <3>1, PageSize, MultipleGap
  <2>4. (d + PAGE_SIZE) % PAGE_SIZE = 0
    <3>1. PAGE_SIZE % PAGE_SIZE = 0
      BY PageSize
    <3> QED BY <2>1, <3>1, PageSize, MultipleSum
  <2>5. CASE d + PAGE_SIZE < AddrMod
    <3>1. d + PAGE_SIZE \in Addr
      BY <2>1, <2>5, PageSize, AddrNat
    <3> QED BY <2>2, <2>4, <3>1, WrapSmall
  <2>6. CASE d + PAGE_SIZE = AddrMod
    <3>1. r = 0
      BY <2>0, <2>2, <2>6 DEF Wrap
    <3>2. 0 \in Addr
      BY <2>0, AddrNat
    <3> QED BY <3>1, <3>2, PageSize
  <2> QED BY <2>0, <2>1, <2>3, <2>5, <2>6, PageSize
<1> QED BY <1>1, <1>2

-----------------------------------------------------------------------------
(***************************************************************************)
(* The list gives whole pages a type.                                      *)
(***************************************************************************)
PageOf(x) == x - (x % PAGE_SIZE)

PageWise(s) == \A x \in Int : \A ty : Holds(s, x, ty) <=> Holds(s, PageOf(x), ty)

(* What every operation keeps: the ranges are apart, no two of them could  *)
(* be one, and they hold whole pages.                                      *)
ListOK(s) == s \in Seq(MemoryRange) /\ Apart(s) /\ Clean(s) /\ PageWise(s)

LEMMA PageOfFact ==
  ASSUME NEW x \in Int
  PROVE  /\ PageOf(x) \in Int /\ PageOf(x) <= x /\ x < PageOf(x) + PAGE_SIZE
         /\ PageOf(x) % PAGE_SIZE = 0
         /\ \A y \in Int : y % PAGE_SIZE = 0 /\ y <= x => y <= PageOf(x)
<1> DEFINE p == PageOf(x)
           m == x % PAGE_SIZE
<1>1. m \in Nat /\ m < PAGE_SIZE /\ p % PAGE_SIZE = 0 /\ p = x - m
  BY PageSize, Multiple DEF PageOf
<1> HIDE DEF p, m
<1>2. p \in Int /\ p <= x /\ x < p + PAGE_SIZE
  BY <1>1, PageSize
<1>3. ASSUME NEW y \in Int, y % PAGE_SIZE = 0, y <= x PROVE y <= p
  <2>1. CASE p < y
    <3>1. p + PAGE_SIZE <= y
      BY <1>1, <1>2, <1>3, <2>1, PageSize, MultipleGap
    <3> QED BY <1>2, <1>3, <3>1, PageSize
  <2> QED BY <1>2, <2>1
<1> QED BY <1>1, <1>2, <1>3 DEF p

(* A page is inside an interval of pages or outside of it.                 *)
LEMMA AlignedInterval ==
  ASSUME NEW first \in Int, NEW last \in Int, first % PAGE_SIZE = 0,
         (last + 1) % PAGE_SIZE = 0, NEW x \in Int
  PROVE  first <= x /\ x <= last <=> first <= PageOf(x) /\ PageOf(x) <= last
<1> DEFINE p == PageOf(x)
<1>1. /\ p \in Int /\ p <= x /\ p % PAGE_SIZE = 0
      /\ \A y \in Int : y % PAGE_SIZE = 0 /\ y <= x => y <= p
  BY PageOfFact
<1> HIDE DEF p
<1>2. first <= x => first <= p
  BY <1>1
<1>3. last + 1 <= x => last + 1 <= p
  <2>1. last + 1 \in Int
    OBVIOUS
  <2> QED BY <1>1, <2>1
<1>4. first <= x /\ x <= last <=> first <= p /\ p <= last
  BY <1>1, <1>2, <1>3
<1> QED BY <1>4 DEF p

LEMMA UpdatedPageWise ==
  ASSUME NEW s, PageWise(s), NEW t, NEW first \in Int, NEW last \in Int,
         first % PAGE_SIZE = 0, (last + 1) % PAGE_SIZE = 0, NEW type,
         Updated(s, t, first, last, type) \/ Cleared(s, t, first, last)
  PROVE  PageWise(t)
<1> SUFFICES ASSUME NEW x \in Int, NEW ty
             PROVE  Holds(t, x, ty) <=> Holds(t, PageOf(x), ty)
  BY DEF PageWise
<1> DEFINE p == PageOf(x)
           in(y) == first <= y /\ y <= last
<1>1. p \in Int
  BY PageOfFact
<1>2. in(x) <=> in(p)
  BY AlignedInterval
<1>3. Holds(s, x, ty) <=> Holds(s, p, ty)
  BY DEF PageWise
<1>4. CASE Updated(s, t, first, last, type)
  <2>1. \A y \in Int : Holds(t, y, ty) <=> IF in(y) THEN ty = type ELSE Holds(s, y, ty)
    BY <1>4 DEF Updated
  <2> HIDE DEF p, in
  <2>2. Holds(t, x, ty) <=> IF in(x) THEN ty = type ELSE Holds(s, x, ty)
    BY <2>1
  <2>3. Holds(t, p, ty) <=> IF in(p) THEN ty = type ELSE Holds(s, p, ty)
    BY <1>1, <2>1
  <2>4. Holds(t, x, ty) <=> Holds(t, p, ty)
    BY <1>2, <1>3, <2>2, <2>3
  <2> QED BY <2>4 DEF p
<1>5. CASE Cleared(s, t, first, last)
  <2>1. \A y \in Int : Holds(t, y, ty) <=> ~in(y) /\ Holds(s, y, ty)
    BY <1>5 DEF Cleared
  <2> HIDE DEF p, in
  <2>4. Holds(t, x, ty) <=> Holds(t, p, ty)
    BY <1>1, <1>2, <1>3, <2>1
  <2> QED BY <2>4 DEF p
<1> QED BY <1>4, <1>5

(* An address and the one before it in the same page.                      *)
LEMMA SamePage ==
  ASSUME NEW x \in Int, (x + 1) % PAGE_SIZE # 0
  PROVE  PageOf(x + 1) = PageOf(x)
<1> DEFINE p == PageOf(x)
           q == PageOf(x + 1)
<1>1. /\ p \in Int /\ p <= x /\ p % PAGE_SIZE = 0
      /\ \A y \in Int : y % PAGE_SIZE = 0 /\ y <= x => y <= p
  BY PageOfFact
<1>2. /\ q \in Int /\ q <= x + 1 /\ q % PAGE_SIZE = 0
      /\ \A y \in Int : y % PAGE_SIZE = 0 /\ y <= x + 1 => y <= q
  <2>1. x + 1 \in Int
    OBVIOUS
  <2> QED BY <2>1, PageOfFact
<1> HIDE DEF p, q
<1>3. q # x + 1
  BY <1>2
<1>4. q <= x /\ p <= x + 1
  BY <1>1, <1>2, <1>3
<1>5. q <= p /\ p <= q
  BY <1>1, <1>2, <1>4
<1>6. p = q
  BY <1>1, <1>2, <1>5
<1> QED BY <1>6 DEF p, q

LEMMA RangeAligned ==
  ASSUME NEW s, ListOK(s), NEW i \in 1 .. Len(s)
  PROVE  s[i].start % PAGE_SIZE = 0 /\ (EndOf(s[i]) + 1) % PAGE_SIZE = 0
<1> DEFINE a == s[i].start
           e == EndOf(s[i])
           ty == s[i].type
<1>1. s \in Seq(MemoryRange) /\ Apart(s)
  BY DEF ListOK
<1>2. Holds(s, a, ty) /\ Holds(s, e, ty) /\ a \in Nat /\ e \in Nat
  BY <1>1, HoldsEnds
<1>3. ~Holds(s, e + 1, ty)
  BY DEF ListOK, Clean
<1>4. \A x \in Int : Holds(s, x, ty) <=> Holds(s, PageOf(x), ty)
  BY DEF ListOK, PageWise
<1>5. (e + 1) % PAGE_SIZE = 0
  <2> HIDE DEF e, ty
  <2>1. CASE (e + 1) % PAGE_SIZE # 0
    <3>1. e \in Int /\ e + 1 \in Int
      BY <1>2
    <3>2. PageOf(e + 1) = PageOf(e)
      BY <2>1, <3>1, SamePage
    <3> QED BY <1>2, <1>3, <1>4, <3>1, <3>2
  <2> QED BY <2>1
<1>6. a % PAGE_SIZE = 0
  <2> DEFINE p == PageOf(a)
  <2>1. p \in Int /\ p <= a /\ a < p + PAGE_SIZE /\ p % PAGE_SIZE = 0
    BY <1>2, PageOfFact, SMTT(30)
  <2>2. Holds(s, p, ty)
    BY <1>2, <1>4
  <2>3. PICK j \in 1 .. Len(s) : InRange(s[j], p) /\ s[j].type = ty
    BY <2>2 DEF Holds
  <2> DEFINE f == EndOf(s[j])
             b == s[j].start
  <2>4. b <= p /\ p <= f /\ f \in Nat /\ b \in Nat
    BY <1>1, <2>3, ListFields DEF InRange
  <2>5. j < i => f < a
    BY <1>1 DEF Apart
  <2>6. i < j => e < b
    BY <1>1 DEF Apart
  <2>7. a <= e
    BY <1>1 DEF Apart
  <2>8. ~Holds(s, f + 1, ty)
    BY <2>3 DEF ListOK, Clean
  <2> HIDE DEF a, e, ty, p, f, b
  <2>9. CASE i = j
    <3>1. a = p
      BY <1>2, <2>1, <2>4, <2>9 DEF a, b
    <3> QED BY <2>1, <3>1
  <2>10. CASE j < i
    <3>1. p <= f /\ f + 1 <= a /\ f + 1 \in Int
      BY <1>2, <2>4, <2>5, <2>10
    <3>2. PageOf(f + 1) = p
      <4> DEFINE q == PageOf(f + 1)
      <4>1. /\ q \in Int /\ q <= f + 1 /\ q % PAGE_SIZE = 0
            /\ \A y \in Int : y % PAGE_SIZE = 0 /\ y <= f + 1 => y <= q
        BY <3>1, PageOfFact
      <4> HIDE DEF q
      <4>2. p <= q
        <5>1. p <= f + 1
          BY <2>1, <2>4, <3>1
        <5> QED BY <2>1, <4>1, <5>1
      <4>3. q <= p
        <5>1. q <= a /\ a \in Int
          BY <1>2, <3>1, <4>1
        <5> QED BY <4>1, <5>1, PageOfFact DEF p
      <4>4. q = p
        BY <2>1, <4>1, <4>2, <4>3
      <4> QED BY <4>4 DEF q
    <3> QED BY <1>4, <2>2, <2>8, <3>1, <3>2
  <2>11. CASE i < j
    BY <1>2, <2>1, <2>4, <2>6, <2>7, <2>11
  <2> QED BY <2>9, <2>10, <2>11
<1> QED BY <1>5, <1>6

-----------------------------------------------------------------------------
(* memory_map_insert() and memory_map_remove() of whole pages.             *)
WholePages(start, size) ==
  /\ start \in Nat /\ size \in Nat /\ size # 0 /\ start + size <= AddrMod /\ size < AddrMod
  /\ start % PAGE_SIZE = 0 /\ size % PAGE_SIZE = 0

LEMMA PagesFact ==
  ASSUME NEW start, NEW size, WholePages(start, size)
  PROVE  /\ start \in Addr /\ size \in Addr /\ start + size - 1 \in Addr
         /\ start + size - 1 = Wrap(start + size - 1) /\ start <= start + size - 1
         /\ start \in Int /\ start + size - 1 \in Int
         /\ (start + size - 1 + 1) % PAGE_SIZE = 0 /\ start % PAGE_SIZE = 0
<1>1. start \in Nat /\ size \in Nat /\ start + size - 1 \in Nat /\ start < AddrMod
      /\ start + size - 1 < AddrMod /\ AddrMod \in Nat /\ start <= start + size - 1
  BY AddrNat DEF WholePages
<1>2. start \in Addr /\ size \in Addr /\ start + size - 1 \in Addr
  BY <1>1, AddrNat DEF WholePages
<1>3. start + size - 1 = Wrap(start + size - 1)
  BY <1>2, WrapSmall
<1>4. (start + size) % PAGE_SIZE = 0
  <2>1. start \in Int /\ size \in Int /\ start % PAGE_SIZE = 0 /\ size % PAGE_SIZE = 0
    BY DEF WholePages
  <2> HIDE DEF WholePages
  <2> QED BY <2>1, PageSize, MultipleSum
<1>5. start + size - 1 + 1 = start + size
  BY <1>1
<1> QED BY <1>1, <1>2, <1>3, <1>4, <1>5 DEF WholePages

LEMMA InsertOK ==
  ASSUME NEW s, ListOK(s), NEW start, NEW size, WholePages(start, size),
         NEW type \in MemoryTypes, NEW t, t = MapInsert(s, start, size, type)
  PROVE  ListOK(t) /\ Updated(s, t, start, start + size - 1, type)
<1> DEFINE end == start + size - 1
<1>1. /\ start \in Addr /\ size \in Addr /\ end \in Addr
      /\ end = Wrap(start + size - 1) /\ start <= end
  BY PagesFact
<1>2. /\ start \in Int /\ end \in Int /\ (end + 1) % PAGE_SIZE = 0 /\ start % PAGE_SIZE = 0
  BY PagesFact
<1> HIDE DEF end
<1>3. s \in Seq(MemoryRange) /\ Apart(s) /\ Clean(s) /\ PageWise(s)
  BY DEF ListOK
<1>4. Updated(s, t, start, end, type)
  BY <1>1, <1>3, MapInsertUpdates
<1>5. Clean(t)
  BY <1>1, <1>3, MapInsertClean
<1>6. PageWise(t)
  BY <1>2, <1>3, <1>4, UpdatedPageWise
<1>7. ListOK(t)
  BY <1>4, <1>5, <1>6 DEF ListOK, Updated
<1> QED BY <1>4, <1>7 DEF end

LEMMA RemoveOK ==
  ASSUME NEW s, ListOK(s), NEW start, NEW size, WholePages(start, size),
         NEW t, t = MapRemove(s, start, size)
  PROVE  ListOK(t) /\ Cleared(s, t, start, start + size - 1)
<1> DEFINE end == start + size - 1
<1>1. /\ start \in Addr /\ size \in Addr /\ end \in Addr
      /\ end = Wrap(start + size - 1) /\ start <= end
  BY PagesFact
<1>2. /\ start \in Int /\ end \in Int /\ (end + 1) % PAGE_SIZE = 0 /\ start % PAGE_SIZE = 0
  BY PagesFact
<1> HIDE DEF end
<1>3. s \in Seq(MemoryRange) /\ Apart(s) /\ Clean(s) /\ PageWise(s)
  BY DEF ListOK
<1>4. Cleared(s, t, start, end)
  BY <1>1, <1>3, MapRemoveClears
<1>5. Clean(t)
  BY <1>1, <1>3, MapRemoveClean
<1>6. PageWise(t)
  BY <1>2, <1>3, <1>4, UpdatedPageWise
<1>7. ListOK(t)
  BY <1>4, <1>5, <1>6 DEF ListOK, Cleared
<1> QED BY <1>4, <1>7 DEF end

-----------------------------------------------------------------------------
(***************************************************************************)
(* Requests, and the places is_suitable_range() finds for them.            *)
(***************************************************************************)
Calls == {WithDefaults(call) : call \in AllocRequests} \cup
         {LargeRequest(size) : size \in LargeSizes}

GoodRequest(r) ==
  /\ r.size \in Nat /\ r.size >= PAGE_SIZE /\ r.size % PAGE_SIZE = 0 /\ r.size < AddrMod
  /\ r.align \in Nat \ {0} /\ r.align % PAGE_SIZE = 0
  /\ r.min \in Nat /\ r.max \in Nat /\ r.max <= TARGET_PHYS_MAX /\ r.max < AddrMod
  /\ r.type \in MemoryTypes /\ r.type # MEMORY_TYPE_FREE

LEMMA Defaults ==
  ASSUME NEW call \in [size : Addr, align : Addr, min : Addr, max : Addr,
                       type : MemoryTypes, high : BOOLEAN],
         call.size # 0, call.size % PAGE_SIZE = 0, call.align % PAGE_SIZE = 0,
         call.type # MEMORY_TYPE_FREE, NEW r, r = WithDefaults(call)
  PROVE  /\ GoodRequest(r)
         /\ r.size = call.size /\ r.type = call.type /\ r.high = call.high
<1>1. /\ call.size \in Nat /\ call.size < AddrMod /\ call.align \in Nat /\ call.min \in Nat
      /\ call.max \in Nat /\ call.max < AddrMod /\ call.type \in MemoryTypes
  BY AddrNat
<1>2. /\ TARGET_PHYS_MIN \in Nat /\ TARGET_PHYS_MAX \in Nat /\ TARGET_PHYS_MAX < AddrMod
      /\ AddrMod \in Nat
  BY RequestsAssumption, AddrNat
<1>3. /\ r.size = call.size /\ r.type = call.type /\ r.high = call.high
      /\ r.align = IF call.align = 0 THEN PAGE_SIZE ELSE call.align
      /\ r.min = IF call.min = 0 THEN TARGET_PHYS_MIN ELSE call.min
      /\ r.max = IF call.max = 0 \/ call.max > TARGET_PHYS_MAX THEN TARGET_PHYS_MAX
                 ELSE call.max
  BY DEF WithDefaults
<1>4. r.size >= PAGE_SIZE
  <2>1. 0 % PAGE_SIZE = 0 /\ 0 < call.size /\ call.size \in Int /\ 0 \in Int
    BY <1>1, PageSize
  <2>2. 0 + PAGE_SIZE <= call.size
    BY <2>1, PageSize, MultipleGap
  <2> QED BY <1>1, <1>3, <2>2, PageSize
<1>5. r.align \in Nat \ {0} /\ r.align % PAGE_SIZE = 0
  <2>1. PAGE_SIZE % PAGE_SIZE = 0
    BY PageSize
  <2> QED BY <1>1, <1>3, <2>1, PageSize
<1>6. r.min \in Nat /\ r.max \in Nat /\ r.max <= TARGET_PHYS_MAX /\ r.max < AddrMod
  BY <1>1, <1>2, <1>3
<1> QED BY <1>1, <1>3, <1>4, <1>5, <1>6 DEF GoodRequest

LEMMA InternalType ==
  /\ MEMORY_TYPE_INTERNAL \in MemoryTypes /\ MEMORY_TYPE_FREE \in MemoryTypes
  /\ MEMORY_TYPE_INTERNAL # MEMORY_TYPE_FREE
BY DEF MEMORY_TYPE_FREE, MEMORY_TYPE_ALLOCATED, MEMORY_TYPE_INTERNAL, MemoryTypes

LEMMA CallsGood ==
  /\ \A call \in AllocRequests :
       GoodRequest(WithDefaults(call)) /\ WithDefaults(call) \in Calls
  /\ \A size \in LargeSizes :
       /\ GoodRequest(LargeRequest(size)) /\ LargeRequest(size) \in Calls
       /\ LargeRequest(size).type = MEMORY_TYPE_INTERNAL
  /\ \A r \in Calls : GoodRequest(r)
<1>1. ASSUME NEW call \in AllocRequests PROVE GoodRequest(WithDefaults(call))
  <2>1. /\ call \in [size : Addr, align : Addr, min : Addr, max : Addr,
                    type : MemoryTypes, high : BOOLEAN]
        /\ call.size # 0 /\ call.size % PAGE_SIZE = 0 /\ call.align % PAGE_SIZE = 0
        /\ call.type # MEMORY_TYPE_FREE
    BY RequestsAssumption
  <2> QED BY <2>1, Defaults
<1>2. ASSUME NEW size \in LargeSizes
      PROVE  GoodRequest(LargeRequest(size)) /\ LargeRequest(size).type = MEMORY_TYPE_INTERNAL
  <2> DEFINE n == round_up(size, PAGE_SIZE)
             c == [size |-> n, align |-> 0, min |-> 0, max |-> 0,
                   type |-> MEMORY_TYPE_INTERNAL, high |-> TRUE]
  <2>1. size \in Nat /\ size # 0 /\ size + PAGE_SIZE <= AddrMod /\ size \in Addr
    BY RequestsAssumption, AddrNat
  <2>2. n \in Nat /\ size <= n /\ n % PAGE_SIZE = 0 /\ n \in Addr
    BY <2>1, PageSize, RoundUpFact, RoundUpPage
  <2>3. LargeRequest(size) = WithDefaults(c)
    BY DEF LargeRequest
  <2> HIDE DEF n
  <2>4. n # 0 /\ 0 \in Addr /\ 0 % PAGE_SIZE = 0
    BY <2>1, <2>2, PageSize, AddrNat
  <2>5. /\ c \in [size : Addr, align : Addr, min : Addr, max : Addr,
                  type : MemoryTypes, high : BOOLEAN]
        /\ c.size # 0 /\ c.size % PAGE_SIZE = 0 /\ c.align % PAGE_SIZE = 0
        /\ c.type = MEMORY_TYPE_INTERNAL
    BY <2>2, <2>4, InternalType
  <2> HIDE DEF c
  <2> QED BY <2>3, <2>5, InternalType, Defaults
<1> QED BY <1>1, <1>2 DEF Calls

(* is_suitable_range() does not wrap around the address space when it      *)
(* looks for a place for req in the range: a request from the top is not   *)
(* larger than all addresses up to the end of the range, and one from the  *)
(* bottom does not reach past the last address.                            *)
Computable(range, req) ==
  MatchEnd(range, req) > MatchStart(range, req) =>
    IF req.high THEN req.size <= MatchEnd(range, req) + 1
    ELSE MatchStart(range, req) + req.align + req.size <= AddrMod

(* Address a is one that req could have in the range.                      *)
InPlace(range, req, a) ==
  /\ a \in Nat /\ a % req.align = 0
  /\ req.min <= a /\ range.start <= a
  /\ a + req.size - 1 <= req.max /\ a + req.size - 1 <= EndOf(range)

LEMMA MatchFact ==
  ASSUME NEW range \in MemoryRange, NEW req, GoodRequest(req)
  PROVE  /\ MatchStart(range, req) \in Nat /\ MatchEnd(range, req) \in Nat
         /\ MatchEnd(range, req) < AddrMod
         /\ \A a \in Int : MatchStart(range, req) <= a <=> req.min <= a /\ range.start <= a
         /\ \A a \in Int : a <= MatchEnd(range, req) <=> a <= req.max /\ a <= EndOf(range)
<1>1. /\ range.start \in Nat /\ EndOf(range) \in Nat /\ EndOf(range) < AddrMod
      /\ AddrMod \in Nat
  BY RangeFields, AddrNat
<1>2. req.min \in Nat /\ req.max \in Nat /\ req.max < AddrMod
  BY DEF GoodRequest
<1> QED BY <1>1, <1>2 DEF MatchStart, MatchEnd

LEMMA SuitablePlace ==
  ASSUME NEW range \in MemoryRange, NEW req, GoodRequest(req), Computable(range, req),
         Suitable(range, req)
  PROVE  InPlace(range, req, AllocStart(range, req))
<1> DEFINE lo == MatchStart(range, req)
           hi == MatchEnd(range, req)
           a == AllocStart(range, req)
           n == req.size
           al == req.align
<1>1. /\ lo \in Nat /\ hi \in Nat /\ hi < AddrMod /\ AddrMod \in Nat
      /\ \A x \in Int : lo <= x <=> req.min <= x /\ range.start <= x
      /\ \A x \in Int : x <= hi <=> x <= req.max /\ x <= EndOf(range)
  BY MatchFact, AddrNat
<1>2. n \in Nat /\ n >= 2 /\ al \in Nat \ {0}
  BY PageSize DEF GoodRequest
<1>3. hi > lo
  BY DEF Suitable
<1>4. a \in Nat /\ a % al = 0 /\ lo <= a /\ a + n - 1 <= hi
  <2>1. CASE req.high
    <3> DEFINE v == hi - n + 1
    <3>1. n <= hi + 1 /\ a >= lo /\ a = round_down(Wrap(v), al)
      BY <1>3, <2>1 DEF Computable, Suitable, AllocStart
    <3>2. v \in Addr /\ v \in Nat
      <4> HIDE DEF n, hi
      <4> QED BY <1>1, <1>2, <3>1, AddrNat
    <3>3. a = round_down(v, al)
      BY <3>1, <3>2, WrapSmall
    <3> HIDE DEF v, a, n, hi, lo, al
    <3>4. a \in Nat /\ a <= v /\ a % al = 0
      BY <1>2, <3>2, <3>3, RoundDownFact
    <3> QED BY <1>1, <1>2, <3>1, <3>4 DEF v
  <2>2. CASE ~req.high
    <3>1. lo + al + n <= AddrMod /\ Wrap(a + n - 1) <= hi /\ a = round_up(lo, al)
      BY <1>3, <2>2 DEF Computable, Suitable, AllocStart
    <3> HIDE DEF a, n, hi, lo, al
    <3>2. lo + al <= AddrMod
      BY <1>1, <1>2, <3>1
    <3>3. a \in Nat /\ lo <= a /\ a < lo + al /\ a % al = 0
      BY <1>1, <1>2, <3>1, <3>2, RoundUpFact, RoundUpMultiple
    <3>4. a + n - 1 \in Addr
      BY <1>1, <1>2, <3>1, <3>3, AddrNat
    <3> QED BY <3>1, <3>3, <3>4, WrapSmall
  <2> QED BY <2>1, <2>2
<1> HIDE DEF a, n, hi, lo, al
<1>5. a \in Int /\ a + n - 1 \in Int
  BY <1>2, <1>4
<1>6. req.min <= a /\ range.start <= a /\ a + n - 1 <= req.max /\ a + n - 1 <= EndOf(range)
  BY <1>1, <1>4, <1>5
<1> QED BY <1>4, <1>6 DEF InPlace, a, n, al

(* A range that has a place is found suitable, and the address chosen in   *)
(* it is the lowest, or the highest, one.                                  *)
LEMMA PlaceSuitable ==
  ASSUME NEW range \in MemoryRange, NEW req, GoodRequest(req), NEW b, InPlace(range, req, b)
  PROVE  /\ Suitable(range, req)
         /\ req.high => b <= AllocStart(range, req)
         /\ ~req.high => AllocStart(range, req) <= b
<1> DEFINE lo == MatchStart(range, req)
           hi == MatchEnd(range, req)
           a == AllocStart(range, req)
           n == req.size
           al == req.align
<1>1. /\ lo \in Nat /\ hi \in Nat /\ hi < AddrMod /\ AddrMod \in Nat
      /\ \A x \in Int : lo <= x <=> req.min <= x /\ range.start <= x
      /\ \A x \in Int : x <= hi <=> x <= req.max /\ x <= EndOf(range)
  BY MatchFact, AddrNat
<1>2. n \in Nat /\ n >= 2 /\ al \in Nat \ {0}
  BY PageSize DEF GoodRequest
<1>3. b \in Nat /\ b % al = 0 /\ lo <= b /\ b + n - 1 <= hi
  <2>1. /\ b \in Nat /\ b % al = 0 /\ req.min <= b /\ range.start <= b
        /\ b + n - 1 <= req.max /\ b + n - 1 <= EndOf(range)
    BY DEF InPlace
  <2> HIDE DEF n, al, lo, hi
  <2>2. b \in Int /\ b + n - 1 \in Int
    BY <1>2, <2>1
  <2> QED BY <1>1, <2>1, <2>2
<1>4. hi > lo
  <2> HIDE DEF n, al, lo, hi
  <2> QED BY <1>1, <1>2, <1>3
<1>5. CASE req.high
  <2> DEFINE v == hi - n + 1
  <2>1. n <= hi + 1 /\ a = round_down(Wrap(v), al)
    <3>1. a = round_down(Wrap(v), al)
      BY <1>5 DEF AllocStart
    <3> HIDE DEF n, hi, al, lo, a, v
    <3> QED BY <1>1, <1>2, <1>3, <3>1
  <2>2. v \in Addr /\ v \in Nat /\ b <= v
    <3> HIDE DEF n, hi, al, lo
    <3> QED BY <1>1, <1>2, <1>3, <2>1, AddrNat
  <2>3. a = round_down(v, al)
    BY <2>1, <2>2, WrapSmall
  <2>4. b <= a /\ a >= lo
    <3> HIDE DEF v, a, n, hi, lo, al
    <3>1. a \in Nat /\ b <= a
      BY <1>2, <1>3, <2>2, <2>3, RoundDownFact
    <3> QED BY <1>1, <1>3, <3>1
  <2> QED BY <1>4, <1>5, <2>4 DEF Suitable
<1>6. CASE ~req.high
  <2>1. a = round_up(lo, al)
    BY <1>6 DEF AllocStart
  <2>2. a \in Nat /\ a <= b /\ Wrap(a + n - 1) <= hi
    <3> HIDE DEF a, n, hi, lo, al
    <3>1. b < AddrMod
      BY <1>1, <1>2, <1>3
    <3>2. a \in Nat /\ a <= b
      BY <1>1, <1>2, <1>3, <2>1, <3>1, RoundUpBelow
    <3>3. a + n - 1 \in Addr
      BY <1>1, <1>2, <1>3, <3>2, AddrNat
    <3> QED BY <1>1, <1>2, <1>3, <3>2, <3>3, WrapSmall
  <2> QED BY <1>4, <1>6, <2>2 DEF Suitable
<1> QED BY <1>5, <1>6

-----------------------------------------------------------------------------
(***************************************************************************)
(* The range memory_alloc() chooses.                                       *)
(***************************************************************************)

(* A nonempty set of positions has a last one, and Max chooses it.         *)
LEMMA MaxElement ==
  ASSUME NEW n \in Nat, NEW T, T \subseteq 1 .. n, T # {}
  PROVE  Max(T) \in T /\ \A y \in T : y <= Max(T)
<1> DEFINE U == {n - y : y \in T}
<1>1. U \subseteq Nat /\ U # {}
  <2>1. \A y \in T : y \in 1 .. n
    OBVIOUS
  <2>2. \A y \in T : n - y \in Nat
    BY <2>1
  <2> QED BY <2>2
<1>2. \A y \in T : n - y \in U
  OBVIOUS
<1>3. \A u \in U : \E y \in T : u = n - y
  OBVIOUS
<1> HIDE DEF U
<1>4. Min(U) \in U /\ \A u \in U : Min(U) <= u
  BY <1>1, MinElement
<1>5. PICK x \in T : Min(U) = n - x
  BY <1>3, <1>4
<1>6. \A y \in T : x >= y
  <2> TAKE y \in T
  <2>1. n - x <= n - y
    BY <1>2, <1>4, <1>5
  <2>2. x \in Int /\ y \in Int
    OBVIOUS
  <2> QED BY <2>1, <2>2
<1>7. \E z \in T : \A y \in T : z >= y
  BY <1>6
<1>8. Max(T) \in T /\ \A y \in T : Max(T) >= y
  BY <1>7 DEF Max
<1>9. Max(T) \in Int /\ \A y \in T : y \in Int
  <2>1. \A y \in T : y \in 1 .. n
    OBVIOUS
  <2>2. \A y \in T : y \in Int
    BY <2>1
  <2> QED BY <1>8, <2>2
<1> QED BY <1>8, <1>9

(* The range memory_alloc() chooses is not chosen because of a wrap.  In   *)
(* ranges that are not chosen, the computation may go wrong: there is no   *)
(* place for the request in those.                                         *)
Computed(s, req) ==
  LET k == FindRange(s, req) IN k # 0 => Computable(s[k], req)

(* Address a is one that req could have: all of its memory is free.        *)
FreePlace(s, req, a) ==
  /\ a \in Nat /\ a % req.align = 0
  /\ req.min <= a /\ a + req.size - 1 <= req.max
  /\ \A x \in Int : a <= x /\ x <= a + req.size - 1 => Holds(s, x, MEMORY_TYPE_FREE)

(* Free memory in one piece is in one range.                               *)
LEMMA FreeRun ==
  ASSUME NEW s, ListOK(s), NEW req, GoodRequest(req), NEW a, FreePlace(s, req, a)
  PROVE  \E i \in 1 .. Len(s) : s[i].type = MEMORY_TYPE_FREE /\ InPlace(s[i], req, a)
<1> DEFINE n == req.size
           last == a + n - 1
<1>1. n \in Nat /\ n >= 2
  BY PageSize DEF GoodRequest
<1>2. /\ a \in Nat /\ a % req.align = 0 /\ req.min <= a /\ last <= req.max
      /\ \A x \in Int : a <= x /\ x <= last => Holds(s, x, MEMORY_TYPE_FREE)
  BY DEF FreePlace
<1>3. last \in Int /\ a <= last
  BY <1>1, <1>2
<1> HIDE DEF last
<1>4. PICK i \in 1 .. Len(s) : InRange(s[i], a) /\ s[i].type = MEMORY_TYPE_FREE
  <2>1. a \in Int /\ a <= a
    BY <1>2
  <2> QED BY <1>2, <1>3, <2>1 DEF Holds
<1>5. s[i].start <= a /\ a <= EndOf(s[i]) /\ EndOf(s[i]) \in Nat
  BY <1>4, ListFields DEF InRange, ListOK
<1>6. last <= EndOf(s[i])
  <2>1. CASE EndOf(s[i]) < last
    <3> DEFINE e == EndOf(s[i]) + 1
    <3>1. e \in Int /\ a <= e /\ e <= last
      BY <1>2, <1>3, <1>5, <2>1
    <3>2. ~Holds(s, e, MEMORY_TYPE_FREE)
      BY <1>4 DEF ListOK, Clean
    <3> HIDE DEF e
    <3> QED BY <1>2, <3>1, <3>2
  <2> QED BY <1>3, <1>5, <2>1
<1>7. InPlace(s[i], req, a)
  BY <1>2, <1>5, <1>6 DEF InPlace, last
<1> QED BY <1>4, <1>7

(* The memory of a place in a free range is free.                          *)
LEMMA PlaceIsFree ==
  ASSUME NEW s, ListOK(s), NEW req, GoodRequest(req), NEW i \in 1 .. Len(s),
         s[i].type = MEMORY_TYPE_FREE, NEW a, InPlace(s[i], req, a)
  PROVE  FreePlace(s, req, a)
<1> DEFINE last == a + req.size - 1
           e == EndOf(s[i])
<1>1. /\ a \in Nat /\ a % req.align = 0 /\ req.min <= a /\ last <= req.max
      /\ s[i].start <= a /\ last <= e
  BY DEF InPlace
<1>2. req.size \in Nat /\ s[i].start \in Nat /\ e \in Nat
  BY ListFields DEF GoodRequest, ListOK
<1>3. last \in Int
  BY <1>1, <1>2
<1> HIDE DEF last, e
<1>4. ASSUME NEW x \in Int, a <= x, x <= last PROVE Holds(s, x, MEMORY_TYPE_FREE)
  <2>1. s[i].start <= x /\ x <= e
    BY <1>1, <1>2, <1>3, <1>4
  <2> QED BY <2>1 DEF Holds, InRange, e
<1> QED BY <1>1, <1>4 DEF FreePlace, last

(* Nothing free is better than a: there is no lower, or higher, place.     *)
BestPlace(s, req, a) ==
  \A b : FreePlace(s, req, b) => IF req.high THEN b <= a ELSE a <= b

LEMMA FindFact ==
  ASSUME NEW s, ListOK(s), NEW req, GoodRequest(req), Computed(s, req),
         NEW k, k = FindRange(s, req)
  PROVE  /\ k = 0 => \A b : ~FreePlace(s, req, b)
         /\ k # 0 => /\ k \in 1 .. Len(s) /\ s[k].type = MEMORY_TYPE_FREE
                     /\ FreePlace(s, req, AllocStart(s[k], req))
                     /\ BestPlace(s, req, AllocStart(s[k], req))
<1> DEFINE I == {i \in 1 .. Len(s) : IsSuitable(s[i], req)}
<1>1. s \in Seq(MemoryRange) /\ Apart(s) /\ Len(s) \in Nat
  BY DEF ListOK
<1>2. k = IF I = {} THEN 0 ELSE IF req.high THEN Max(I) ELSE Min(I)
  BY DEF FindRange, SelectInSeq, SelectLastInSeq
<1>3. I \subseteq 1 .. Len(s) /\ I \subseteq Nat
  OBVIOUS
<1>4. I # {} => /\ k \in I
                /\ (req.high => \A i \in I : i <= k)
                /\ (~req.high => \A i \in I : k <= i)
  <2> HIDE DEF I
  <2> SUFFICES ASSUME I # {}
               PROVE  k \in I /\ (req.high => \A i \in I : i <= k)
                        /\ (~req.high => \A i \in I : k <= i)
    OBVIOUS
  <2>1. CASE req.high
    BY <1>1, <1>2, <1>3, <2>1, MaxElement
  <2>2. CASE ~req.high
    BY <1>2, <1>3, <2>2, MinElement
  <2> QED BY <2>1, <2>2
<1>5. \A i \in 1 .. Len(s) : s[i] \in MemoryRange
  BY <1>1, ListFields
<1>6. ASSUME NEW i \in I
      PROVE  /\ i \in 1 .. Len(s) /\ s[i].type = MEMORY_TYPE_FREE /\ Suitable(s[i], req)
             /\ i = k /\ k # 0 => InPlace(s[i], req, AllocStart(s[i], req))
  <2>1. i \in 1 .. Len(s) /\ s[i].type = MEMORY_TYPE_FREE /\ Suitable(s[i], req)
    BY DEF IsSuitable
  <2>2. ASSUME i = k, k # 0 PROVE InPlace(s[i], req, AllocStart(s[i], req))
    <3>1. Computable(s[i], req)
      BY <2>2 DEF Computed
    <3> QED BY <1>5, <2>1, <3>1, SuitablePlace
  <2> QED BY <2>1, <2>2
<1>7. ASSUME NEW b, FreePlace(s, req, b)
      PROVE  \E i \in I : /\ InPlace(s[i], req, b)
                          /\ req.high => b <= AllocStart(s[i], req)
                          /\ ~req.high => AllocStart(s[i], req) <= b
  <2>1. PICK i \in 1 .. Len(s) : s[i].type = MEMORY_TYPE_FREE /\ InPlace(s[i], req, b)
    BY <1>7, FreeRun
  <2>2. Suitable(s[i], req) /\ (req.high => b <= AllocStart(s[i], req))
          /\ (~req.high => AllocStart(s[i], req) <= b)
    BY <1>5, <2>1, PlaceSuitable
  <2>3. i \in I
    BY <2>1, <2>2 DEF IsSuitable
  <2> QED BY <2>1, <2>2, <2>3
<1> HIDE DEF I
<1>8. k = 0 => I = {}
  BY <1>3, <1>4
<1>9. k = 0 => \A b : ~FreePlace(s, req, b)
  BY <1>7, <1>8
<1>10. ASSUME k # 0
       PROVE  /\ k \in 1 .. Len(s) /\ s[k].type = MEMORY_TYPE_FREE
              /\ FreePlace(s, req, AllocStart(s[k], req))
              /\ BestPlace(s, req, AllocStart(s[k], req))
  <2> DEFINE a == AllocStart(s[k], req)
  <2>1. k \in I
    BY <1>2, <1>4, <1>10
  <2>2. k \in 1 .. Len(s) /\ s[k].type = MEMORY_TYPE_FREE /\ InPlace(s[k], req, a)
    BY <1>6, <1>10, <2>1
  <2>3. FreePlace(s, req, a)
    <3> HIDE DEF a
    <3> QED BY <2>2, PlaceIsFree
  <2>4. ASSUME NEW b, FreePlace(s, req, b)
        PROVE  IF req.high THEN b <= a ELSE a <= b
    <3>1. PICK i \in I : /\ InPlace(s[i], req, b)
                         /\ req.high => b <= AllocStart(s[i], req)
                         /\ ~req.high => AllocStart(s[i], req) <= b
      BY <1>7, <2>4
    <3>2. i \in 1 .. Len(s) /\ (req.high => i <= k) /\ (~req.high => k <= i)
      BY <1>4, <1>6, <3>1
    <3>3. CASE i = k
      BY <3>1, <3>3
    <3>4. CASE i # k
      <4>1. /\ s[i].start \in Nat /\ EndOf(s[i]) \in Nat
            /\ s[k].start \in Nat /\ EndOf(s[k]) \in Nat
        BY <1>1, <2>2, <3>2, ListFields
      <4>2. req.size \in Nat /\ req.size >= 2
        BY PageSize DEF GoodRequest
      <4>3. /\ b \in Nat /\ s[i].start <= b /\ b + req.size - 1 <= EndOf(s[i])
        BY <3>1 DEF InPlace
      <4>4. a \in Nat /\ s[k].start <= a /\ a + req.size - 1 <= EndOf(s[k])
        BY <2>2 DEF InPlace
      <4> HIDE DEF a
      <4>5. CASE req.high
        <5>1. i < k
          BY <2>2, <3>2, <3>4, <4>5
        <5>2. EndOf(s[i]) < s[k].start
          BY <1>1, <2>2, <3>2, <5>1 DEF Apart
        <5> QED BY <4>1, <4>2, <4>3, <4>4, <4>5, <5>2
      <4>6. CASE ~req.high
        <5>1. k < i
          BY <2>2, <3>2, <3>4, <4>6
        <5>2. EndOf(s[k]) < s[i].start
          BY <1>1, <2>2, <3>2, <5>1 DEF Apart
        <5> QED BY <4>1, <4>2, <4>3, <4>4, <4>6, <5>2
      <4> QED BY <4>5, <4>6
    <3> QED BY <3>3, <3>4
  <2> QED BY <2>2, <2>3, <2>4 DEF BestPlace
<1> QED BY <1>9, <1>10

(* What an allocation does: a is the start of the block.                   *)
Allocates(s, t, req, a) ==
  /\ WholePages(a, req.size) /\ a + req.size - 1 <= TARGET_PHYS_MAX
  /\ FreePlace(s, req, a) /\ BestPlace(s, req, a)
  /\ ListOK(t) /\ Updated(s, t, a, a + req.size - 1, req.type)

LEMMA AllocOK ==
  ASSUME NEW s, ListOK(s), NEW req, GoodRequest(req), Computed(s, req),
         FindRange(s, req) # 0, NEW p, p = Place(s, req)
  PROVE  /\ p.block = [start |-> p.block.start, size |-> req.size, type |-> req.type]
         /\ Allocates(s, p.map, req, p.block.start)
<1> DEFINE k == FindRange(s, req)
           a == AllocStart(s[k], req)
           t == MapInsert(s, a, req.size, req.type)
<1>1. FreePlace(s, req, a) /\ BestPlace(s, req, a)
  <2>1. k = FindRange(s, req) /\ k # 0
    OBVIOUS
  <2> HIDE DEF k
  <2> QED BY <2>1, FindFact
<1>2. p.block = [start |-> a, size |-> req.size, type |-> req.type] /\ p.map = t
  BY DEF Place
<1> HIDE DEF a, t
<1>3. /\ a \in Nat /\ a % req.align = 0 /\ a + req.size - 1 <= req.max
  BY <1>1 DEF FreePlace
<1>4. /\ req.size \in Nat /\ req.size >= 2 /\ req.size % PAGE_SIZE = 0 /\ req.size < AddrMod
      /\ req.align \in Nat \ {0} /\ req.align % PAGE_SIZE = 0
      /\ req.max \in Nat /\ req.max <= TARGET_PHYS_MAX /\ req.max < AddrMod
      /\ req.type \in MemoryTypes
  BY PageSize DEF GoodRequest
<1>5. TARGET_PHYS_MAX \in Nat /\ AddrMod \in Nat
  BY RequestsAssumption, AddrNat
<1>6. a % PAGE_SIZE = 0
  <2>1. a \in Int
    BY <1>3
  <2> QED BY <1>3, <1>4, <2>1, PageSize, MultipleOfMultiple
<1>7. a + req.size <= AddrMod /\ a + req.size - 1 <= TARGET_PHYS_MAX
  BY <1>3, <1>4, <1>5
<1>8. WholePages(a, req.size)
  BY <1>3, <1>4, <1>6, <1>7 DEF WholePages
<1>9. ListOK(t) /\ Updated(s, t, a, a + req.size - 1, req.type)
  <2>1. t = MapInsert(s, a, req.size, req.type)
    BY DEF t
  <2> QED BY <1>4, <1>8, <2>1, InsertOK
<1> QED BY <1>1, <1>2, <1>7, <1>8, <1>9 DEF Allocates

-----------------------------------------------------------------------------
(***************************************************************************)
(* The loops of memory_protect() and memory_finalize().                    *)
(***************************************************************************)

(* The loop stands on a node of the list, or is over, or is lost.          *)
NodeAt(s, at) == at \in {HEAD, FREED} \/ \E i \in 1 .. Len(s) : s[i].start = at

(* The loop is done with address x.                                        *)
Passed(at, x) == at # FREED /\ (at = HEAD \/ x < at)

LEMMA NodePosFact ==
  ASSUME NEW s \in Seq(MemoryRange), NEW at, NEW i, i = NodePos(s, at)
  PROVE  /\ (\E j \in 1 .. Len(s) : s[j].start = at) => i \in 1 .. Len(s) /\ s[i].start = at
         /\ i # 0 => \E j \in 1 .. Len(s) : s[j].start = at
<1> DEFINE T == {j \in 1 .. Len(s) : s[j].start = at}
<1>1. i = IF T # {} THEN Min(T) ELSE 0
  BY DEF NodePos, SelectInSeq
<1>2. T \subseteq Nat
  OBVIOUS
<1>3. T # {} => i \in T
  <2> HIDE DEF T
  <2> QED BY <1>1, <1>2, MinElement
<1> QED BY <1>1, <1>3

LEMMA FirstNode ==
  ASSUME NEW s, ListOK(s), NEW at, at = NodeAfter(s, 0)
  PROVE  /\ at \in Int /\ at # FREED /\ NodeAt(s, at)
         /\ \A x \in Int : \A ty : Passed(at, x) => ~Holds(s, x, ty)
<1>1. s \in Seq(MemoryRange) /\ Apart(s) /\ Len(s) \in Nat
  BY DEF ListOK
<1>2. \A i \in 1 .. Len(s) : s[i].start \in Nat
  BY <1>1, ListFields
<1>3. CASE Len(s) = 0
  BY <1>3 DEF NodeAfter, HEAD, FREED, NodeAt, Holds
<1>4. CASE Len(s) # 0
  <2>1. 1 \in 1 .. Len(s) /\ at = s[1].start /\ at \in Nat /\ 0 < Len(s) /\ 0 + 1 = 1
    BY <1>1, <1>2, <1>4 DEF NodeAfter
  <2>2. at # HEAD /\ at # FREED
    BY <2>1 DEF HEAD, FREED
  <2>3. ASSUME NEW x \in Int, NEW ty, Passed(at, x), Holds(s, x, ty) PROVE FALSE
    <3>1. x < at
      BY <2>2, <2>3 DEF Passed
    <3>2. PICK j \in 1 .. Len(s) : s[j].start <= x /\ x <= EndOf(s[j])
      BY <2>3 DEF Holds, InRange
    <3>3. 1 < j => EndOf(s[1]) < s[j].start
      BY <1>1, <2>1 DEF Apart
    <3>4. at <= EndOf(s[1]) /\ EndOf(s[1]) \in Nat /\ s[j].start \in Nat
      BY <1>1, <2>1, ListFields DEF Apart
    <3>5. CASE j = 1
      BY <2>1, <3>1, <3>2, <3>5
    <3>6. CASE j # 1
      <4>1. 1 < j
        BY <3>6
      <4> QED BY <2>1, <3>1, <3>2, <3>3, <3>4, <4>1
    <3> QED BY <3>5, <3>6
  <2> QED BY <2>1, <2>2, <2>3 DEF NodeAt
<1> QED BY <1>3, <1>4

LEMMA NextNode ==
  ASSUME NEW s, ListOK(s), NEW i \in 1 .. Len(s), NEW at, at = NodeAfter(s, i)
  PROVE  /\ at \in Int /\ at # FREED /\ NodeAt(s, at)
         /\ \A x \in Int : \A ty : Passed(at, x) /\ Holds(s, x, ty) =>
              x < s[i].start \/ (InRange(s[i], x) /\ ty = s[i].type)
<1>1. s \in Seq(MemoryRange) /\ Apart(s) /\ Len(s) \in Nat
  BY DEF ListOK
<1>2. \A j \in 1 .. Len(s) : s[j].start \in Nat /\ EndOf(s[j]) \in Nat
  BY <1>1, ListFields
<1>3. ASSUME NEW x \in Int, NEW ty, Passed(at, x), Holds(s, x, ty)
      PROVE  x < s[i].start \/ (InRange(s[i], x) /\ ty = s[i].type)
  <2>1. PICK j \in 1 .. Len(s) : InRange(s[j], x) /\ s[j].type = ty
    BY <1>3 DEF Holds
  <2>2. CASE j < i
    <3>1. EndOf(s[j]) < s[i].start
      BY <1>1, <2>2 DEF Apart
    <3> QED BY <1>2, <2>1, <3>1 DEF InRange
  <2>3. CASE j = i
    BY <2>1, <2>3
  <2>4. CASE i < j
    <3>1. i < Len(s) /\ i + 1 \in 1 .. Len(s) /\ i + 1 <= j
      BY <1>1, <2>4
    <3>2. at = s[i + 1].start
      BY <3>1 DEF NodeAfter
    <3>3. at \in Nat /\ at # HEAD
      BY <1>2, <3>1, <3>2 DEF HEAD
    <3>4. x < at
      BY <1>3, <3>3 DEF Passed
    <3>5. s[j].start <= x
      BY <2>1 DEF InRange
    <3>6. s[i + 1].start <= s[j].start
      <4>1. CASE i + 1 = j
        BY <1>2, <4>1
      <4>2. CASE i + 1 < j
        <5>1. EndOf(s[i + 1]) < s[j].start
          BY <1>1, <3>1, <4>2 DEF Apart
        <5>2. s[i + 1].start <= EndOf(s[i + 1])
          BY <1>1, <3>1 DEF Apart
        <5>3. s[i + 1].start \in Nat /\ EndOf(s[i + 1]) \in Nat /\ s[j].start \in Nat
          BY <1>2, <3>1
        <5> HIDE DEF EndOf
        <5> QED BY <5>1, <5>2, <5>3
      <4> QED BY <3>1, <4>1, <4>2
    <3> QED BY <1>2, <3>2, <3>3, <3>4, <3>5, <3>6
  <2> QED BY <2>2, <2>3, <2>4
<1>4. at \in Int /\ at # FREED /\ NodeAt(s, at)
  <2>1. CASE i < Len(s)
    <3>1. i + 1 \in 1 .. Len(s) /\ at = s[i + 1].start
      BY <1>1, <2>1 DEF NodeAfter
    <3>2. at \in Nat
      BY <1>2, <3>1
    <3> QED BY <3>1, <3>2 DEF NodeAt, FREED
  <2>2. CASE ~(i < Len(s))
    BY <2>2 DEF NodeAfter, HEAD, FREED, NodeAt
  <2> QED BY <2>1, <2>2
<1> QED BY <1>3, <1>4

(* The arithmetic of match_start and match_end.                            *)
LEMMA SpanSize ==
  ASSUME NEW from \in Nat, NEW to \in Nat, from < to, NEW last \in Nat, to <= last,
         NEW m \in Nat, last + 1 < m, NEW n, n = to - from + 1, NEW z, z = from + n - 1
  PROVE  /\ n \in Nat /\ n # 0 /\ from + n = to + 1 /\ from + n <= m /\ n < m
         /\ to + 1 \in Int /\ from \in Int /\ n = (to + 1) - from /\ z = to
OBVIOUS

(* One iteration of memory_protect() for the addresses from first to last: *)
(* none of them is free in the range it stood on, nothing becomes free,    *)
(* and what changes becomes internal.                                      *)
Shields(s, t, i, first, last) ==
  /\ ListOK(t)
  /\ \A x \in Int : \A ty : Holds(t, x, ty) => Holds(s, x, ty) \/ ty = MEMORY_TYPE_INTERNAL
  /\ \A x \in Int : Holds(t, x, MEMORY_TYPE_FREE) =>
       /\ Holds(s, x, MEMORY_TYPE_FREE)
       /\ ~(InRange(s[i], x) /\ first <= x /\ x <= last)

LEMMA ShieldRange ==
  ASSUME NEW s, ListOK(s), NEW i \in 1 .. Len(s), NEW first \in Nat, NEW last \in Nat,
         last + 1 < AddrMod, NEW from \in Nat, NEW to \in Nat, from < to, to <= last,
         from % PAGE_SIZE = 0, (to + 1) % PAGE_SIZE = 0,
         \A x \in Int : from <= x /\ x <= to <=> InRange(s[i], x) /\ first <= x /\ x <= last,
         NEW t, t = MapInsert(s, from, to - from + 1, MEMORY_TYPE_INTERNAL)
  PROVE  Shields(s, t, i, first, last)
<1> DEFINE n == to - from + 1
           z == from + n - 1
           INT == MEMORY_TYPE_INTERNAL
<1>1. t = MapInsert(s, from, n, INT)
  OBVIOUS
<1>2. /\ n \in Nat /\ n # 0 /\ from + n = to + 1 /\ from + n <= AddrMod /\ n < AddrMod
      /\ to + 1 \in Int /\ from \in Int /\ n = (to + 1) - from /\ z = to
  <2>1. AddrMod \in Nat
    BY AddrNat
  <2> QED BY <2>1, SpanSize
<1> HIDE DEF n, z
<1>3. n % PAGE_SIZE = 0
  BY <1>2, PageSize, MultipleSum
<1>4. WholePages(from, n)
  BY <1>2, <1>3 DEF WholePages
<1>5. INT \in MemoryTypes /\ INT # MEMORY_TYPE_FREE
  BY InternalType
<1>6. ListOK(t) /\ Updated(s, t, from, z, INT)
  BY <1>1, <1>4, <1>5, InsertOK DEF z
<1>7. \A x \in Int : \A ty : Holds(t, x, ty) <=>
        IF from <= x /\ x <= to THEN ty = INT ELSE Holds(s, x, ty)
  BY <1>2, <1>6 DEF Updated
<1>8. \A x \in Int : \A ty : Holds(t, x, ty) => Holds(s, x, ty) \/ ty = INT
  BY <1>7
<1>9. ASSUME NEW x \in Int, Holds(t, x, MEMORY_TYPE_FREE)
      PROVE  /\ Holds(s, x, MEMORY_TYPE_FREE)
             /\ ~(InRange(s[i], x) /\ first <= x /\ x <= last)
  <2>1. ~(from <= x /\ x <= to)
    BY <1>5, <1>7, <1>9
  <2> QED BY <1>7, <1>9, <2>1
<1> QED BY <1>6, <1>8, <1>9 DEF Shields

LEMMA ProtectBody ==
  ASSUME NEW s, ListOK(s), NEW i \in 1 .. Len(s), NEW first \in Nat, NEW last \in Nat,
         first % PAGE_SIZE = 0, (last + 1) % PAGE_SIZE = 0, last + 1 < AddrMod,
         NEW from, from = IF first > s[i].start THEN first ELSE s[i].start,
         NEW to, to = IF last < EndOf(s[i]) THEN last ELSE EndOf(s[i]),
         NEW t, t = IF s[i].type # MEMORY_TYPE_FREE \/ to <= from THEN s
                    ELSE MapInsert(s, from, to - from + 1, MEMORY_TYPE_INTERNAL)
  PROVE  Shields(s, t, i, first, last)
<1> DEFINE a == s[i].start
           e == EndOf(s[i])
<1>1. s \in Seq(MemoryRange) /\ Apart(s)
  BY DEF ListOK
<1>2. a \in Nat /\ e \in Nat /\ a < AddrMod /\ e < AddrMod /\ AddrMod \in Nat
  BY <1>1, ListFields, AddrNat
<1>3. a % PAGE_SIZE = 0 /\ (e + 1) % PAGE_SIZE = 0
  BY RangeAligned
<1>4. /\ from = IF first > a THEN first ELSE a
      /\ to = IF last < e THEN last ELSE e
  OBVIOUS
<1>5. \A x : InRange(s[i], x) <=> a <= x /\ x <= e
  BY DEF InRange
<1> HIDE DEF a, e
<1>6. /\ from \in Nat /\ to \in Nat /\ to < AddrMod
      /\ \A x \in Int : from <= x /\ x <= to <=> a <= x /\ x <= e /\ first <= x /\ x <= last
  BY <1>2, <1>4
<1>7. from % PAGE_SIZE = 0 /\ (to + 1) % PAGE_SIZE = 0
  BY <1>3, <1>4
<1>8. CASE s[i].type # MEMORY_TYPE_FREE
  <2>1. t = s
    BY <1>8
  <2>2. ASSUME NEW x \in Int, Holds(s, x, MEMORY_TYPE_FREE), InRange(s[i], x) PROVE FALSE
    <3>1. Holds(s, x, s[i].type)
      BY <2>2 DEF Holds
    <3> QED BY <1>1, <1>8, <2>2, <3>1, TypeAtHolds
  <2> QED BY <2>1, <2>2 DEF Shields
<1>9. CASE s[i].type = MEMORY_TYPE_FREE /\ to <= from
  <2>1. t = s
    BY <1>9
  <2>2. to + 1 <= from
    <3>1. CASE from < to + 1
      <4>1. from + PAGE_SIZE <= to + 1
        <5>1. from \in Int /\ to + 1 \in Int
          BY <1>6
        <5> QED BY <1>7, <3>1, <5>1, PageSize, MultipleGap
      <4> QED BY <1>6, <1>9, <4>1, PageSize, SMTT(30)
    <3> QED BY <1>6, <3>1
  <2>3. \A x \in Int : ~(from <= x /\ x <= to)
    BY <1>6, <2>2
  <2>4. \A x \in Int : ~(a <= x /\ x <= e /\ first <= x /\ x <= last)
    BY <1>6, <2>3
  <2> QED BY <1>5, <2>1, <2>4 DEF Shields
<1>10. CASE s[i].type = MEMORY_TYPE_FREE /\ ~(to <= from)
  <2>1. t = MapInsert(s, from, to - from + 1, MEMORY_TYPE_INTERNAL)
    BY <1>10
  <2>2. from < to /\ to <= last
    BY <1>2, <1>4, <1>6, <1>10
  <2>3. \A x \in Int : from <= x /\ x <= to <=> InRange(s[i], x) /\ first <= x /\ x <= last
    BY <1>5, <1>6
  <2>4. from \in Nat /\ to \in Nat
    BY <1>6
  <2> QED BY <1>7, <2>1, <2>2, <2>3, <2>4, ShieldRange, ZenonT(30)
<1> QED BY <1>8, <1>9, <1>10

(* What the assumption says of the areas that are reserved or protected.   *)
LEMMA AreaFact ==
  ASSUME NEW r \in Reservations \cup Areas
  PROVE  /\ r.start \in Nat /\ r.size \in Nat /\ r.size # 0 /\ AddrMod \in Nat
         /\ r.start + r.size + PAGE_SIZE <= AddrMod
<1>1. /\ r \in [start : Addr, size : Addr]
      /\ r.size # 0 /\ r.start + r.size + PAGE_SIZE <= AddrMod
  BY MemoryAssumption
<1>2. r.start \in Addr /\ r.size \in Addr
  BY <1>1
<1>3. r.start \in Nat /\ r.size \in Nat /\ AddrMod \in Nat
  BY <1>2, AddrNat
<1> QED BY <1>1, <1>3

(* The bounds memory_protect() computes.                                   *)
ProtectStart(a) == round_down(a.start, PAGE_SIZE)
ProtectLast(a) == round_up(Wrap(ProtectStart(a) + a.size), PAGE_SIZE) - 1

LEMMA ProtectBounds ==
  ASSUME NEW a \in Areas, NEW first, first = ProtectStart(a), NEW last, last = ProtectLast(a)
  PROVE  /\ first \in Nat /\ last \in Nat /\ last + 1 < AddrMod
         /\ first % PAGE_SIZE = 0 /\ (last + 1) % PAGE_SIZE = 0
         /\ a.start \in Nat /\ a.size \in Nat
         /\ a.start % PAGE_SIZE = 0 => first = a.start /\ a.start + a.size - 1 <= last
<1>1. /\ a.start \in Nat /\ a.size \in Nat /\ a.size # 0 /\ AddrMod \in Nat
      /\ a.start + a.size + PAGE_SIZE <= AddrMod
  BY AreaFact
<1>2. first \in Nat /\ first <= a.start /\ first % PAGE_SIZE = 0
  <2>1. first = round_down(a.start, PAGE_SIZE)
    BY DEF ProtectStart
  <2> QED BY <1>1, <2>1, PageSize, RoundDownFact
<1> DEFINE v == first + a.size
           r == round_up(v, PAGE_SIZE)
<1>3. v \in Nat /\ v # 0 /\ v + PAGE_SIZE <= AddrMod /\ v < AddrMod
  BY <1>1, <1>2, PageSize
<1>4. v \in Addr
  BY <1>3, AddrNat
<1>5. Wrap(v) = v
  BY <1>4, WrapSmall
<1>6. last = r - 1
  BY <1>5 DEF ProtectLast
<1> HIDE DEF v
<1>7. r \in Nat /\ v <= r /\ r % PAGE_SIZE = 0 /\ r \in Addr
  BY <1>3, <1>4, PageSize, RoundUpFact, RoundUpPage
<1> HIDE DEF r
<1>8. r < AddrMod
  BY <1>7, AddrNat
<1>9. last \in Nat /\ last + 1 = r
  BY <1>3, <1>6, <1>7
<1>10. a.start % PAGE_SIZE = 0 => first = a.start
  BY <1>1 DEF ProtectStart, round_down
<1>11. v <= last + 1
  BY <1>7, <1>9
<1>12. first = a.start => a.start + a.size - 1 <= last
  BY <1>1, <1>9, <1>11 DEF v
<1> QED BY <1>1, <1>2, <1>7, <1>8, <1>9, <1>10, <1>12

(* One iteration of memory_finalize(): only internal memory changes, and   *)
(* it becomes free.                                                        *)
Reclaimed(s, t) ==
  \A x \in Int : \A ty :
    /\ Holds(s, x, ty) =>
         Holds(t, x, ty) \/ (ty = MEMORY_TYPE_INTERNAL /\ Holds(t, x, MEMORY_TYPE_FREE))
    /\ Holds(t, x, ty) =>
         Holds(s, x, ty) \/ (ty = MEMORY_TYPE_FREE /\ Holds(s, x, MEMORY_TYPE_INTERNAL))

LEMMA ReclaimOK ==
  ASSUME NEW s, ListOK(s), NEW i \in 1 .. Len(s),
         NEW t, t = IF s[i].type = MEMORY_TYPE_INTERNAL
                    THEN Reclaim(SubSeq(s, 1, i - 1), s[i], SubSeq(s, i + 1, Len(s))) ELSE s
  PROVE  /\ ListOK(t) /\ Reclaimed(s, t)
         /\ \E ty : ty # MEMORY_TYPE_INTERNAL /\ Holds(t, s[i].start, ty)
<1> DEFINE a == s[i].start
           e == EndOf(s[i])
           INT == MEMORY_TYPE_INTERNAL
           FREE == MEMORY_TYPE_FREE
<1>1. s \in Seq(MemoryRange) /\ Apart(s) /\ Clean(s) /\ PageWise(s)
  BY DEF ListOK
<1>2. Holds(s, a, s[i].type) /\ a \in Nat /\ e \in Nat /\ a <= e
  BY <1>1, HoldsEnds DEF Apart
<1>3. CASE s[i].type # INT
  BY <1>2, <1>3 DEF Reclaimed
<1>4. CASE s[i].type = INT
  <2>1. t = MergeRanges(SubSeq(s, 1, i - 1), [s[i] EXCEPT !.type = FREE],
                        SubSeq(s, i + 1, Len(s)))
    BY <1>4 DEF Reclaim
  <2>2. FREE \in MemoryTypes /\ FREE # INT
    BY InternalType
  <2>3. Updated(s, t, a, e, FREE) /\ Clean(t)
    BY <1>1, <2>1, <2>2, RetypeFact
  <2>4. a % PAGE_SIZE = 0 /\ (e + 1) % PAGE_SIZE = 0
    BY RangeAligned
  <2>5. \A x \in Int : a <= x /\ x <= e => Holds(s, x, INT)
    BY <1>4 DEF Holds, InRange
  <2> HIDE DEF a, e, INT, FREE
  <2>6. PageWise(t)
    <3>1. a \in Int /\ e \in Int
      BY <1>2
    <3> QED BY <1>1, <2>3, <2>4, <3>1, UpdatedPageWise
  <2>7. ListOK(t)
    BY <2>3, <2>6 DEF ListOK, Updated
  <2>8. \A x \in Int : \A ty : Holds(t, x, ty) <=>
          IF a <= x /\ x <= e THEN ty = FREE ELSE Holds(s, x, ty)
    BY <2>3 DEF Updated
  <2>9. Holds(t, a, FREE)
    BY <1>2, <2>8
  <2>10. ASSUME NEW x \in Int, NEW ty
         PROVE  /\ Holds(s, x, ty) => Holds(t, x, ty) \/ (ty = INT /\ Holds(t, x, FREE))
                /\ Holds(t, x, ty) => Holds(s, x, ty) \/ (ty = FREE /\ Holds(s, x, INT))
    <3>1. CASE a <= x /\ x <= e
      <4>1. Holds(s, x, INT) /\ Holds(t, x, FREE) /\ (Holds(t, x, ty) => ty = FREE)
        BY <2>5, <2>8, <3>1
      <4>2. Holds(s, x, ty) => ty = INT
        BY <1>1, <4>1, TypeAtHolds
      <4> QED BY <4>1, <4>2
    <3>2. CASE ~(a <= x /\ x <= e)
      BY <2>8, <3>2
    <3> QED BY <3>1, <3>2
  <2> QED BY <2>2, <2>7, <2>9, <2>10 DEF Reclaimed, INT, FREE, a
<1> QED BY <1>3, <1>4

(* The node the loop goes on to, from the node that now holds the address  *)
(* a it stood on: there is no internal memory in front of it.              *)
LEMMA FinalizeNext ==
  ASSUME NEW t, ListOK(t), NEW a \in Int, NEW ty, ty # MEMORY_TYPE_INTERNAL, Holds(t, a, ty),
         \A x \in Int : x < a => ~Holds(t, x, MEMORY_TYPE_INTERNAL),
         NEW at, at = NodeAfter(t, SelectLastInSeq(t, LAMBDA r : r.start <= a))
  PROVE  /\ at \in Int /\ at # FREED /\ NodeAt(t, at)
         /\ \A x \in Int : Passed(at, x) => ~Holds(t, x, MEMORY_TYPE_INTERNAL)
<1> DEFINE T == {j \in 1 .. Len(t) : t[j].start <= a}
           k == SelectLastInSeq(t, LAMBDA r : r.start <= a)
<1>1. t \in Seq(MemoryRange) /\ Apart(t) /\ Len(t) \in Nat
  BY DEF ListOK
<1>2. PICK j \in 1 .. Len(t) : t[j].start <= a /\ a <= EndOf(t[j]) /\ t[j].type = ty
  BY DEF Holds, InRange
<1>3. j \in T /\ T \subseteq 1 .. Len(t) /\ T # {}
  BY <1>2
<1>4. k = Max(T)
  BY <1>3 DEF SelectLastInSeq
<1>5. \A m \in T : t[m].start <= a
  OBVIOUS
<1> HIDE DEF T, k
<1>6. k \in T /\ j <= k
  BY <1>1, <1>3, <1>4, MaxElement
<1>7. k \in 1 .. Len(t) /\ t[k].start <= a
  BY <1>3, <1>5, <1>6
<1>8. k = j
  <2>1. CASE j < k
    <3>1. EndOf(t[j]) < t[k].start
      BY <1>1, <1>7, <2>1 DEF Apart
    <3>2. EndOf(t[j]) \in Nat /\ t[k].start \in Nat
      BY <1>1, <1>7, ListFields
    <3> QED BY <1>2, <1>7, <3>1, <3>2
  <2> QED BY <1>6, <1>7, <2>1
<1>9. at = NodeAfter(t, j)
  BY <1>8 DEF k
<1>10. /\ at \in Int /\ at # FREED /\ NodeAt(t, at)
       /\ \A x \in Int : \A tz : Passed(at, x) /\ Holds(t, x, tz) =>
            x < t[j].start \/ (InRange(t[j], x) /\ tz = t[j].type)
  BY <1>9, NextNode
<1>11. ASSUME NEW x \in Int, Passed(at, x), Holds(t, x, MEMORY_TYPE_INTERNAL) PROVE FALSE
  <2>1. x < t[j].start
    BY <1>2, <1>10, <1>11
  <2>2. x < a
    BY <1>1, <1>2, <2>1, ListFields
  <2> QED BY <1>11, <2>2
<1> QED BY <1>10, <1>11

-----------------------------------------------------------------------------
(***************************************************************************)
(* The invariant.                                                          *)
(***************************************************************************)

(* No request is given a range because its place in it wraps around the    *)
(* address space.  The run memory_underflow shows what happens to one that *)
(* is.                                                                     *)
PlacesComputed == \A req \in Calls : Computed(memory_ranges, req)

(* The areas memory_protect() is called on start on a page.  It computes   *)
(* the end of an area from the start it has rounded down, so that the last *)
(* bytes of any other area may be left out.                                *)
AlignedAreas == \A a \in Areas : a.start % PAGE_SIZE = 0

Given == held \cup large_chunks

ProtectLoop ==
  \E a \in Areas, at \in Int :
    /\ loop = [op |-> "protect", area |-> a, start |-> ProtectStart(a),
               end |-> ProtectLast(a), at |-> at]
    /\ NodeAt(memory_ranges, at)
    /\ \A x \in Int :
         ProtectStart(a) <= x /\ x <= ProtectLast(a) /\ Passed(at, x) =>
           ~Holds(memory_ranges, x, MEMORY_TYPE_FREE)

FinalizeLoop ==
  \E at \in Int :
    /\ loop = [op |-> "finalize", at |-> at] /\ at # FREED
    /\ NodeAt(memory_ranges, at)
    /\ \A x \in Int : Passed(at, x) => ~Holds(memory_ranges, x, MEMORY_TYPE_INTERNAL)

(* Which loop may be running, and how far it has come.                     *)
LoopInv ==
  \/ phase \in {"probe", "run", "done"} /\ loop = Idle
  \/ phase = "protect" /\ (loop = Idle \/ ProtectLoop)
  \/ phase = "finalize" /\ FinalizeLoop

(* What is true of a phase of the loader's life.                           *)
PhaseInv ==
  /\ protected \subseteq Areas
  /\ phase = "probe" => protected = {}
  /\ phase \in {"probe", "protect"} =>
       /\ held = {} /\ large_chunks = {}
       /\ \A x \in Int : \A ty : Holds(memory_ranges, x, ty) =>
            ty \in {MEMORY_TYPE_FREE, MEMORY_TYPE_INTERNAL}
  /\ phase = "done" => \A x \in Int : ~Holds(memory_ranges, x, MEMORY_TYPE_INTERNAL)

(* What was given out is whole pages, and each page of it only once.       *)
Block(b) ==
  /\ WholePages(b.start, b.size) /\ b.start + b.size - 1 <= TARGET_PHYS_MAX
  /\ b.type \in MemoryTypes /\ b.type # MEMORY_TYPE_FREE

BlocksInv ==
  /\ \A b \in Given : Block(b)
  /\ \A b \in large_chunks : b.type = MEMORY_TYPE_INTERNAL
  /\ held \cap large_chunks = {}
  /\ \A b, c \in Given : b # c => BytesOf(b) \cap BytesOf(c) = {}

(* The list knows the type of what was given out; memory_finalize() frees  *)
(* what is internal of it.                                                 *)
TypesInv ==
  \A b \in Given : \A x \in BytesOf(b) :
    \/ Holds(memory_ranges, x, b.type)
    \/ /\ Finalizing /\ b.type = MEMORY_TYPE_INTERNAL
       /\ Holds(memory_ranges, x, MEMORY_TYPE_FREE)

(* Protected memory is neither free nor given out.                         *)
ShieldInv ==
  AlignedAreas /\ ~Finalizing =>
    \A a \in protected :
      /\ \A x \in BytesOf(a) : ~Holds(memory_ranges, x, MEMORY_TYPE_FREE)
      /\ \A b \in Given : BytesOf(a) \cap BytesOf(b) = {}

MemoryInv ==
  ListOK(memory_ranges) /\ LoopInv /\ PhaseInv /\ BlocksInv /\ TypesInv /\ ShieldInv

LEMMA MemoryStarts == Init => MemoryInv
<1> SUFFICES ASSUME Init PROVE MemoryInv
  OBVIOUS
<1>1. /\ memory_ranges = <<>> /\ phase = "probe" /\ loop = Idle /\ protected = {}
      /\ held = {} /\ large_chunks = {} /\ Given = {}
  BY DEF Init, Given
<1>2. \A x, ty : ~Holds(memory_ranges, x, ty)
  BY <1>1 DEF Holds
<1>3. ListOK(memory_ranges)
  <2>1. memory_ranges \in Seq(MemoryRange)
    BY <1>1
  <2>2. Apart(memory_ranges) /\ Clean(memory_ranges)
    BY <1>1 DEF Apart, Clean
  <2>3. PageWise(memory_ranges)
    BY <1>2 DEF PageWise
  <2> QED BY <2>1, <2>2, <2>3 DEF ListOK
<1>4. LoopInv
  BY <1>1 DEF LoopInv
<1>5. PhaseInv
  BY <1>1, <1>2 DEF PhaseInv
<1>6. BlocksInv
  BY <1>1 DEF BlocksInv
<1>7. TypesInv /\ ShieldInv
  BY <1>1 DEF TypesInv, ShieldInv
<1> QED BY <1>3, <1>4, <1>5, <1>6, <1>7 DEF MemoryInv

(* Steps that only change the status, or nothing.                          *)
LEMMA QuietStep ==
  ASSUME MemoryInv, UNCHANGED <<memory_ranges, phase, loop, protected, held, large_chunks>>
  PROVE  MemoryInv'
<1>1. Given' = Given /\ Finalizing' = Finalizing /\ AlignedAreas' = AlignedAreas
  BY DEF Given, Finalizing, AlignedAreas
<1>2. LoopInv'
  BY DEF MemoryInv, LoopInv, ProtectLoop, FinalizeLoop
<1>3. PhaseInv'
  BY DEF MemoryInv, PhaseInv
<1>4. BlocksInv'
  BY <1>1 DEF MemoryInv, BlocksInv
<1>5. TypesInv' /\ ShieldInv'
  BY <1>1 DEF MemoryInv, TypesInv, ShieldInv
<1>6. ListOK(memory_ranges')
  BY DEF MemoryInv
<1> QED BY <1>2, <1>3, <1>4, <1>5, <1>6 DEF MemoryInv

(* Steps of target_memory_probe() and memory_init(): nothing is given out  *)
(* yet, and no protected memory becomes free.                              *)
LEMMA SetupStep ==
  ASSUME MemoryInv, phase \in {"probe", "protect"},
         UNCHANGED <<phase, protected, held, large_chunks>>,
         ListOK(memory_ranges'), LoopInv',
         \A x \in Int : \A ty : Holds(memory_ranges', x, ty) =>
           Holds(memory_ranges, x, ty) \/ ty \in {MEMORY_TYPE_FREE, MEMORY_TYPE_INTERNAL},
         \A x \in Int : Holds(memory_ranges', x, MEMORY_TYPE_FREE) =>
           Holds(memory_ranges, x, MEMORY_TYPE_FREE) \/ protected = {}
  PROVE  MemoryInv'
<1>1. held = {} /\ large_chunks = {} /\ protected \subseteq Areas
  BY DEF MemoryInv, PhaseInv
<1>2. Given' = {} /\ Given = {} /\ held' = {} /\ large_chunks' = {} /\ protected' = protected
      /\ phase' \in {"probe", "protect"} /\ phase' = phase
  BY <1>1 DEF Given
<1>3. PhaseInv'
  <2>1. phase # "done"
    OBVIOUS
  <2>2. phase = "probe" => protected = {}
    BY DEF MemoryInv, PhaseInv
  <2>3. \A x \in Int : \A ty : Holds(memory_ranges', x, ty) =>
          ty \in {MEMORY_TYPE_FREE, MEMORY_TYPE_INTERNAL}
    BY DEF MemoryInv, PhaseInv
  <2> QED BY <1>1, <1>2, <2>1, <2>2, <2>3 DEF PhaseInv
<1>4. BlocksInv' /\ TypesInv'
  BY <1>2 DEF BlocksInv, TypesInv
<1>5. ShieldInv'
  <2> SUFFICES ASSUME AlignedAreas, NEW a \in protected, NEW x \in BytesOf(a),
                      Holds(memory_ranges', x, MEMORY_TYPE_FREE)
               PROVE  FALSE
    BY <1>2 DEF ShieldInv, AlignedAreas
  <2>1. x \in Int
    BY DEF BytesOf
  <2>2. Holds(memory_ranges, x, MEMORY_TYPE_FREE)
    BY <2>1
  <2>3. ~Finalizing
    BY DEF Finalizing
  <2> QED BY <2>2, <2>3 DEF MemoryInv, ShieldInv
<1> QED BY <1>3, <1>4, <1>5 DEF MemoryInv

LEMMA ProbeAddStep ==
  ASSUME MemoryInv, NEW e \in Entries, ProbeAdd(e)
  PROVE  MemoryInv'
<1> DEFINE a == ProbeStart(e)
           z == ProbeEnd(e)
           n == z - a
<1>1. /\ phase = "probe" /\ z > a
      /\ memory_ranges' = MapInsert(memory_ranges, a, n, MEMORY_TYPE_FREE)
      /\ UNCHANGED <<phase, loop, protected, held, large_chunks>>
  BY DEF ProbeAdd
<1>2. e.start \in Addr /\ e.size \in Addr
  BY MemoryAssumption
<1>3. a \in Addr /\ a % PAGE_SIZE = 0
  <2> DEFINE r == round_up(e.start, PAGE_SIZE)
  <2>1. r \in Addr /\ r % PAGE_SIZE = 0
    BY <1>2, RoundUpPage
  <2>2. PAGE_SIZE \in Addr /\ PAGE_SIZE % PAGE_SIZE = 0
    BY PageSize, AddressSpaceAssumption, AddrNat
  <2>3. a = IF r = 0 THEN PAGE_SIZE ELSE r
    BY DEF ProbeStart
  <2> HIDE DEF a, r
  <2> QED BY <2>1, <2>2, <2>3
<1>4. z \in Nat /\ z < AddrMod /\ z % PAGE_SIZE = 0
  <2> DEFINE v == Wrap(e.start + e.size)
  <2>1. e.start + e.size \in Int
    <3>1. e.start \in Nat /\ e.size \in Nat
      BY <1>2, AddrNat
    <3> QED BY <3>1
  <2>2. v \in Addr
    BY <2>1, WrapType
  <2>3. z = round_down(v, PAGE_SIZE)
    BY DEF ProbeEnd
  <2> HIDE DEF v, z
  <2>4. v \in Nat /\ v < AddrMod /\ AddrMod \in Nat
    BY <2>2, AddrNat
  <2>5. z \in Nat /\ z <= v /\ z % PAGE_SIZE = 0
    BY <2>3, <2>4, PageSize, RoundDownFact
  <2> QED BY <2>4, <2>5
<1> HIDE DEF a, z
<1>5. WholePages(a, n)
  <2>1. a \in Nat /\ AddrMod \in Nat /\ a \in Int /\ z \in Int
    BY <1>3, <1>4, AddrNat
  <2>2. n % PAGE_SIZE = 0
    BY <1>3, <1>4, <2>1, PageSize, MultipleSum
  <2>3. n \in Nat /\ n # 0 /\ a + n <= AddrMod /\ n < AddrMod
    BY <1>1, <1>4, <2>1
  <2> QED BY <1>3, <2>1, <2>2, <2>3 DEF WholePages
<1> HIDE DEF n
<1>6. /\ ListOK(memory_ranges')
      /\ Updated(memory_ranges, memory_ranges', a, a + n - 1, MEMORY_TYPE_FREE)
  BY <1>1, <1>5, InsertOK, InternalType DEF MemoryInv
<1>7. \A x \in Int : \A ty : Holds(memory_ranges', x, ty) =>
        Holds(memory_ranges, x, ty) \/ ty = MEMORY_TYPE_FREE
  BY <1>6 DEF Updated
<1>8. LoopInv' /\ protected = {}
  BY <1>1 DEF MemoryInv, LoopInv, PhaseInv
<1> QED BY <1>1, <1>6, <1>7, <1>8, SetupStep

LEMMA ReserveStep ==
  ASSUME MemoryInv, NEW r \in Reservations, Reserve(r)
  PROVE  MemoryInv'
<1> DEFINE a == round_down(r.start, PAGE_SIZE)
           v == r.start + r.size
           z == round_up(Wrap(v), PAGE_SIZE)
           n == z - a
<1>1. /\ phase = "protect" /\ loop = Idle
      /\ memory_ranges' = MapRemove(memory_ranges, a, n)
      /\ UNCHANGED <<phase, loop, protected, held, large_chunks>>
  BY DEF Reserve
<1>2. /\ r.start \in Nat /\ r.size \in Nat /\ r.size # 0 /\ AddrMod \in Nat
      /\ r.start + r.size + PAGE_SIZE <= AddrMod
  <2>1. r \in Reservations \cup Areas
    OBVIOUS
  <2> HIDE DEF a, v, z, n
  <2> QED BY <2>1, AreaFact
<1>3. a \in Nat /\ a <= r.start /\ a % PAGE_SIZE = 0
  BY <1>2, PageSize, RoundDownFact, ZenonT(30)
<1>4. v \in Nat /\ v > r.start /\ v + PAGE_SIZE <= AddrMod /\ v < AddrMod
  BY <1>2, PageSize
<1>5. z = round_up(v, PAGE_SIZE) /\ v \in Addr
  <2>1. v \in Addr
    BY <1>4, AddrNat
  <2> QED BY <2>1, WrapSmall
<1> HIDE DEF a, v, z
<1>6. z \in Nat /\ v <= z /\ z % PAGE_SIZE = 0 /\ z \in Addr
  BY <1>4, <1>5, PageSize, RoundUpFact, RoundUpPage
<1>7. WholePages(a, n)
  <2>1. a \in Int /\ z \in Int /\ z < AddrMod
    BY <1>3, <1>6, AddrNat
  <2>2. n % PAGE_SIZE = 0
    BY <1>3, <1>6, <2>1, PageSize, MultipleSum
  <2>3. n \in Nat /\ n # 0 /\ a + n <= AddrMod /\ n < AddrMod
    BY <1>2, <1>3, <1>4, <1>6, <2>1
  <2> QED BY <1>3, <2>2, <2>3 DEF WholePages
<1> HIDE DEF n
<1>8. /\ ListOK(memory_ranges')
      /\ Cleared(memory_ranges, memory_ranges', a, a + n - 1)
  BY <1>1, <1>7, RemoveOK DEF MemoryInv
<1>9. \A x \in Int : \A ty : Holds(memory_ranges', x, ty) => Holds(memory_ranges, x, ty)
  BY <1>8 DEF Cleared
<1>10. LoopInv'
  BY <1>1 DEF LoopInv
<1> QED BY <1>1, <1>8, <1>9, <1>10, SetupStep

LEMMA ProtectBeginStep ==
  ASSUME MemoryInv, NEW a \in Areas, ProtectBegin(a)
  PROVE  MemoryInv'
<1> DEFINE at == NodeAfter(memory_ranges, 0)
<1>1. /\ phase = "protect" /\ phase' = "protect"
      /\ loop' = [op |-> "protect", area |-> a, start |-> ProtectStart(a),
                  end |-> ProtectLast(a), at |-> at]
      /\ UNCHANGED <<memory_ranges, phase, protected, held, large_chunks>>
  BY DEF ProtectBegin, ProtectStart, ProtectLast
<1>2. ListOK(memory_ranges)
  BY DEF MemoryInv
<1>3. /\ at \in Int /\ at # FREED /\ NodeAt(memory_ranges, at)
      /\ \A x \in Int : \A ty : Passed(at, x) => ~Holds(memory_ranges, x, ty)
  BY <1>2, FirstNode
<1> HIDE DEF at
<1>4. ProtectLoop'
  BY <1>1, <1>3 DEF ProtectLoop
<1>5. LoopInv'
  BY <1>1, <1>4 DEF LoopInv
<1> QED BY <1>1, <1>2, <1>5, SetupStep

LEMMA ProtectStepStep ==
  ASSUME MemoryInv, ProtectStep
  PROVE  MemoryInv'
<1> DEFINE s == memory_ranges
           t == memory_ranges'
           FREE == MEMORY_TYPE_FREE
<1>1. loop.op = "protect" /\ loop.at \notin {HEAD, FREED}
      /\ UNCHANGED <<phase, protected, held, large_chunks>>
  BY DEF ProtectStep
<1>2. phase = "protect" /\ ProtectLoop
  BY <1>1 DEF MemoryInv, LoopInv, FinalizeLoop, Idle
<1>3. PICK a \in Areas, at \in Int :
        /\ loop = [op |-> "protect", area |-> a, start |-> ProtectStart(a),
                   end |-> ProtectLast(a), at |-> at]
        /\ NodeAt(s, at)
        /\ \A x \in Int : ProtectStart(a) <= x /\ x <= ProtectLast(a) /\ Passed(at, x) =>
             ~Holds(s, x, FREE)
  BY <1>2 DEF ProtectLoop
<1> DEFINE i == NodePos(s, at)
           first == ProtectStart(a)
           last == ProtectLast(a)
           next == NodeAfter(s, i)
           from == IF first > s[i].start THEN first ELSE s[i].start
           to == IF last < EndOf(s[i]) THEN last ELSE EndOf(s[i])
           at2 == IF next # HEAD /\ NodePos(t, next) = 0 THEN FREED ELSE next
<1>4. loop.at = at /\ loop.start = first /\ loop.end = last
  BY <1>3
<1>5. /\ t = IF s[i].type # FREE \/ to <= from THEN s
             ELSE MapInsert(s, from, to - from + 1, MEMORY_TYPE_INTERNAL)
      /\ loop' = [loop EXCEPT !.at = at2]
  BY <1>4 DEF ProtectStep
<1>6. loop' = [op |-> "protect", area |-> a, start |-> first, end |-> last, at |-> at2]
  <2> HIDE DEF first, last, at2
  <2>1. loop = [op |-> "protect", area |-> a, start |-> first, end |-> last, at |-> at]
    BY <1>3 DEF first, last
  <2> QED BY <1>5, <2>1
<1>7. ListOK(s) /\ s \in Seq(MemoryRange)
  BY DEF MemoryInv, ListOK
<1>8. i \in 1 .. Len(s) /\ s[i].start = at
  <2>1. \E j \in 1 .. Len(s) : s[j].start = at
    BY <1>1, <1>3, <1>4 DEF NodeAt
  <2> QED BY <1>7, <2>1, NodePosFact
<1>9. /\ first \in Nat /\ last \in Nat /\ last + 1 < AddrMod
      /\ first % PAGE_SIZE = 0 /\ (last + 1) % PAGE_SIZE = 0
  BY ProtectBounds
<1>10. Shields(s, t, i, first, last)
  <2> HIDE DEF i, first, last, s, t
  <2> QED BY <1>5, <1>7, <1>8, <1>9, ProtectBody
<1>11. /\ next \in Int /\ next # FREED
       /\ \A x \in Int : \A ty : Passed(next, x) /\ Holds(s, x, ty) =>
            x < s[i].start \/ (InRange(s[i], x) /\ ty = s[i].type)
  <2> HIDE DEF i, s
  <2> QED BY <1>7, <1>8, NextNode
<1>12. ListOK(t) /\ t \in Seq(MemoryRange)
  BY <1>10 DEF Shields, ListOK
<1>13. NodeAt(t, at2) /\ at2 \in Int /\ at2 \in {next, FREED}
  <2> HIDE DEF next, t
  <2>1. CASE next # HEAD /\ NodePos(t, next) = 0
    BY <2>1 DEF NodeAt, FREED
  <2>2. CASE next = HEAD
    BY <1>11, <2>2 DEF NodeAt
  <2>3. CASE next # HEAD /\ NodePos(t, next) # 0
    <3>1. \E j \in 1 .. Len(t) : t[j].start = next
      BY <1>12, <2>3, NodePosFact
    <3> QED BY <1>11, <2>3, <3>1 DEF NodeAt
  <2> QED BY <2>1, <2>2, <2>3
<1>14. \A x \in Int : Passed(at, x) <=> x < at
  BY <1>1, <1>4 DEF Passed
<1> HIDE DEF i, first, last, next, at2, from, to
<1>15. ASSUME NEW x \in Int, first <= x, x <= last, Passed(at2, x), Holds(t, x, FREE)
       PROVE  FALSE
  <2>1. Holds(s, x, FREE) /\ ~(InRange(s[i], x) /\ first <= x /\ x <= last)
    BY <1>10, <1>15 DEF Shields
  <2>2. Passed(next, x)
    <3>1. at2 = next
      BY <1>13, <1>15 DEF Passed
    <3> QED BY <1>15, <3>1
  <2>3. x < at
    BY <1>8, <1>11, <1>15, <2>1, <2>2
  <2> QED BY <1>3, <1>14, <1>15, <2>1, <2>3 DEF first, last
<1>16. ProtectLoop'
  <2>1. /\ loop' = [op |-> "protect", area |-> a, start |-> ProtectStart(a),
                    end |-> ProtectLast(a), at |-> at2]
        /\ \A x \in Int : ProtectStart(a) <= x /\ x <= ProtectLast(a) /\ Passed(at2, x) =>
             ~Holds(t, x, FREE)
    BY <1>6, <1>15 DEF first, last
  <2> QED BY <1>13, <2>1 DEF ProtectLoop
<1>17. LoopInv'
  BY <1>1, <1>2, <1>16 DEF LoopInv
<1>18. /\ \A x \in Int : \A ty : Holds(t, x, ty) =>
            Holds(s, x, ty) \/ ty = MEMORY_TYPE_INTERNAL
       /\ \A x \in Int : Holds(t, x, FREE) => Holds(s, x, FREE)
  BY <1>10 DEF Shields
<1> QED BY <1>1, <1>2, <1>12, <1>17, <1>18, SetupStep

LEMMA ProtectEndStep ==
  ASSUME MemoryInv, ProtectEnd
  PROVE  MemoryInv'
<1>1. /\ loop.op = "protect" /\ loop.at = HEAD
      /\ loop' = Idle /\ protected' = protected \cup {loop.area}
      /\ UNCHANGED <<memory_ranges, phase, held, large_chunks>>
  BY DEF ProtectEnd
<1>2. phase = "protect" /\ ProtectLoop
  BY <1>1 DEF MemoryInv, LoopInv, FinalizeLoop, Idle
<1>3. PICK a \in Areas, at \in Int :
        /\ loop = [op |-> "protect", area |-> a, start |-> ProtectStart(a),
                   end |-> ProtectLast(a), at |-> at]
        /\ \A x \in Int : ProtectStart(a) <= x /\ x <= ProtectLast(a) /\ Passed(at, x) =>
             ~Holds(memory_ranges, x, MEMORY_TYPE_FREE)
  BY <1>2 DEF ProtectLoop
<1>4. loop.area = a /\ at = HEAD
  BY <1>1, <1>3
<1>5. held = {} /\ large_chunks = {} /\ Given' = {}
  BY <1>1, <1>2 DEF MemoryInv, PhaseInv, Given
<1>6. LoopInv'
  BY <1>1, <1>2 DEF LoopInv
<1>7. PhaseInv'
  BY <1>1, <1>2, <1>4 DEF MemoryInv, PhaseInv
<1>8. BlocksInv' /\ TypesInv'
  BY <1>1, <1>5 DEF BlocksInv, TypesInv
<1>9. ShieldInv'
  <2> SUFFICES ASSUME AlignedAreas, NEW b \in protected', NEW x \in BytesOf(b)
               PROVE  ~Holds(memory_ranges, x, MEMORY_TYPE_FREE)
    BY <1>1, <1>5 DEF ShieldInv, AlignedAreas
  <2>1. CASE b \in protected
    <3>1. ~Finalizing
      BY <1>2 DEF Finalizing
    <3> QED BY <2>1, <3>1 DEF MemoryInv, ShieldInv
  <2>2. CASE b = a
    <3> DEFINE first == ProtectStart(a)
               last == ProtectLast(a)
    <3>1. /\ first = a.start /\ a.start + a.size - 1 <= last
          /\ a.start \in Nat /\ a.size \in Nat /\ first \in Nat /\ last \in Nat
      BY ProtectBounds DEF AlignedAreas
    <3> HIDE DEF first, last
    <3>2. x \in Int /\ first <= x /\ x <= last
      BY <2>2, <3>1 DEF BytesOf
    <3>3. Passed(at, x)
      BY <1>4 DEF Passed, HEAD, FREED
    <3> QED BY <1>3, <3>2, <3>3 DEF first, last
  <2> QED BY <1>1, <1>4, <2>1, <2>2
<1>10. ListOK(memory_ranges')
  BY <1>1 DEF MemoryInv
<1> QED BY <1>6, <1>7, <1>8, <1>9, <1>10 DEF MemoryInv

(* The phases follow each other.                                           *)
LEMMA PhaseStep ==
  ASSUME MemoryInv, ProbeDone \/ InitDone \/ FinalizeBegin \/ FinalizeEnd
  PROVE  MemoryInv'
<1>1. UNCHANGED <<memory_ranges, protected, held, large_chunks>>
  BY DEF ProbeDone, InitDone, FinalizeBegin, FinalizeEnd
<1>2. ListOK(memory_ranges) /\ ListOK(memory_ranges')
  BY <1>1 DEF MemoryInv
<1>3. LoopInv' /\ PhaseInv' /\ (Finalizing => Finalizing')
  <2>1. CASE ProbeDone
    BY <1>1, <2>1 DEF ProbeDone, MemoryInv, LoopInv, PhaseInv, Finalizing
  <2>2. CASE InitDone
    BY <1>1, <2>2 DEF InitDone, MemoryInv, LoopInv, PhaseInv, Finalizing
  <2>3. CASE FinalizeBegin
    <3> DEFINE at == NodeAfter(memory_ranges, 0)
    <3>1. /\ at \in Int /\ at # FREED /\ NodeAt(memory_ranges, at)
          /\ \A x \in Int : \A ty : Passed(at, x) => ~Holds(memory_ranges, x, ty)
      BY <1>2, FirstNode
    <3>2. phase' = "finalize" /\ loop' = [op |-> "finalize", at |-> at]
      BY <2>3 DEF FinalizeBegin
    <3> HIDE DEF at
    <3>3. FinalizeLoop'
      BY <1>1, <3>1, <3>2 DEF FinalizeLoop
    <3> QED BY <1>1, <3>2, <3>3 DEF MemoryInv, LoopInv, PhaseInv, Finalizing
  <2>4. CASE FinalizeEnd
    <3>1. /\ loop.op = "finalize" /\ loop.at = HEAD /\ phase' = "done" /\ loop' = Idle
      BY <2>4 DEF FinalizeEnd
    <3>2. FinalizeLoop
      BY <3>1 DEF MemoryInv, LoopInv, ProtectLoop, Idle
    <3>3. \A x \in Int : ~Holds(memory_ranges, x, MEMORY_TYPE_INTERNAL)
      BY <3>1, <3>2 DEF FinalizeLoop, Passed
    <3> QED BY <1>1, <3>1, <3>3 DEF MemoryInv, LoopInv, PhaseInv, Finalizing
  <2> QED BY <2>1, <2>2, <2>3, <2>4
<1>4. Given' = Given
  BY <1>1 DEF Given
<1>5. BlocksInv'
  BY <1>1, <1>4 DEF MemoryInv, BlocksInv
<1>6. TypesInv'
  BY <1>1, <1>3, <1>4 DEF MemoryInv, TypesInv
<1>7. ShieldInv'
  BY <1>1, <1>3, <1>4 DEF MemoryInv, ShieldInv, AlignedAreas
<1> QED BY <1>2, <1>3, <1>5, <1>6, <1>7 DEF MemoryInv

LEMMA BlockBytes ==
  ASSUME NEW b, Block(b)
  PROVE  /\ \A x : x \in BytesOf(b) <=> x \in Int /\ b.start <= x /\ x <= b.start + b.size - 1
         /\ b.start \in BytesOf(b) /\ b.start \in Nat /\ b.size \in Nat
<1>1. b.start \in Nat /\ b.size \in Nat /\ b.size # 0
  BY DEF Block, WholePages
<1> QED BY <1>1 DEF BytesOf

(* A block is taken from free memory, so it shares nothing with what was   *)
(* given out or protected before.                                          *)
LEMMA NewBlock ==
  ASSUME MemoryInv, phase = "run", NEW req, GoodRequest(req),
         Computed(memory_ranges, req), FindRange(memory_ranges, req) # 0,
         NEW p, p = Place(memory_ranges, req), NEW new, new = p.block
  PROVE  /\ Block(new) /\ new.type = req.type /\ new.size = req.size
         /\ Allocates(memory_ranges, p.map, req, new.start)
         /\ \A x \in BytesOf(new) : Holds(memory_ranges, x, MEMORY_TYPE_FREE)
         /\ \A b \in Given : BytesOf(b) \cap BytesOf(new) = {} /\ b # new
         /\ AlignedAreas => \A a \in protected : BytesOf(a) \cap BytesOf(new) = {}
<1> DEFINE s == memory_ranges
           FREE == MEMORY_TYPE_FREE
<1>1. ListOK(s) /\ s \in Seq(MemoryRange) /\ Apart(s)
  BY DEF MemoryInv, ListOK
<1>2. /\ new = [start |-> new.start, size |-> req.size, type |-> req.type]
      /\ Allocates(s, p.map, req, new.start)
  <2> HIDE DEF s
  <2> QED BY <1>1, AllocOK DEF s
<1>3. new.size = req.size /\ new.type = req.type
  BY <1>2
<1>4. Block(new)
  BY <1>2, <1>3 DEF Allocates, Block, GoodRequest
<1>5. \A x \in BytesOf(new) : x \in Int /\ Holds(s, x, FREE)
  <2>1. \A x \in BytesOf(new) : x \in Int /\ new.start <= x /\ x <= new.start + req.size - 1
    BY <1>3, <1>4, BlockBytes
  <2> QED BY <1>2, <2>1 DEF Allocates, FreePlace
<1>6. ASSUME NEW b \in Given, NEW x \in BytesOf(b), x \in BytesOf(new) PROVE FALSE
  <2>1. Holds(s, x, b.type) /\ b.type # FREE
    BY DEF MemoryInv, TypesInv, BlocksInv, Block, Finalizing
  <2> QED BY <1>1, <1>5, <1>6, <2>1, TypeAtHolds
<1>7. ASSUME NEW b \in Given PROVE BytesOf(b) \cap BytesOf(new) = {} /\ b # new
  BY <1>4, <1>6, BlockBytes
<1>8. ASSUME AlignedAreas, NEW a \in protected PROVE BytesOf(a) \cap BytesOf(new) = {}
  BY <1>5, <1>8 DEF MemoryInv, ShieldInv, Finalizing
<1> QED BY <1>2, <1>3, <1>4, <1>5, <1>7, <1>8

LEMMA AllocStep ==
  ASSUME MemoryInv, phase = "run", NEW req, GoodRequest(req),
         Computed(memory_ranges, req), FindRange(memory_ranges, req) # 0,
         NEW p, p = Place(memory_ranges, req), memory_ranges' = p.map,
         \/ held' = held \cup {p.block} /\ large_chunks' = large_chunks
         \/ /\ held' = held /\ large_chunks' = large_chunks \cup {p.block}
            /\ req.type = MEMORY_TYPE_INTERNAL,
         UNCHANGED <<phase, loop, protected>>
  PROVE  MemoryInv'
<1> DEFINE s == memory_ranges
           t == memory_ranges'
           new == p.block
<1>1. /\ Block(new) /\ new.type = req.type /\ new.size = req.size
      /\ Allocates(s, t, req, new.start)
      /\ \A x \in BytesOf(new) : Holds(s, x, MEMORY_TYPE_FREE)
      /\ \A b \in Given : BytesOf(b) \cap BytesOf(new) = {} /\ b # new
      /\ AlignedAreas => \A a \in protected : BytesOf(a) \cap BytesOf(new) = {}
  BY NewBlock
<1>2. Given' = Given \cup {new} /\ phase' = "run" /\ ~Finalizing /\ ~Finalizing'
  BY DEF Given, Finalizing
<1>3. ListOK(t) /\ Updated(s, t, new.start, new.start + new.size - 1, new.type)
  BY <1>1 DEF Allocates
<1>4. \A x \in Int : \A ty : Holds(t, x, ty) <=>
        IF x \in BytesOf(new) THEN ty = new.type ELSE Holds(s, x, ty)
  <2> HIDE DEF new
  <2> QED BY <1>1, <1>3, BlockBytes DEF Updated
<1>5. new.type # MEMORY_TYPE_FREE
  BY <1>1 DEF Block
<1>6. LoopInv' /\ PhaseInv'
  BY DEF MemoryInv, LoopInv, PhaseInv
<1> HIDE DEF s, t, new
<1>7. BlocksInv'
  <2>1. \A b \in Given' : Block(b)
    BY <1>1, <1>2 DEF MemoryInv, BlocksInv
  <2>2. \A b \in large_chunks' : b.type = MEMORY_TYPE_INTERNAL
    BY <1>1 DEF MemoryInv, BlocksInv, new
  <2>3. held' \cap large_chunks' = {}
    <3>1. new \notin held /\ new \notin large_chunks
      BY <1>1 DEF Given
    <3> QED BY <3>1 DEF MemoryInv, BlocksInv, new
  <2>4. ASSUME NEW b \in Given', NEW c \in Given', b # c PROVE BytesOf(b) \cap BytesOf(c) = {}
    <3>1. CASE b \in Given /\ c \in Given
      BY <2>4, <3>1 DEF MemoryInv, BlocksInv
    <3>2. CASE b = new /\ c \in Given
      BY <1>1, <3>2
    <3>3. CASE b \in Given /\ c = new
      BY <1>1, <3>3
    <3> QED BY <1>2, <2>4, <3>1, <3>2, <3>3
  <2> QED BY <2>1, <2>2, <2>3, <2>4 DEF BlocksInv
<1>8. TypesInv'
  <2> SUFFICES ASSUME NEW b \in Given', NEW x \in BytesOf(b)
               PROVE  Holds(t, x, b.type)
    BY DEF TypesInv, t
  <2>1. x \in Int
    BY DEF BytesOf
  <2>2. CASE b = new
    BY <1>4, <2>1, <2>2
  <2>3. CASE b \in Given
    <3>1. Holds(s, x, b.type)
      BY <1>2, <2>3 DEF MemoryInv, TypesInv, s
    <3>2. x \notin BytesOf(new)
      BY <1>1, <2>3
    <3> QED BY <1>4, <2>1, <3>1, <3>2
  <2> QED BY <1>2, <2>2, <2>3
<1>9. ShieldInv'
  <2> SUFFICES ASSUME AlignedAreas, NEW a \in protected
               PROVE  /\ \A x \in BytesOf(a) : ~Holds(t, x, MEMORY_TYPE_FREE)
                      /\ \A b \in Given' : BytesOf(a) \cap BytesOf(b) = {}
    BY DEF ShieldInv, AlignedAreas, t
  <2>1. /\ \A x \in BytesOf(a) : ~Holds(s, x, MEMORY_TYPE_FREE)
        /\ \A b \in Given : BytesOf(a) \cap BytesOf(b) = {}
    BY <1>2 DEF MemoryInv, ShieldInv, s
  <2>2. \A x \in BytesOf(a) : x \in Int
    BY DEF BytesOf
  <2> QED BY <1>1, <1>2, <1>4, <1>5, <2>1, <2>2
<1> QED BY <1>3, <1>6, <1>7, <1>8, <1>9 DEF MemoryInv, t

(* A large chunk that is given back becomes free, and nothing else does.   *)
LEMMA FreeStep ==
  ASSUME MemoryInv, phase = "run", NEW chunk \in large_chunks,
         memory_ranges' = MapInsert(memory_ranges, chunk.start, chunk.size, MEMORY_TYPE_FREE),
         large_chunks' = large_chunks \ {chunk},
         UNCHANGED <<phase, loop, protected, held>>
  PROVE  /\ MemoryInv' /\ Given' = Given \ {chunk} /\ Block(chunk)
         /\ Updated(memory_ranges, memory_ranges', chunk.start,
                    chunk.start + chunk.size - 1, MEMORY_TYPE_FREE)
<1> DEFINE s == memory_ranges
           t == memory_ranges'
<1>1. chunk \in Given /\ Block(chunk)
  BY DEF MemoryInv, BlocksInv, Given
<1>2. /\ ListOK(t)
      /\ Updated(s, t, chunk.start, chunk.start + chunk.size - 1, MEMORY_TYPE_FREE)
  BY <1>1, InsertOK, InternalType DEF MemoryInv, Block
<1>3. \A x \in Int : \A ty : Holds(t, x, ty) <=>
        IF x \in BytesOf(chunk) THEN ty = MEMORY_TYPE_FREE ELSE Holds(s, x, ty)
  BY <1>1, <1>2, BlockBytes DEF Updated
<1>4. Given' = Given \ {chunk} /\ phase' = "run" /\ ~Finalizing /\ ~Finalizing'
  BY DEF Given, Finalizing, MemoryInv, BlocksInv
<1>5. LoopInv' /\ PhaseInv'
  BY DEF MemoryInv, LoopInv, PhaseInv
<1> HIDE DEF s, t
<1>6. BlocksInv'
  BY <1>4 DEF MemoryInv, BlocksInv
<1>7. TypesInv'
  <2> SUFFICES ASSUME NEW b \in Given', NEW x \in BytesOf(b)
               PROVE  Holds(t, x, b.type)
    BY DEF TypesInv, t
  <2>1. x \in Int
    BY DEF BytesOf
  <2>2. Holds(s, x, b.type)
    BY <1>4 DEF MemoryInv, TypesInv, s
  <2>3. x \notin BytesOf(chunk)
    BY <1>1, <1>4 DEF MemoryInv, BlocksInv
  <2> QED BY <1>3, <2>1, <2>2, <2>3
<1>8. ShieldInv'
  <2> SUFFICES ASSUME AlignedAreas, NEW a \in protected
               PROVE  /\ \A x \in BytesOf(a) : ~Holds(t, x, MEMORY_TYPE_FREE)
                      /\ \A b \in Given' : BytesOf(a) \cap BytesOf(b) = {}
    BY DEF ShieldInv, AlignedAreas, t
  <2>1. /\ \A x \in BytesOf(a) : ~Holds(s, x, MEMORY_TYPE_FREE)
        /\ \A b \in Given : BytesOf(a) \cap BytesOf(b) = {}
    BY <1>4 DEF MemoryInv, ShieldInv, s
  <2>2. \A x \in BytesOf(a) : x \in Int /\ x \notin BytesOf(chunk)
    BY <1>1, <2>1 DEF BytesOf
  <2> QED BY <1>3, <1>4, <2>1, <2>2
<1> QED BY <1>1, <1>2, <1>4, <1>5, <1>6, <1>7, <1>8 DEF MemoryInv, s, t

LEMMA FinalizeStepStep ==
  ASSUME MemoryInv, FinalizeStep
  PROVE  /\ MemoryInv' /\ Reclaimed(memory_ranges, memory_ranges')
         /\ phase = "finalize" /\ phase' = "finalize"
<1> DEFINE s == memory_ranges
           t == memory_ranges'
           INT == MEMORY_TYPE_INTERNAL
           FREE == MEMORY_TYPE_FREE
<1>1. /\ loop.op = "finalize" /\ loop.at # HEAD
      /\ UNCHANGED <<phase, protected, held, large_chunks>>
  BY DEF FinalizeStep
<1>2. phase = "finalize" /\ FinalizeLoop
  BY <1>1 DEF MemoryInv, LoopInv, ProtectLoop, Idle
<1>3. PICK at \in Int :
        /\ loop = [op |-> "finalize", at |-> at] /\ at # FREED /\ NodeAt(s, at)
        /\ \A x \in Int : Passed(at, x) => ~Holds(s, x, INT)
  BY <1>2 DEF FinalizeLoop
<1> DEFINE i == NodePos(s, at)
           at2 == NodeAfter(t, SelectLastInSeq(t, LAMBDA r : r.start <= s[i].start))
<1>4. loop.at = at
  BY <1>3
<1>5. /\ t = IF s[i].type = INT
             THEN Reclaim(SubSeq(s, 1, i - 1), s[i], SubSeq(s, i + 1, Len(s))) ELSE s
      /\ loop' = [loop EXCEPT !.at = at2]
  BY <1>4 DEF FinalizeStep
<1>6. loop' = [op |-> "finalize", at |-> at2]
  <2> HIDE DEF at2
  <2> QED BY <1>3, <1>5
<1>7. ListOK(s) /\ s \in Seq(MemoryRange) /\ Apart(s)
  BY DEF MemoryInv, ListOK
<1>8. i \in 1 .. Len(s) /\ s[i].start = at
  <2>1. \E j \in 1 .. Len(s) : s[j].start = at
    BY <1>1, <1>3, <1>4 DEF NodeAt
  <2> QED BY <1>7, <2>1, NodePosFact
<1>9. /\ ListOK(t) /\ Reclaimed(s, t)
      /\ \E ty : ty # INT /\ Holds(t, at, ty)
  <2> HIDE DEF i, s, t
  <2>1. /\ ListOK(t) /\ Reclaimed(s, t)
        /\ \E ty : ty # INT /\ Holds(t, s[i].start, ty)
    BY <1>5, <1>7, <1>8, ReclaimOK
  <2> QED BY <1>8, <2>1
<1>10. at2 = NodeAfter(t, SelectLastInSeq(t, LAMBDA r : r.start <= at))
  <2> HIDE DEF i
  <2> QED BY <1>8
<1> HIDE DEF i, at2
<1>11. \A x \in Int : x < at => ~Holds(t, x, INT)
  <2>1. \A x \in Int : x < at => ~Holds(s, x, INT)
    BY <1>3 DEF Passed
  <2> QED BY <1>9, <2>1, InternalType DEF Reclaimed
<1>12. /\ at2 \in Int /\ at2 # FREED /\ NodeAt(t, at2)
       /\ \A x \in Int : Passed(at2, x) => ~Holds(t, x, INT)
  <2>1. PICK ty : ty # INT /\ Holds(t, at, ty)
    BY <1>9
  <2> HIDE DEF t
  <2> QED BY <1>9, <1>10, <1>11, <2>1, FinalizeNext
<1>13. FinalizeLoop'
  BY <1>6, <1>12 DEF FinalizeLoop
<1>14. LoopInv' /\ PhaseInv'
  BY <1>1, <1>2, <1>13 DEF MemoryInv, LoopInv, PhaseInv
<1>15. Given' = Given /\ Finalizing /\ Finalizing'
  BY <1>1, <1>2 DEF Given, Finalizing
<1>16. BlocksInv' /\ ShieldInv'
  BY <1>1, <1>15 DEF MemoryInv, BlocksInv, ShieldInv
<1>17. TypesInv'
  <2> SUFFICES ASSUME NEW b \in Given, NEW x \in BytesOf(b)
               PROVE  Holds(t, x, b.type) \/ (b.type = INT /\ Holds(t, x, FREE))
    BY <1>15 DEF TypesInv
  <2>1. x \in Int
    BY DEF BytesOf
  <2>2. Holds(s, x, b.type) \/ (b.type = INT /\ Holds(s, x, FREE))
    BY DEF MemoryInv, TypesInv
  <2>3. FREE # INT
    BY InternalType
  <2> QED BY <1>9, <2>1, <2>2, <2>3 DEF Reclaimed
<1> QED BY <1>1, <1>2, <1>9, <1>14, <1>16, <1>17 DEF MemoryInv

-----------------------------------------------------------------------------
(***************************************************************************)
(* The invariant is kept.                                                  *)
(***************************************************************************)

(* The calls that give out memory.                                         *)
LEMMA AllocSteps ==
  ASSUME MemoryInv, PlacesComputed
  PROVE  /\ \A call \in AllocRequests : MemoryAlloc(call) => MemoryInv'
         /\ \A size \in LargeSizes : MallocLarge(size) => MemoryInv'
<1>1. ASSUME NEW call \in AllocRequests, MemoryAlloc(call) PROVE MemoryInv'
  <2> DEFINE req == WithDefaults(call)
  <2>1. GoodRequest(req) /\ Computed(memory_ranges, req)
    BY CallsGood DEF PlacesComputed
  <2>2. /\ phase = "run" /\ FindRange(memory_ranges, req) # 0
        /\ memory_ranges' = Place(memory_ranges, req).map
        /\ held' = held \cup {Place(memory_ranges, req).block}
        /\ large_chunks' = large_chunks /\ UNCHANGED <<phase, loop, protected>>
    BY <1>1 DEF MemoryAlloc, CanRun
  <2> HIDE DEF req
  <2> QED BY <2>1, <2>2, AllocStep
<1>2. ASSUME NEW size \in LargeSizes, MallocLarge(size) PROVE MemoryInv'
  <2> DEFINE req == LargeRequest(size)
  <2>1. GoodRequest(req) /\ Computed(memory_ranges, req)
        /\ req.type = MEMORY_TYPE_INTERNAL
    BY CallsGood DEF PlacesComputed
  <2>2. /\ phase = "run" /\ FindRange(memory_ranges, req) # 0
        /\ memory_ranges' = Place(memory_ranges, req).map
        /\ large_chunks' = large_chunks \cup {Place(memory_ranges, req).block}
        /\ held' = held /\ UNCHANGED <<phase, loop, protected>>
    BY <1>2 DEF MallocLarge, CanRun
  <2> HIDE DEF req
  <2> QED BY <2>1, <2>2, AllocStep
<1> QED BY <1>1, <1>2

LEMMA FreeLargeStep ==
  ASSUME MemoryInv, NEW chunk \in large_chunks, FreeLarge(chunk)
  PROVE  MemoryInv'
<1>1. CASE FreeAccepts(memory_ranges, chunk)
  <2>1. /\ phase = "run"
        /\ memory_ranges' = MapInsert(memory_ranges, chunk.start, chunk.size,
                                      MEMORY_TYPE_FREE)
        /\ large_chunks' = large_chunks \ {chunk}
        /\ UNCHANGED <<phase, loop, protected, held>>
    BY <1>1 DEF FreeLarge, CanRun
  <2> QED BY <2>1, FreeStep
<1>2. CASE ~FreeAccepts(memory_ranges, chunk)
  BY <1>2, QuietStep DEF FreeLarge
<1> QED BY <1>1, <1>2

LEMMA MemorySteps ==
  ASSUME MemoryInv, PlacesComputed, [Next]_vars
  PROVE  MemoryInv'
<1>1. CASE UNCHANGED vars
  BY <1>1, QuietStep DEF vars
<1>2. ASSUME NEW e \in Entries, ProbeAdd(e) PROVE MemoryInv'
  BY <1>2, ProbeAddStep
<1>3. CASE ProbeDone \/ InitDone \/ FinalizeBegin
  BY <1>3, PhaseStep
<1>4. ASSUME NEW a \in Reservations, Reserve(a) PROVE MemoryInv'
  BY <1>4, ReserveStep
<1>5. ASSUME NEW a \in Areas, ProtectBegin(a) PROVE MemoryInv'
  BY <1>5, ProtectBeginStep
<1>6. ASSUME NEW call \in AllocRequests, MemoryAlloc(call) \/ AllocFails(call)
      PROVE  MemoryInv'
  <2>1. CASE AllocFails(call)
    BY <2>1, QuietStep DEF AllocFails, Insufficient
  <2> QED BY <1>6, <2>1, AllocSteps
<1>7. ASSUME NEW size \in LargeSizes, MallocLarge(size) \/ MallocLargeFails(size)
      PROVE  MemoryInv'
  <2>1. CASE MallocLargeFails(size)
    BY <2>1, QuietStep DEF MallocLargeFails, Insufficient
  <2> QED BY <1>7, <2>1, AllocSteps
<1>8. ASSUME NEW chunk \in large_chunks, FreeLarge(chunk) PROVE MemoryInv'
  BY <1>8, FreeLargeStep
<1>9. ASSUME NEW b \in held, FreeLargeTwice(b.start) PROVE MemoryInv'
  BY <1>9, QuietStep DEF FreeLargeTwice
<1>10. CASE LoopStep
  BY <1>10, ProtectStepStep, ProtectEndStep, FinalizeStepStep, PhaseStep DEF LoopStep
<1> QED BY <1>1, <1>2, <1>3, <1>4, <1>5, <1>6, <1>7, <1>8, <1>9, <1>10 DEF Next

(* The invariant of the memory manager: the range list is sorted, its      *)
(* ranges are whole pages and as large as they can be, both loops have     *)
(* done their work on what they have passed, and everything given out or   *)
(* protected is accounted for.                                             *)
THEOREM MemoryInvariant == Spec /\ []PlacesComputed => []MemoryInv
<1>1. MemoryInv /\ PlacesComputed /\ [Next]_vars => MemoryInv'
  BY MemorySteps
<1> QED BY <1>1, MemoryStarts, PTL DEF Spec

(* What memory_alloc() and malloc_large() gave out keeps its type, is      *)
(* within reach and is nobody else's, and no byte that memory_protect()    *)
(* has returned for is given out before memory_finalize().                 *)
THEOREM MemoryHeldIntact ==
  ASSUME AlignedAreas
  PROVE  Spec /\ []PlacesComputed => []HeldIntact
<1>1. MemoryInv => HeldIntact
  <2> SUFFICES ASSUME MemoryInv PROVE HeldIntact
    OBVIOUS
  <2>1. memory_ranges \in Seq(MemoryRange) /\ Apart(memory_ranges)
    BY DEF MemoryInv, ListOK
  <2>2. \A b \in Live : b \in Given /\ (Finalizing => b.type # MEMORY_TYPE_INTERNAL)
    BY DEF Live, Given
  <2>3. ASSUME NEW b \in Live, NEW x \in BytesOf(b)
        PROVE  x <= TARGET_PHYS_MAX /\ TypeAt(memory_ranges, x) = b.type
    <3>1. /\ Block(b) /\ Holds(memory_ranges, x, b.type) /\ b.type \in MemoryTypes
      BY <2>2 DEF MemoryInv, BlocksInv, TypesInv, Block
    <3>2. x \in Int /\ x <= b.start + b.size - 1 /\ b.start \in Nat /\ b.size \in Nat
      BY <3>1, BlockBytes
    <3>3. b.start + b.size - 1 <= TARGET_PHYS_MAX /\ TARGET_PHYS_MAX \in Nat
      BY <3>1, RequestsAssumption, AddrNat DEF Block
    <3>4. x <= TARGET_PHYS_MAX
      BY <3>2, <3>3
    <3> QED BY <2>1, <3>1, <3>2, <3>4, TypeAtHolds
  <2>4. \A b, c \in Live : b # c => BytesOf(b) \cap BytesOf(c) = {}
    BY <2>2 DEF MemoryInv, BlocksInv
  <2>5. ASSUME ~Finalizing, NEW a \in protected, NEW x \in BytesOf(a)
        PROVE  TypeAt(memory_ranges, x) # MEMORY_TYPE_FREE
    <3>1. ~Holds(memory_ranges, x, MEMORY_TYPE_FREE)
      BY <2>5 DEF MemoryInv, ShieldInv
    <3>2. x \in Int
      BY DEF BytesOf
    <3> QED BY <2>1, <3>1, <3>2, TypeAtHolds, InternalType
  <2> QED BY <2>3, <2>4, <2>5 DEF HeldIntact
<1> QED BY <1>1, MemoryInvariant, PTL

(* When memory_finalize() has returned, the map shows the kernel no        *)
(* internal memory, and all that malloc_large() held is free.              *)
THEOREM MemoryKernelMapClean == Spec /\ []PlacesComputed => []KernelMapClean
<1>1. MemoryInv => KernelMapClean
  <2> SUFFICES ASSUME MemoryInv, phase = "done" PROVE KernelMapClean
    BY DEF KernelMapClean
  <2>1. memory_ranges \in Seq(MemoryRange) /\ Apart(memory_ranges)
    BY DEF MemoryInv, ListOK
  <2>2. \A x \in Int : ~Holds(memory_ranges, x, MEMORY_TYPE_INTERNAL)
    BY DEF MemoryInv, PhaseInv
  <2>3. ASSUME NEW i \in 1 .. Len(memory_ranges)
        PROVE  memory_ranges[i].type # MEMORY_TYPE_INTERNAL
    BY <2>1, <2>2, HoldsEnds
  <2>4. ASSUME NEW b \in large_chunks, NEW x \in BytesOf(b)
        PROVE  TypeAt(memory_ranges, x) = MEMORY_TYPE_FREE
    <3>1. x \in Int /\ b \in Given /\ b.type = MEMORY_TYPE_INTERNAL
      BY DEF MemoryInv, BlocksInv, BytesOf, Given
    <3>2. Holds(memory_ranges, x, MEMORY_TYPE_FREE)
      BY <2>2, <3>1 DEF MemoryInv, TypesInv
    <3> QED BY <2>1, <3>1, <3>2, TypeAtHolds, InternalType
  <2> QED BY <2>3, <2>4 DEF KernelMapClean
<1> QED BY <1>1, MemoryInvariant, PTL

-----------------------------------------------------------------------------
(***************************************************************************)
(* The manager implements the page map.                                    *)
(***************************************************************************)
PageSet == 0 .. (AddrMod \div PAGE_SIZE) - 1
TypesOf(s) == [p \in PageSet |-> TypeAt(s, p * PAGE_SIZE)]
Stage(ph) == CASE ph \in {"probe", "protect"} -> "probe"
               [] ph = "run" -> "run"
               [] OTHER -> "reclaim"

LEMMA PageNumbers ==
  /\ \A p \in PageSet : /\ p * PAGE_SIZE \in Nat /\ p * PAGE_SIZE < AddrMod
                        /\ (p * PAGE_SIZE) % PAGE_SIZE = 0 /\ p \in Nat
  /\ \A x \in Nat : x % PAGE_SIZE = 0 /\ x < AddrMod => \E p \in PageSet : x = p * PAGE_SIZE
  /\ \A x \in Nat : x <= AddrMod <=> \E p \in PageSet : x <= (p + 1) * PAGE_SIZE
<1> DEFINE q == AddrMod \div PAGE_SIZE
<1>1. q \in Nat /\ AddrMod = PAGE_SIZE * q /\ AddrMod \in Nat /\ AddrMod > 0
  <2>1. AddrMod \in Nat /\ AddrMod > 0
    BY AddressSpaceAssumption
  <2>2. q \in Nat /\ AddrMod = PAGE_SIZE * q + (AddrMod % PAGE_SIZE)
    BY <2>1, PageSize, DivMod
  <2>3. PAGE_SIZE * q \in Nat
    BY <2>2, PageSize
  <2> HIDE DEF q
  <2> QED BY <2>1, <2>2, <2>3, PageSize
<1>2. PageSet = 0 .. q - 1
  BY DEF PageSet
<1> HIDE DEF q
<1>3. ASSUME NEW p \in PageSet
      PROVE  /\ p * PAGE_SIZE \in Nat /\ p * PAGE_SIZE < AddrMod
             /\ (p * PAGE_SIZE) % PAGE_SIZE = 0 /\ p \in Nat
  <2>1. p \in Nat /\ p + 1 <= q
    BY <1>1, <1>2
  <2>2. PICK d \in Nat : q = p + 1 + d
    <3>1. q - (p + 1) \in Nat /\ q = p + 1 + (q - (p + 1))
      BY <1>1, <2>1
    <3> QED BY <3>1
  <2>3. AddrMod = PAGE_SIZE * p + PAGE_SIZE + PAGE_SIZE * d
    BY <1>1, <2>1, <2>2, PageSize
  <2>4. PAGE_SIZE * p \in Nat /\ PAGE_SIZE * d \in Nat /\ p * PAGE_SIZE = PAGE_SIZE * p
    BY <2>1, PageSize
  <2>5. (PAGE_SIZE * p) % PAGE_SIZE = 0
    BY <2>1, PageSize, Multiple
  <2> QED BY <2>1, <2>3, <2>4, <2>5, PageSize
<1>4. ASSUME NEW x \in Nat, x % PAGE_SIZE = 0, x < AddrMod
      PROVE  \E p \in PageSet : x = p * PAGE_SIZE
  <2> DEFINE p == x \div PAGE_SIZE
  <2>1. p \in Nat /\ x = PAGE_SIZE * p + (x % PAGE_SIZE)
    BY PageSize, DivMod
  <2> HIDE DEF p
  <2>2. x = PAGE_SIZE * p /\ x = p * PAGE_SIZE
    BY <1>4, <2>1, PageSize
  <2>3. p < q
    <3>1. CASE q <= p
      <4>1. PICK d \in Nat : p = q + d
        <5>1. p - q \in Nat /\ p = q + (p - q)
          BY <1>1, <2>1, <3>1
        <5> QED BY <5>1
      <4>2. x = AddrMod + PAGE_SIZE * d /\ PAGE_SIZE * d \in Nat
        BY <1>1, <2>2, <4>1, PageSize
      <4> QED BY <1>1, <1>4, <4>2
    <3> QED BY <1>1, <2>1, <3>1
  <2>4. p \in PageSet
    BY <1>1, <1>2, <2>1, <2>3
  <2> QED BY <2>2, <2>4
<1>5. ASSUME NEW x \in Nat PROVE x <= AddrMod <=> \E p \in PageSet : x <= (p + 1) * PAGE_SIZE
  <2>1. ASSUME x <= AddrMod PROVE \E p \in PageSet : x <= (p + 1) * PAGE_SIZE
    <3> DEFINE p == q - 1
    <3>1. q # 0
      BY <1>1, PageSize
    <3>2. p \in PageSet /\ p + 1 = q
      BY <1>1, <1>2, <3>1
    <3>3. x <= (p + 1) * PAGE_SIZE
      BY <1>1, <2>1, <3>2, PageSize
    <3> QED BY <3>2, <3>3
  <2>2. ASSUME NEW p \in PageSet, x <= (p + 1) * PAGE_SIZE PROVE x <= AddrMod
    <3>1. p \in Nat /\ p * PAGE_SIZE \in Nat /\ p * PAGE_SIZE < AddrMod
          /\ (p * PAGE_SIZE) % PAGE_SIZE = 0
      BY <1>3
    <3>2. p * PAGE_SIZE + PAGE_SIZE <= AddrMod
      <4> DEFINE y == p * PAGE_SIZE
      <4>1. y \in Int /\ AddrMod \in Int /\ y < AddrMod /\ y % PAGE_SIZE = 0
        BY <1>1, <3>1
      <4> HIDE DEF y
      <4>2. y + PAGE_SIZE <= AddrMod
        BY <4>1, PageSize, MultipleGap
      <4> QED BY <4>2 DEF y
    <3>3. (p + 1) * PAGE_SIZE = p * PAGE_SIZE + PAGE_SIZE
      BY <3>1, PageSize
    <3> QED BY <1>1, <2>2, <3>1, <3>2, <3>3, PageSize
  <2> QED BY <2>1, <2>2
<1> QED BY <1>1, <1>3, <1>4, <1>5

(* The places the page map knows for a request are the free places of the  *)
(* list.                                                                   *)
LEMMA PlacesFact ==
  ASSUME ListOK(memory_ranges), NEW req, GoodRequest(req), NEW a
  PROVE  a \in PM!Places(req) <=> FreePlace(memory_ranges, req, a)
<1> DEFINE s == memory_ranges
           n == req.size
           FREE == MEMORY_TYPE_FREE
<1>1. /\ n \in Nat /\ n >= 2 /\ n < AddrMod /\ req.align \in Nat \ {0}
      /\ req.align % PAGE_SIZE = 0 /\ req.max \in Nat /\ req.max < AddrMod /\ AddrMod \in Nat
      /\ req.min \in Nat
  BY PageSize, AddrNat DEF GoodRequest
<1>2. \A p \in PageSet : TypeAt(s, p * PAGE_SIZE) = FREE <=> Holds(s, p * PAGE_SIZE, FREE)
  <2>1. s \in Seq(MemoryRange) /\ Apart(s)
    BY DEF ListOK
  <2>2. \A p \in PageSet : p * PAGE_SIZE \in Int
    BY PageNumbers
  <2> QED BY <2>1, <2>2, TypeAtHolds, InternalType
<1> DEFINE Run == {p \in PageSet : a <= p * PAGE_SIZE /\ p * PAGE_SIZE < a + n}
<1>3. a \in PM!Places(req) <=>
        /\ \E p \in PageSet : a = p * PAGE_SIZE
        /\ a % req.align = 0
        /\ a >= req.min /\ a + n - 1 <= req.max
        /\ \E p \in PageSet : a + n <= (p + 1) * PAGE_SIZE
        /\ \A p \in Run : TypeAt(s, p * PAGE_SIZE) = FREE
  <2>1. PM!Places(req) =
          {x \in {p * PAGE_SIZE : p \in PageSet} :
             /\ x % req.align = 0
             /\ x >= req.min /\ x + req.size - 1 <= req.max
             /\ \E p \in PageSet : x + req.size <= (p + 1) * PAGE_SIZE
             /\ \A p \in {q \in PageSet : x <= q * PAGE_SIZE /\ q * PAGE_SIZE < x + req.size} :
                  TypesOf(s)[p] = FREE}
    BY Zenon DEF PM!Places, PM!PagesOf, PageSet, TypesOf
  <2>2. \A p \in PageSet : TypesOf(s)[p] = TypeAt(s, p * PAGE_SIZE)
    BY DEF TypesOf
  <2>3. (\A p \in Run : TypeAt(s, p * PAGE_SIZE) = FREE) <=>
          (\A p \in Run : TypesOf(s)[p] = FREE)
    BY <2>2
  <2> HIDE DEF PM!Places
  <2> QED BY <2>1, <2>3, Zenon
<1> HIDE DEF n
<1>4. ASSUME a \in PM!Places(req) PROVE FreePlace(s, req, a)
  <2>1. a \in Nat /\ a % PAGE_SIZE = 0
    BY <1>3, <1>4, PageNumbers
  <2>2. a % req.align = 0 /\ req.min <= a /\ a + n - 1 <= req.max /\ a + n <= AddrMod
    BY <1>1, <1>3, <1>4, <2>1
  <2>3. ASSUME NEW x \in Int, a <= x, x <= a + n - 1 PROVE Holds(s, x, FREE)
    <3> DEFINE o == PageOf(x)
    <3>1. /\ o \in Int /\ o <= x /\ o % PAGE_SIZE = 0
          /\ \A y \in Int : y % PAGE_SIZE = 0 /\ y <= x => y <= o
      BY PageOfFact
    <3> HIDE DEF o
    <3>2. a <= o
      BY <2>1, <2>3, <3>1
    <3>3. o \in Nat /\ o < a + n /\ o < AddrMod
      BY <1>1, <2>1, <2>2, <2>3, <3>1, <3>2
    <3>4. PICK p \in PageSet : o = p * PAGE_SIZE
      BY <3>1, <3>3, PageNumbers
    <3>5. p \in Run
      BY <3>2, <3>3, <3>4
    <3>6. Holds(s, o, FREE)
      BY <1>2, <1>3, <1>4, <3>4, <3>5
    <3> QED BY <3>6 DEF ListOK, PageWise, o
  <2> QED BY <2>1, <2>2, <2>3 DEF FreePlace, n
<1>5. ASSUME FreePlace(s, req, a) PROVE a \in PM!Places(req)
  <2>1. /\ a \in Nat /\ a % req.align = 0 /\ req.min <= a /\ a + n - 1 <= req.max
        /\ \A x \in Int : a <= x /\ x <= a + n - 1 => Holds(s, x, FREE)
    BY <1>5 DEF FreePlace, n
  <2>2. a % PAGE_SIZE = 0
    <3>1. a \in Int
      BY <2>1
    <3> QED BY <1>1, <2>1, <3>1, PageSize, MultipleOfMultiple
  <2>3. a + n <= AddrMod /\ a < AddrMod
    BY <1>1, <2>1
  <2>4. \E p \in PageSet : a = p * PAGE_SIZE
    BY <2>1, <2>2, <2>3, PageNumbers
  <2>5. ASSUME NEW p \in Run PROVE TypeAt(s, p * PAGE_SIZE) = FREE
    <3> DEFINE x == p * PAGE_SIZE
    <3>1. x \in Nat /\ a <= x /\ x < a + n /\ p \in PageSet
      BY PageNumbers
    <3>2. TypeAt(s, x) = FREE <=> Holds(s, x, FREE)
      BY <1>2, <3>1
    <3> HIDE DEF x
    <3>3. x \in Int /\ x <= a + n - 1
      BY <1>1, <2>1, <3>1
    <3>4. TypeAt(s, x) = FREE
      BY <2>1, <3>1, <3>2, <3>3
    <3> QED BY <3>4 DEF x
  <2>6. a >= req.min /\ \E p \in PageSet : a + n <= (p + 1) * PAGE_SIZE
    <3>1. a + n \in Nat
      BY <1>1, <2>1
    <3> QED BY <1>1, <2>1, <2>3, <3>1, PageNumbers
  <2> QED BY <1>3, <2>1, <2>4, <2>5, <2>6
<1> QED BY <1>4, <1>5

(* Inserting a range gives its pages the type.                             *)
LEMMA PagesUpdated ==
  ASSUME NEW s, ListOK(s), NEW t, ListOK(t), NEW a, NEW n, WholePages(a, n),
         NEW ty \in MemoryTypes, Updated(s, t, a, a + n - 1, ty)
  PROVE  \A p \in PageSet :
           TypeAt(t, p * PAGE_SIZE) = IF a <= p * PAGE_SIZE /\ p * PAGE_SIZE < a + n
                                      THEN ty ELSE TypeAt(s, p * PAGE_SIZE)
<1> TAKE p \in PageSet
<1> DEFINE x == p * PAGE_SIZE
<1>1. x \in Int /\ x \in Nat
  BY PageNumbers
<1>2. s \in Seq(MemoryRange) /\ Apart(s) /\ t \in Seq(MemoryRange) /\ Apart(t)
  BY DEF ListOK
<1> HIDE DEF x
<1>3. a \in Nat /\ n \in Nat
  BY DEF WholePages
<1>4. x <= a + n - 1 <=> x < a + n
  BY <1>1, <1>3
<1>5. \A tz : Holds(t, x, tz) <=> IF a <= x /\ x < a + n THEN tz = ty ELSE Holds(s, x, tz)
  BY <1>1, <1>4 DEF Updated
<1>6. CASE a <= x /\ x < a + n
  <2>1. TypeAt(t, x) = ty
    BY <1>1, <1>2, <1>5, <1>6, TypeAtHolds
  <2> QED BY <1>6, <2>1 DEF x
<1>7. CASE ~(a <= x /\ x < a + n)
  <2>1. TypeAt(t, x) = TypeAt(s, x)
    <3>1. \A tz : Holds(t, x, tz) <=> Holds(s, x, tz)
      BY <1>5, <1>7
    <3>2. CASE \E tz \in MemoryTypes : Holds(s, x, tz)
      BY <1>1, <1>2, <3>1, <3>2, TypeAtHolds
    <3>3. CASE ~\E tz \in MemoryTypes : Holds(s, x, tz)
      <4>1. TypeAt(s, x) = NoMemory
        BY <1>1, <1>2, <3>3, TypeAtHolds
      <4>2. TypeAt(t, x) = NoMemory
        BY <1>1, <1>2, <3>1, <3>3, TypeAtHolds
      <4> QED BY <4>1, <4>2
    <3> QED BY <3>2, <3>3
  <2> QED BY <1>7, <2>1 DEF x
<1> QED BY <1>6, <1>7

-----------------------------------------------------------------------------
(* The steps of the page map, in terms of the manager.                     *)
LEMMA LiftQuiet ==
  ASSUME TypesOf(memory_ranges') = TypesOf(memory_ranges), Live' = Live, want' = want,
         Stage(phase') = Stage(phase)
  PROVE  UNCHANGED PM!vars
BY DEF PM!vars, TypesOf, PageSet, Stage

LEMMA LiftProbe ==
  ASSUME Stage(phase) = "probe", Stage(phase') = "probe", Live' = Live, want' = want,
         \A p \in PageSet : TypesOf(memory_ranges')[p] \in
           {MEMORY_TYPE_FREE, MEMORY_TYPE_INTERNAL, NoMemory}
  PROVE  PM!Probe
BY DEF PM!Probe, TypesOf, PageSet, Stage

LEMMA LiftStart ==
  ASSUME phase = "protect", phase' = "run", Live' = Live, want' = want,
         memory_ranges' = memory_ranges
  PROVE  PM!Start
BY DEF PM!Start, TypesOf, PageSet, Stage

PagesWith(s, a, n, ty) ==
  [p \in PageSet |-> IF a <= p * PAGE_SIZE /\ p * PAGE_SIZE < a + n THEN ty
                     ELSE TypesOf(s)[p]]

LEMMA LiftRetype ==
  ASSUME NEW a, NEW n, NEW ty
  PROVE  PM!Retype(PM!PagesOf(a, n), ty) = PagesWith(memory_ranges, a, n, ty)
BY DEF PM!Retype, PM!PagesOf, PagesWith, TypesOf, PageSet

LEMMA LiftAlloc ==
  ASSUME NEW req, phase = "run", phase' = "run", want' = want,
         NEW a \in PM!Places(req), PM!Places(req) \subseteq Nat,
         \A b \in PM!Places(req) : IF req.high THEN b <= a ELSE a <= b,
         TypesOf(memory_ranges') = PagesWith(memory_ranges, a, req.size, req.type),
         Live' = Live \cup {[start |-> a, size |-> req.size, type |-> req.type]}
  PROVE  PM!Alloc(req)
<1> DEFINE T == PM!Places(req)
           start == IF req.high THEN PM!Max(T) ELSE PM!Min(T)
<1>1. start = a
  <2> HIDE DEF T
  <2>1. CASE req.high
    <3>1. \A b \in T : b \in Nat /\ b <= a /\ a >= b
      BY <2>1 DEF T
    <3>2. PM!Max(T) \in T /\ \A b \in T : PM!Max(T) >= b
      <4>1. \E x \in T : \A y \in T : x >= y
        BY <3>1 DEF T
      <4> QED BY <4>1 DEF PM!Max
    <3>3. PM!Max(T) >= a /\ PM!Max(T) <= a /\ PM!Max(T) \in Nat /\ a \in Nat
      BY <3>1, <3>2 DEF T
    <3>4. PM!Max(T) = a
      BY <3>3
    <3> QED BY <2>1, <3>4
  <2>2. CASE ~req.high
    <3>1. \A b \in T : b \in Nat /\ a <= b
      BY <2>2 DEF T
    <3>2. PM!Min(T) \in T /\ \A b \in T : PM!Min(T) <= b
      <4>1. \E x \in T : \A y \in T : x <= y
        BY <3>1 DEF T
      <4> QED BY <4>1 DEF PM!Min
    <3>3. PM!Min(T) <= a /\ a <= PM!Min(T) /\ PM!Min(T) \in Nat /\ a \in Nat
      BY <3>1, <3>2 DEF T
    <3>4. PM!Min(T) = a
      BY <3>3
    <3> QED BY <2>2, <3>4
  <2> QED BY <2>1, <2>2
<1> HIDE DEF start, T
<1>2. PM!Retype(PM!PagesOf(start, req.size), req.type) = TypesOf(memory_ranges')
  BY <1>1, LiftRetype
<1>3. Live' = Live \cup {[start |-> start, size |-> req.size, type |-> req.type]}
  BY <1>1
<1>4. T # {}
  BY DEF T
<1>5. PM!Alloc(req) <=>
        /\ Stage(phase) = "run" /\ T # {}
        /\ TypesOf(memory_ranges') = PM!Retype(PM!PagesOf(start, req.size), req.type)
        /\ Live' = Live \cup {[start |-> start, size |-> req.size, type |-> req.type]}
        /\ want' = want /\ Stage(phase') = Stage(phase)
  <2> USE DEF start, T
  <2> QED BY DEF PM!Alloc, TypesOf, PageSet, Stage
<1> QED BY <1>2, <1>3, <1>4, <1>5 DEF Stage

LEMMA LiftFail ==
  ASSUME NEW req, phase = "run", phase' = "run", PM!Places(req) = {}, want' = {req},
         memory_ranges' = memory_ranges, Live' = Live
  PROVE  PM!Fail(req)
BY DEF PM!Fail, TypesOf, PageSet, Stage

LEMMA LiftRelease ==
  ASSUME NEW b, phase = "run", phase' = "run", want' = want, Live' = Live \ {b},
         TypesOf(memory_ranges') = PagesWith(memory_ranges, b.start, b.size, MEMORY_TYPE_FREE)
  PROVE  PM!Release(b)
<1>1. PM!Retype(PM!PagesOf(b.start, b.size), MEMORY_TYPE_FREE) = TypesOf(memory_ranges')
  BY LiftRetype
<1>2. PM!Release(b) <=>
        /\ Stage(phase) = "run"
        /\ TypesOf(memory_ranges') = PM!Retype(PM!PagesOf(b.start, b.size), MEMORY_TYPE_FREE)
        /\ Live' = Live \ {b} /\ want' = want /\ Stage(phase') = Stage(phase)
  BY DEF PM!Release, TypesOf, PageSet, Stage
<1> QED BY <1>1, <1>2 DEF Stage

LEMMA LiftFinish ==
  ASSUME phase = "run", phase' = "finalize", want' = want, memory_ranges' = memory_ranges,
         Live' = {b \in Live : b.type # MEMORY_TYPE_INTERNAL}
  PROVE  PM!Finish
BY DEF PM!Finish, TypesOf, PageSet, Stage

LEMMA LiftReclaim ==
  ASSUME phase = "finalize", phase' = "finalize", want' = want, Live' = Live,
         \A p \in PageSet :
           \/ TypesOf(memory_ranges')[p] = TypesOf(memory_ranges)[p]
           \/ /\ TypesOf(memory_ranges)[p] = MEMORY_TYPE_INTERNAL
              /\ TypesOf(memory_ranges')[p] = MEMORY_TYPE_FREE
  PROVE  PM!Reclaim
BY DEF PM!Reclaim, TypesOf, PageSet, Stage

-----------------------------------------------------------------------------
(* Every step of the manager is a step of the page map, or none.           *)

LEMMA SameLive ==
  ASSUME UNCHANGED <<held, large_chunks>>, Finalizing' = Finalizing
  PROVE  Live' = Live
BY DEF Live

LEMMA PageTypes ==
  ASSUME NEW s, ListOK(s), NEW p \in PageSet
  PROVE  /\ p * PAGE_SIZE \in Int
         /\ \A ty \in MemoryTypes : TypesOf(s)[p] = ty <=> Holds(s, p * PAGE_SIZE, ty)
         /\ TypesOf(s)[p] = NoMemory <=> \A ty \in MemoryTypes : ~Holds(s, p * PAGE_SIZE, ty)
<1>1. p * PAGE_SIZE \in Int
  BY PageNumbers
<1>2. TypesOf(s)[p] = TypeAt(s, p * PAGE_SIZE)
  BY DEF TypesOf
<1>3. s \in Seq(MemoryRange) /\ Apart(s)
  BY DEF ListOK
<1> QED BY <1>1, <1>2, <1>3, TypeAtHolds

(* target_memory_probe() and memory_init().                                *)
LEMMA ProbeRefines ==
  ASSUME MemoryInv', phase \in {"probe", "protect"},
         UNCHANGED <<phase, held, large_chunks, want>>
  PROVE  PM!Probe
<1>1. Live' = Live
  BY SameLive DEF Finalizing
<1>2. Stage(phase) = "probe" /\ Stage(phase') = "probe"
  BY DEF Stage
<1>3. ASSUME NEW p \in PageSet
      PROVE  TypesOf(memory_ranges')[p] \in {MEMORY_TYPE_FREE, MEMORY_TYPE_INTERNAL, NoMemory}
  <2> DEFINE t == memory_ranges'
             x == p * PAGE_SIZE
  <2>1. ListOK(t)
    BY DEF MemoryInv
  <2>2. \A y \in Int : \A ty : Holds(t, y, ty) => ty \in {MEMORY_TYPE_FREE, MEMORY_TYPE_INTERNAL}
    BY DEF MemoryInv, PhaseInv
  <2> HIDE DEF t
  <2>3. /\ x \in Int
        /\ \A ty \in MemoryTypes : TypesOf(t)[p] = ty <=> Holds(t, x, ty)
        /\ TypesOf(t)[p] = NoMemory <=> \A ty \in MemoryTypes : ~Holds(t, x, ty)
    BY <2>1, PageTypes
  <2> HIDE DEF x
  <2>4. CASE \E ty \in MemoryTypes : Holds(t, x, ty)
    BY <2>2, <2>3, <2>4 DEF t
  <2>5. CASE \A ty \in MemoryTypes : ~Holds(t, x, ty)
    BY <2>3, <2>5 DEF t
  <2> QED BY <2>4, <2>5
<1> QED BY <1>1, <1>2, <1>3, LiftProbe

(* memory_alloc() and malloc_large().                                      *)
LEMMA AllocRefines ==
  ASSUME MemoryInv, phase = "run", NEW req, GoodRequest(req),
         Computed(memory_ranges, req), FindRange(memory_ranges, req) # 0,
         NEW p, p = Place(memory_ranges, req), memory_ranges' = p.map,
         Given' = Given \cup {p.block}, UNCHANGED <<phase, want>>
  PROVE  PM!Alloc(req)
<1> DEFINE a == p.block.start
<1>1. ListOK(memory_ranges)
  BY DEF MemoryInv
<1>2. /\ p.block = [start |-> a, size |-> req.size, type |-> req.type]
      /\ Allocates(memory_ranges, p.map, req, a)
  BY <1>1, AllocOK
<1>3. p.block = [start |-> a, size |-> req.size, type |-> req.type]
  BY <1>2
<1> HIDE DEF a
<1>4. /\ WholePages(a, req.size) /\ FreePlace(memory_ranges, req, a)
      /\ BestPlace(memory_ranges, req, a) /\ ListOK(memory_ranges')
      /\ Updated(memory_ranges, memory_ranges', a, a + req.size - 1, req.type)
  BY <1>2 DEF Allocates
<1>5. a \in PM!Places(req)
  BY <1>1, <1>4, PlacesFact
<1>6. \A b \in PM!Places(req) : b \in Nat /\ IF req.high THEN b <= a ELSE a <= b
  <2>1. \A b \in PM!Places(req) : FreePlace(memory_ranges, req, b)
    BY <1>1, PlacesFact
  <2> QED BY <1>4, <2>1 DEF BestPlace, FreePlace
<1>7. TypesOf(memory_ranges') = PagesWith(memory_ranges, a, req.size, req.type)
  <2>1. req.type \in MemoryTypes
    BY DEF GoodRequest
  <2>2. \A q \in PageSet :
          TypeAt(memory_ranges', q * PAGE_SIZE) =
            IF a <= q * PAGE_SIZE /\ q * PAGE_SIZE < a + req.size
            THEN req.type ELSE TypeAt(memory_ranges, q * PAGE_SIZE)
    BY <1>1, <1>4, <2>1, PagesUpdated
  <2> QED BY <2>2 DEF TypesOf, PagesWith
<1>8. Live' = Live \cup {[start |-> a, size |-> req.size, type |-> req.type]}
  <2>1. Live = Given /\ Live' = Given'
    BY DEF Live, Given, Finalizing
  <2> QED BY <1>3, <2>1
<1>9. PM!Places(req) \subseteq Nat
  BY <1>6
<1>10. \A b \in PM!Places(req) : IF req.high THEN b <= a ELSE a <= b
  BY <1>6
<1> HIDE DEF PM!Alloc, PM!Places
<1>11. phase' = "run" /\ want' = want
  OBVIOUS
<1> QED BY <1>5, <1>7, <1>8, <1>9, <1>10, <1>11, LiftAlloc

LEMMA FailRefines ==
  ASSUME MemoryInv, NEW req, GoodRequest(req), Computed(memory_ranges, req),
         Insufficient(req)
  PROVE  PM!Fail(req)
<1>1. /\ phase = "run" /\ phase' = "run" /\ FindRange(memory_ranges, req) = 0
      /\ want' = {req} /\ memory_ranges' = memory_ranges
      /\ UNCHANGED <<held, large_chunks>>
  BY DEF Insufficient, CanRun
<1>2. ListOK(memory_ranges)
  BY DEF MemoryInv
<1>3. \A b : ~FreePlace(memory_ranges, req, b)
  BY <1>1, <1>2, FindFact
<1>4. PM!Places(req) = {}
  <2>1. \A b : b \notin PM!Places(req)
    BY <1>2, <1>3, PlacesFact
  <2> HIDE DEF PM!Places
  <2> QED BY <2>1
<1>5. Live' = Live
  BY <1>1, SameLive DEF Finalizing
<1> QED BY <1>1, <1>4, <1>5, LiftFail

(* free_large().                                                           *)
LEMMA FreeRefines ==
  ASSUME MemoryInv, NEW chunk \in large_chunks, FreeLarge(chunk)
  PROVE  UNCHANGED PM!vars \/ (chunk \in Live /\ PM!Release(chunk))
<1>1. CASE FreeAccepts(memory_ranges, chunk)
  <2>1. /\ phase = "run"
        /\ memory_ranges' = MapInsert(memory_ranges, chunk.start, chunk.size,
                                      MEMORY_TYPE_FREE)
        /\ large_chunks' = large_chunks \ {chunk}
        /\ UNCHANGED <<phase, loop, protected, held>>
    BY <1>1 DEF FreeLarge, CanRun
  <2>2. want' = want
    BY DEF FreeLarge
  <2>3. /\ MemoryInv' /\ Given' = Given \ {chunk} /\ Block(chunk)
        /\ Updated(memory_ranges, memory_ranges', chunk.start,
                   chunk.start + chunk.size - 1, MEMORY_TYPE_FREE)
    BY <2>1, FreeStep
  <2>4. Live' = Live \ {chunk} /\ chunk \in Live
    BY <2>1, <2>3 DEF Live, Given, Finalizing
  <2>5. TypesOf(memory_ranges') =
          PagesWith(memory_ranges, chunk.start, chunk.size, MEMORY_TYPE_FREE)
    <3>1. ListOK(memory_ranges) /\ ListOK(memory_ranges') /\ WholePages(chunk.start, chunk.size)
      BY <2>3 DEF MemoryInv, Block
    <3>2. \A q \in PageSet :
            TypeAt(memory_ranges', q * PAGE_SIZE) =
              IF chunk.start <= q * PAGE_SIZE /\ q * PAGE_SIZE < chunk.start + chunk.size
              THEN MEMORY_TYPE_FREE ELSE TypeAt(memory_ranges, q * PAGE_SIZE)
      BY <2>3, <3>1, PagesUpdated, InternalType
    <3> QED BY <3>2 DEF TypesOf, PagesWith
  <2>6. phase' = "run"
    BY <2>1
  <2>7. PM!Release(chunk)
    BY <2>1, <2>2, <2>4, <2>5, <2>6, LiftRelease
  <2> QED BY <2>4, <2>7
<1>2. CASE ~FreeAccepts(memory_ranges, chunk)
  <2>1. UNCHANGED <<memory_ranges, phase, held, large_chunks, want>>
    BY <1>2 DEF FreeLarge
  <2>2. Live' = Live
    BY <2>1, SameLive DEF Finalizing
  <2>3. UNCHANGED PM!vars
    BY <2>1, <2>2, LiftQuiet
  <2> QED BY <2>3
<1> QED BY <1>1, <1>2

(* memory_finalize().                                                      *)
LEMMA FinalizeRefines ==
  ASSUME MemoryInv, FinalizeStep
  PROVE  PM!Reclaim
<1>1. /\ MemoryInv' /\ Reclaimed(memory_ranges, memory_ranges')
      /\ phase = "finalize" /\ phase' = "finalize"
  BY FinalizeStepStep
<1>2. want' = want /\ UNCHANGED <<held, large_chunks>>
  BY DEF FinalizeStep
<1>3. Live' = Live
  BY <1>1, <1>2, SameLive DEF Finalizing
<1>4. ASSUME NEW p \in PageSet
      PROVE  \/ TypesOf(memory_ranges')[p] = TypesOf(memory_ranges)[p]
             \/ /\ TypesOf(memory_ranges)[p] = MEMORY_TYPE_INTERNAL
                /\ TypesOf(memory_ranges')[p] = MEMORY_TYPE_FREE
  <2> DEFINE s == memory_ranges
             t == memory_ranges'
             x == p * PAGE_SIZE
  <2>1. ListOK(s) /\ ListOK(t) /\ Reclaimed(s, t)
    BY <1>1 DEF MemoryInv
  <2> HIDE DEF s, t
  <2>2. /\ x \in Int
        /\ \A ty \in MemoryTypes : TypesOf(s)[p] = ty <=> Holds(s, x, ty)
        /\ TypesOf(s)[p] = NoMemory <=> \A ty \in MemoryTypes : ~Holds(s, x, ty)
        /\ \A ty \in MemoryTypes : TypesOf(t)[p] = ty <=> Holds(t, x, ty)
        /\ TypesOf(t)[p] = NoMemory <=> \A ty \in MemoryTypes : ~Holds(t, x, ty)
    BY <2>1, PageTypes
  <2> HIDE DEF x
  <2>3. MEMORY_TYPE_FREE \in MemoryTypes /\ MEMORY_TYPE_INTERNAL \in MemoryTypes
    BY InternalType
  <2>4. \A ty :
          /\ Holds(s, x, ty) =>
               Holds(t, x, ty) \/ (ty = MEMORY_TYPE_INTERNAL /\ Holds(t, x, MEMORY_TYPE_FREE))
          /\ Holds(t, x, ty) =>
               Holds(s, x, ty) \/ (ty = MEMORY_TYPE_FREE /\ Holds(s, x, MEMORY_TYPE_INTERNAL))
    BY <2>1, <2>2 DEF Reclaimed
  <2>5. CASE \E ty \in MemoryTypes : Holds(s, x, ty)
    BY <2>2, <2>3, <2>4, <2>5 DEF s, t
  <2>6. CASE \A ty \in MemoryTypes : ~Holds(s, x, ty)
    <3>1. \A ty \in MemoryTypes : ~Holds(t, x, ty)
      BY <2>3, <2>4, <2>6
    <3> QED BY <2>2, <2>6, <3>1 DEF s, t
  <2> QED BY <2>5, <2>6
<1> QED BY <1>1, <1>2, <1>3, <1>4, LiftReclaim

(* Steps that change nothing the page map shows.                           *)
LEMMA StutterRefines ==
  ASSUME MemoryInv,
         \/ UNCHANGED vars
         \/ ProbeDone \/ ProtectEnd \/ FinalizeEnd
         \/ \E a \in Areas : ProtectBegin(a)
         \/ \E b \in held : FreeLargeTwice(b.start)
  PROVE  UNCHANGED PM!vars
<1>1. UNCHANGED <<memory_ranges, held, large_chunks, want>>
  BY DEF vars, ProbeDone, ProtectEnd, FinalizeEnd, ProtectBegin, FreeLargeTwice
<1>2. \/ phase' = phase
      \/ phase = "probe" /\ phase' = "protect"
      \/ phase = "finalize" /\ phase' = "done"
  <2>1. ASSUME FinalizeEnd PROVE phase = "finalize" /\ phase' = "done"
    <3>1. loop.op = "finalize" /\ phase' = "done"
      BY <2>1 DEF FinalizeEnd
    <3> QED BY <3>1 DEF MemoryInv, LoopInv, ProtectLoop, Idle
  <2> QED BY <2>1 DEF vars, ProbeDone, ProtectEnd, ProtectBegin, FreeLargeTwice
<1>3. Finalizing' = Finalizing /\ Stage(phase') = Stage(phase)
  BY <1>2 DEF Finalizing, Stage
<1>4. Live' = Live
  BY <1>1, <1>3, SameLive
<1> QED BY <1>1, <1>3, <1>4, LiftQuiet

LEMMA MemoryRefines ==
  ASSUME MemoryInv, MemoryInv', PlacesComputed, [Next]_vars
  PROVE  [PM!Next]_(PM!vars)
<1> DEFINE Done == PM!Next \/ UNCHANGED PM!vars
<1>1. CASE UNCHANGED vars
  BY <1>1, StutterRefines
<1>2. CASE \E e \in Entries : ProbeAdd(e)
  <2>1. phase \in {"probe", "protect"} /\ UNCHANGED <<phase, held, large_chunks, want>>
    BY <1>2 DEF ProbeAdd
  <2>2. PM!Probe
    BY <2>1, ProbeRefines
  <2> QED BY <2>2 DEF PM!Next
<1>3. CASE ProbeDone \/ \E a \in Areas : ProtectBegin(a)
  BY <1>3, StutterRefines
<1>4. CASE \E a \in Reservations : Reserve(a)
  <2>1. phase \in {"probe", "protect"} /\ UNCHANGED <<phase, held, large_chunks, want>>
    BY <1>4 DEF Reserve
  <2>2. PM!Probe
    BY <2>1, ProbeRefines
  <2> QED BY <2>2 DEF PM!Next
<1>5. CASE InitDone
  <2>1. phase = "protect" /\ phase' = "run"
        /\ UNCHANGED <<memory_ranges, held, large_chunks, want>>
    BY <1>5 DEF InitDone
  <2>2. Live' = Live
    BY <2>1, SameLive DEF Finalizing
  <2>3. PM!Start
    BY <2>1, <2>2, LiftStart
  <2> QED BY <2>3 DEF PM!Next
<1>6. ASSUME NEW req \in Calls, PM!Alloc(req) \/ PM!Fail(req) PROVE Done
  <2> HIDE DEF PM!Alloc, PM!Fail
  <2> QED BY <1>6, Zenon DEF PM!Next, Calls
<1>7. ASSUME NEW call \in AllocRequests, MemoryAlloc(call) \/ AllocFails(call)
      PROVE  Done
  <2> DEFINE req == WithDefaults(call)
  <2>1. GoodRequest(req) /\ Computed(memory_ranges, req) /\ req \in Calls
    BY CallsGood DEF PlacesComputed, Calls
  <2>2. CASE MemoryAlloc(call)
    <3>1. /\ phase = "run" /\ FindRange(memory_ranges, req) # 0
          /\ memory_ranges' = Place(memory_ranges, req).map
          /\ Given' = Given \cup {Place(memory_ranges, req).block}
          /\ UNCHANGED <<phase, want>>
      BY <2>2 DEF MemoryAlloc, CanRun, Given
    <3> HIDE DEF req
    <3>2. PM!Alloc(req)
      BY <2>1, <3>1, AllocRefines
    <3> QED BY <1>6, <2>1, <3>2
  <2>3. CASE AllocFails(call)
    <3>1. Insufficient(req)
      BY <2>3 DEF AllocFails
    <3> HIDE DEF req
    <3>2. PM!Fail(req)
      BY <2>1, <3>1, FailRefines
    <3> QED BY <1>6, <2>1, <3>2
  <2> QED BY <1>7, <2>2, <2>3
<1>8. ASSUME NEW size \in LargeSizes, MallocLarge(size) \/ MallocLargeFails(size)
      PROVE  Done
  <2> DEFINE req == LargeRequest(size)
  <2>1. GoodRequest(req) /\ Computed(memory_ranges, req) /\ req \in Calls
    BY CallsGood DEF PlacesComputed, Calls
  <2>2. CASE MallocLarge(size)
    <3>1. /\ phase = "run" /\ FindRange(memory_ranges, req) # 0
          /\ memory_ranges' = Place(memory_ranges, req).map
          /\ Given' = Given \cup {Place(memory_ranges, req).block}
          /\ UNCHANGED <<phase, want>>
      BY <2>2 DEF MallocLarge, CanRun, Given
    <3> HIDE DEF req
    <3>2. PM!Alloc(req)
      BY <2>1, <3>1, AllocRefines
    <3> QED BY <1>6, <2>1, <3>2
  <2>3. CASE MallocLargeFails(size)
    <3>1. Insufficient(req)
      BY <2>3 DEF MallocLargeFails
    <3> HIDE DEF req
    <3>2. PM!Fail(req)
      BY <2>1, <3>1, FailRefines
    <3> QED BY <1>6, <2>1, <3>2
  <2> QED BY <1>8, <2>2, <2>3
<1>9. ASSUME NEW chunk \in large_chunks, FreeLarge(chunk) PROVE Done
  <2>1. UNCHANGED PM!vars \/ (chunk \in Live /\ PM!Release(chunk))
    BY <1>9, FreeRefines
  <2> HIDE DEF PM!Release
  <2> QED BY <2>1, Zenon DEF PM!Next
<1>10. CASE \E b \in held : FreeLargeTwice(b.start)
  BY <1>10, StutterRefines
<1>11. CASE FinalizeBegin
  <2>1. /\ phase = "run" /\ phase' = "finalize"
        /\ UNCHANGED <<memory_ranges, held, large_chunks, want>>
    BY <1>11 DEF FinalizeBegin, CanRun
  <2>2. Live' = {b \in Live : b.type # MEMORY_TYPE_INTERNAL}
    BY <2>1 DEF Live, Finalizing
  <2>3. PM!Finish
    BY <2>1, <2>2, LiftFinish
  <2> QED BY <2>3 DEF PM!Next
<1>12. CASE LoopStep
  <2>1. CASE ProtectStep
    <3>1. loop.op = "protect" /\ UNCHANGED <<phase, held, large_chunks, want>>
      BY <2>1 DEF ProtectStep
    <3>2. phase \in {"probe", "protect"}
      BY <3>1 DEF MemoryInv, LoopInv, FinalizeLoop, Idle
    <3>3. PM!Probe
      BY <3>1, <3>2, ProbeRefines
    <3> QED BY <3>3 DEF PM!Next
  <2>2. CASE FinalizeStep
    <3>1. PM!Reclaim
      BY <2>2, FinalizeRefines
    <3> QED BY <3>1 DEF PM!Next
  <2>3. CASE ProtectEnd \/ FinalizeEnd
    BY <2>3, StutterRefines
  <2> QED BY <1>12, <2>1, <2>2, <2>3 DEF LoopStep
<1>13. Done
  <2> HIDE DEF Done
  <2> QED BY <1>1, <1>2, <1>3, <1>4, <1>5, <1>7, <1>8, <1>9, <1>10, <1>11, <1>12 DEF Next, Done
<1> HIDE DEF PM!Next
<1> QED BY <1>13

LEMMA MemoryMapsInit == Init => PM!Init
<1> SUFFICES ASSUME Init PROVE PM!Init
  OBVIOUS
<1>1. memory_ranges = <<>> /\ phase = "probe" /\ held = {} /\ large_chunks = {} /\ want = {}
  BY DEF Init
<1>2. Live = {} /\ Stage(phase) = "probe"
  BY <1>1 DEF Live, Stage, Finalizing
<1>3. ListOK(memory_ranges)
  BY MemoryStarts DEF MemoryInv
<1>4. TypesOf(memory_ranges) = [p \in PageSet |-> NoMemory]
  <2>1. \A p \in PageSet : TypesOf(memory_ranges)[p] = NoMemory
    <3>1. \A x, ty : ~Holds(memory_ranges, x, ty)
      BY <1>1 DEF Holds
    <3> QED BY <1>3, <3>1, PageTypes
  <2> QED BY <2>1 DEF TypesOf
<1> QED BY <1>1, <1>2, <1>4 DEF PM!Init, TypesOf, PageSet, Stage

(* The manager implements the page map: an allocation goes to the lowest   *)
(* (or highest) run of free pages that satisfies it, fails only if there   *)
(* is none, and no step changes a page it does not own.                    *)
THEOREM MemoryImplementsPageMap == Spec /\ []PlacesComputed => ImplementsPageMap
<1>1. MemoryInv /\ MemoryInv' /\ PlacesComputed /\ [Next]_vars => [PM!Next]_(PM!vars)
  BY MemoryRefines
<1> QED BY <1>1, MemoryMapsInit, MemoryInvariant, PTL DEF Spec, ImplementsPageMap, PM!Spec

-----------------------------------------------------------------------------
(***************************************************************************)
(* Memory on EFI.  The firmware's descriptors are the longest runs of      *)
(* pages of one type, and a block of whole pages is a run of page numbers. *)
(***************************************************************************)
Dom == DOMAIN FirmwareMap

FwMap == fw \in [Dom -> FwTypes]

LEMMA DescriptorsFact ==
  /\ \A d \in Descriptors :
       \E p, q \in DOMAIN fw : Longest(p, q) /\ d = Descriptor(p, q)
  /\ \A p, q \in DOMAIN fw : Longest(p, q) => Descriptor(p, q) \in Descriptors
<1> DEFINE LastPages(p) == {q \in DOMAIN fw : Longest(p, q)}
           From(p) == {Descriptor(p, q) : q \in LastPages(p)}
<1>1. Descriptors = UNION {From(p) : p \in DOMAIN fw}
  BY DEF Descriptors
<1>2. \A d \in Descriptors : \E p \in DOMAIN fw : d \in From(p)
  BY <1>1
<1>3. \A p \in DOMAIN fw : From(p) \subseteq Descriptors
  BY <1>1
<1> QED BY <1>2, <1>3, Zenon

LEMMA DomFact ==
  ASSUME FwMap
  PROVE  /\ DOMAIN fw = Dom /\ Dom \subseteq PageSet
         /\ \A p \in Dom : p \in Nat /\ p \in PageSet /\ fw[p] \in FwTypes
         /\ \A p, q \in Dom : p <= q /\ (\A r \in p .. q : r \in Dom) => (q - p + 1) * PAGE_SIZE < AddrMod
<1>1. DOMAIN fw = Dom /\ Dom \subseteq PageSet /\ Dom # PageSet /\ PageSet \subseteq Nat
      /\ \A p \in Dom : fw[p] \in FwTypes
  BY EfiAssumption DEF FwMap, Dom, PageSet
<1>2. ASSUME NEW p \in Dom, NEW q \in Dom, p <= q, \A r \in p .. q : r \in Dom
      PROVE  (q - p + 1) * PAGE_SIZE < AddrMod
  <2>1. p \in Nat /\ q \in Nat /\ p \in PageSet /\ q \in PageSet
    BY <1>1
  <2>2. PICK x \in PageSet : x \notin Dom
    BY <1>1
  <2>3. x \in Nat /\ ~(p <= x /\ x <= q)
    BY <1>1, <1>2, <2>1, <2>2
  <2> DEFINE n == AddrMod \div PAGE_SIZE
  <2>4. n \in Nat /\ PageSet = 0 .. n - 1 /\ AddrMod = PAGE_SIZE * n
    <3>1. AddrMod \in Nat /\ AddrMod % PAGE_SIZE = 0
      BY AddressSpaceAssumption
    <3>2. n \in Nat /\ AddrMod = PAGE_SIZE * n + (AddrMod % PAGE_SIZE)
      BY <3>1, PageSize, DivMod
    <3>3. PAGE_SIZE * n \in Nat
      BY <3>2, PageSize
    <3> HIDE DEF n
    <3>4. AddrMod = PAGE_SIZE * n
      BY <3>1, <3>2, <3>3
    <3>5. PageSet = 0 .. n - 1
      BY DEF PageSet, n
    <3> QED BY <3>2, <3>4, <3>5
  <2> HIDE DEF n
  <2>5. q < n /\ x < n /\ q - p + 1 \in Nat
    BY <1>2, <2>1, <2>2, <2>3, <2>4
  <2>6. PICK d \in Nat : n = (q - p + 1) + d + 1
    <3>1. n - (q - p + 1) - 1 \in Nat
      BY <2>1, <2>3, <2>4, <2>5
    <3>2. n = (q - p + 1) + (n - (q - p + 1) - 1) + 1
      BY <2>4, <2>5
    <3> QED BY <3>1, <3>2
  <2> DEFINE k == q - p + 1
  <2>7. k \in Nat
    BY <2>5
  <2> HIDE DEF k
  <2>8. AddrMod = PAGE_SIZE * k + PAGE_SIZE * d + PAGE_SIZE
    BY <2>4, <2>6, <2>7, PageSize DEF k
  <2>9. k * PAGE_SIZE = PAGE_SIZE * k /\ PAGE_SIZE * k \in Nat /\ PAGE_SIZE * d \in Nat
    BY <2>6, <2>7, PageSize
  <2>10. k * PAGE_SIZE < AddrMod
    BY <2>8, <2>9, PageSize
  <2> QED BY <2>10 DEF k
<1> QED BY <1>1, <1>2

(* The number of an aligned address, and what the order of page numbers    *)
(* says about addresses.                                                   *)
LEMMA PageOrder ==
  /\ \A p, q \in Int : p <= q => p * PAGE_SIZE <= q * PAGE_SIZE
  /\ \A p, q \in Int : p < q => p * PAGE_SIZE + PAGE_SIZE <= q * PAGE_SIZE
  /\ \A p, q \in Int : p * PAGE_SIZE <= q * PAGE_SIZE => p <= q
  /\ \A p, q \in Int : p * PAGE_SIZE < q * PAGE_SIZE => p < q
<1>0. PAGE_SIZE \in Nat /\ PAGE_SIZE > 0
  BY PageSize
<1>1. ASSUME NEW p \in Int, NEW q \in Int, p <= q PROVE p * PAGE_SIZE <= q * PAGE_SIZE
  <2>1. PICK d \in Nat : q = p + d
    <3>1. q - p \in Nat /\ q = p + (q - p)
      BY <1>1
    <3> QED BY <3>1
  <2>2. q * PAGE_SIZE = p * PAGE_SIZE + d * PAGE_SIZE /\ d * PAGE_SIZE \in Nat /\ p * PAGE_SIZE \in Int
    BY <2>1, <1>0
  <2> QED BY <2>2
<1>2. ASSUME NEW p \in Int, NEW q \in Int, p < q PROVE p * PAGE_SIZE + PAGE_SIZE <= q * PAGE_SIZE
  <2>1. (p + 1) * PAGE_SIZE <= q * PAGE_SIZE
    <3>1. p + 1 \in Int /\ p + 1 <= q
      BY <1>2
    <3> QED BY <1>1, <3>1
  <2>2. (p + 1) * PAGE_SIZE = p * PAGE_SIZE + PAGE_SIZE
    BY <1>0
  <2> QED BY <2>1, <2>2
<1>3. ASSUME NEW p \in Int, NEW q \in Int, p * PAGE_SIZE <= q * PAGE_SIZE PROVE p <= q
  <2>1. CASE q < p
    <3>1. q * PAGE_SIZE + PAGE_SIZE <= p * PAGE_SIZE
      BY <1>2, <2>1
    <3>2. p * PAGE_SIZE \in Int /\ q * PAGE_SIZE \in Int
      BY <1>0
    <3> QED BY <1>0, <1>3, <3>1, <3>2
  <2> QED BY <2>1
<1>4. ASSUME NEW p \in Int, NEW q \in Int, p * PAGE_SIZE < q * PAGE_SIZE PROVE p < q
  <2>1. CASE q <= p
    <3>1. q * PAGE_SIZE <= p * PAGE_SIZE
      BY <1>1, <2>1
    <3>2. p * PAGE_SIZE \in Int /\ q * PAGE_SIZE \in Int
      BY <1>0
    <3> QED BY <1>0, <1>4, <3>1, <3>2
  <2> QED BY <2>1
<1> QED BY <1>1, <1>2, <1>3, <1>4

(* Two descriptors are one or apart. *)
LEMMA DescriptorsApart ==
  ASSUME FwMap, NEW p \in Dom, NEW q \in Dom, NEW u \in Dom, NEW v \in Dom,
         Longest(p, q), Longest(u, v), p <= u
  PROVE  (p = u /\ q = v) \/ q < u
<1>1. /\ p \in Nat /\ q \in Nat /\ u \in Nat /\ v \in Nat
      /\ p <= q /\ u <= v
      /\ \A r \in p .. q : r \in DOMAIN fw /\ fw[r] = fw[p]
      /\ \A r \in u .. v : r \in DOMAIN fw /\ fw[r] = fw[u]
      /\ u - 1 \notin DOMAIN fw \/ fw[u - 1] # fw[u]
      /\ q + 1 \notin DOMAIN fw \/ fw[q + 1] # fw[p]
      /\ v + 1 \notin DOMAIN fw \/ fw[v + 1] # fw[u]
  BY DomFact DEF Longest, OneType
<1>2. CASE u <= q
  <2>1. fw[u] = fw[p]
    BY <1>1, <1>2
  <2>2. p = u
    <3>1. CASE p < u
      <4>1. u - 1 \in p .. q
        BY <1>1, <1>2, <3>1
      <4> QED BY <1>1, <2>1, <4>1
    <3> QED BY <1>1, <3>1
  <2>3. ~(q < v)
    <3>1. ASSUME q < v PROVE FALSE
      <4>1. q + 1 \in u .. v
        BY <1>1, <1>2, <3>1
      <4> QED BY <1>1, <2>1, <4>1
    <3> QED BY <3>1
  <2>4. ~(v < q)
    <3>1. ASSUME v < q PROVE FALSE
      <4>1. v + 1 \in p .. q
        BY <1>1, <2>2, <3>1
      <4> QED BY <1>1, <2>1, <4>1
    <3> QED BY <3>1
  <2> QED BY <1>1, <2>2, <2>3, <2>4
<1> QED BY <1>1, <1>2

(* A page lies in a descriptor with all pages of its type around it.       *)
LEMMA RunInDescriptor ==
  ASSUME FwMap, NEW u \in Dom, NEW v \in Dom, u <= v, OneType(u, v)
  PROVE  \E p, q \in Dom : /\ Longest(p, q) /\ p <= u /\ v <= q /\ fw[p] = fw[u]
<1>1. /\ DOMAIN fw = Dom /\ u \in Nat /\ v \in Nat /\ \A x \in Dom : x \in Nat
      /\ \A r \in u .. v : r \in Dom /\ fw[r] = fw[u]
  BY DomFact DEF OneType
<1> DEFINE Same(x) == x \in Dom /\ fw[x] = fw[u]
           T == {x \in Nat : v <= x /\ ~Same(x + 1)}
           B == {k \in Nat : k <= u /\ ~Same(u - k - 1)}
<1>2. T # {}
  <2>1. PICK n \in Nat : \A x \in Dom : x < n
    <3> DEFINE n == AddrMod \div PAGE_SIZE
    <3>1. n \in Nat
      <4>1. AddrMod \in Nat
        BY AddressSpaceAssumption
      <4> QED BY <4>1, PageSize, DivMod
    <3>2. Dom \subseteq 0 .. n - 1
      BY EfiAssumption DEF Dom
    <3> HIDE DEF n
    <3> QED BY <3>1, <3>2
  <2>2. v + n \in Nat /\ v <= v + n /\ ~(v + n + 1 < n)
    BY <1>1, <2>1
  <2>3. v + n + 1 \notin Dom
    BY <2>1, <2>2
  <2> QED BY <2>2, <2>3
<1>3. B # {}
  <2>1. u - u - 1 = -1 /\ -1 \notin Nat
    BY <1>1
  <2>2. ~Same(u - u - 1)
    BY <1>1, <2>1
  <2> QED BY <1>1, <2>2
<1>4. T \subseteq Nat /\ B \subseteq Nat
  OBVIOUS
<1> DEFINE q == Min(T)
           k == Min(B)
           p == u - k
<1>5. q \in T /\ \A y \in T : q <= y
  <2> HIDE DEF T
  <2> QED BY <1>2, <1>4, MinElement
<1>6. k \in B /\ \A y \in B : k <= y
  <2> HIDE DEF B
  <2> QED BY <1>3, <1>4, MinElement
<1> HIDE DEF q, k
<1>7. q \in Nat /\ v <= q /\ ~Same(q + 1) /\ k \in Nat /\ k <= u /\ ~Same(p - 1) /\ p \in Nat /\ p <= u
  <2>1. q \in Nat /\ v <= q /\ ~Same(q + 1)
    BY <1>5
  <2>2. k \in Nat /\ k <= u /\ ~Same(u - k - 1)
    BY <1>6
  <2>3. p \in Nat /\ p <= u
    BY <1>1, <2>2
  <2> QED BY <2>1, <2>2, <2>3
<1>8. ASSUME NEW r \in Int, p <= r, r <= q PROVE Same(r)
  <2>1. CASE r < u
    <3> DEFINE j == u - r - 1
    <3>1. j \in Nat /\ j <= u /\ j < k /\ u - j - 1 = r
      BY <1>1, <1>7, <1>8, <2>1
    <3>2. j \notin B
      <4> HIDE DEF B, j
      <4>1. k \in Int /\ j \in Int
        BY <1>7, <3>1
      <4>2. ~(k <= j)
        BY <3>1, <4>1
      <4> QED BY <1>6, <4>2
    <3> HIDE DEF j
    <3> QED BY <3>1, <3>2
  <2>2. CASE u <= r /\ r <= v
    BY <1>1, <2>2
  <2>3. CASE v < r
    <3> DEFINE j == r - 1
    <3>1. j \in Nat /\ v <= j /\ j < q /\ j + 1 = r
      BY <1>1, <1>7, <1>8, <2>3
    <3>2. j \notin T
      <4> HIDE DEF T, j
      <4>1. ~(q <= j)
        BY <1>7, <3>1
      <4> QED BY <1>5, <4>1
    <3> HIDE DEF j
    <3> QED BY <3>1, <3>2
  <2> QED BY <1>1, <2>1, <2>2, <2>3
<1>9. Same(p) /\ Same(q) /\ p <= q
  <2>1. p <= q
    BY <1>1, <1>7
  <2>2. p <= p /\ q <= q /\ p \in Int /\ q \in Int
    BY <1>7
  <2> QED BY <1>8, <2>1, <2>2
<1>10. \A r \in p .. q : r \in DOMAIN fw /\ fw[r] = fw[p]
  <2> TAKE r \in p .. q
  <2>1. r \in Int /\ p <= r /\ r <= q
    BY <1>7
  <2> QED BY <1>1, <1>8, <1>9, <2>1
<1>11. Longest(p, q)
  BY <1>1, <1>7, <1>9, <1>10 DEF Longest, OneType
<1> QED BY <1>7, <1>9, <1>11

(* The pages of a block that starts at page f and has c pages.             *)
LEMMA BlockPages ==
  ASSUME FwMap, NEW f \in Nat, NEW c \in Nat, c # 0,
         NEW b, b.start = f * PAGE_SIZE, b.size = c * PAGE_SIZE
  PROVE  /\ PagesOf(b) = {p \in Dom : f <= p /\ p <= f + c - 1}
         /\ Covered(b) <=> f .. f + c - 1 \subseteq Dom
<1> DEFINE P == PagesOf(b)
           I == f .. f + c - 1
<1>1. DOMAIN fw = Dom /\ \A p \in Dom : p \in Nat
  BY DomFact
<1>2. ASSUME NEW p \in Dom
      PROVE  b.start <= p * PAGE_SIZE /\ p * PAGE_SIZE < b.start + b.size <=> f <= p /\ p <= f + c - 1
  <2>1. p \in Int /\ f \in Int /\ f + c \in Int
    BY <1>1
  <2>2. f * PAGE_SIZE + c * PAGE_SIZE = (f + c) * PAGE_SIZE
    BY PageSize
  <2>3. f * PAGE_SIZE <= p * PAGE_SIZE <=> f <= p
    BY <2>1, PageOrder
  <2>4. p * PAGE_SIZE < (f + c) * PAGE_SIZE <=> p < f + c
    <3>1. CASE p < f + c
      <4>1. p * PAGE_SIZE + PAGE_SIZE <= (f + c) * PAGE_SIZE
        BY <2>1, <3>1, PageOrder
      <4>2. p * PAGE_SIZE \in Int /\ (f + c) * PAGE_SIZE \in Int
        BY <2>1, PageSize
      <4> QED BY <3>1, <4>1, <4>2, PageSize
    <3>2. CASE ~(p < f + c)
      BY <2>1, <3>2, PageOrder
    <3> QED BY <3>1, <3>2
  <2> QED BY <2>1, <2>2, <2>3, <2>4
<1>3. P = {p \in Dom : f <= p /\ p <= f + c - 1}
  BY <1>1, <1>2 DEF PagesOf
<1>4. P \in SUBSET I
  <2>1. \A p \in P : p \in I
    BY <1>1, <1>3
  <2> QED BY <2>1
<1>5. IsFiniteSet(I) /\ Cardinality(I) = c
  <2>1. f \in Int /\ f + c - 1 \in Int /\ ~(f > f + c - 1) /\ (f + c - 1) - f + 1 = c
    OBVIOUS
  <2>2. IsFiniteSet(I) /\ Cardinality(I) = IF f > f + c - 1 THEN 0 ELSE (f + c - 1) - f + 1
    BY <2>1, FS_Interval
  <2> HIDE DEF I
  <2> QED BY <2>1, <2>2
<1>6. IsFiniteSet(P) /\ (Cardinality(I) = Cardinality(P) => I = P)
  <2> HIDE DEF P, I
  <2> QED BY <1>4, <1>5, FS_Subset
<1>7. Cardinality(P) \in Nat
  BY <1>6, FS_CardinalityType
<1>8. Covered(b) <=> Cardinality(P) = c
  <2> DEFINE n == Cardinality(P)
  <2>1. Covered(b) <=> n * PAGE_SIZE = c * PAGE_SIZE
    BY DEF Covered
  <2>2. n \in Nat
    BY <1>7
  <2> HIDE DEF n
  <2>3. n * PAGE_SIZE = c * PAGE_SIZE <=> n = c
    <3>1. ASSUME n * PAGE_SIZE = c * PAGE_SIZE PROVE n = c
      <4>1. n * PAGE_SIZE \in Int /\ c * PAGE_SIZE \in Int
        BY <2>2, PageSize
      <4>2. n <= c /\ c <= n
        <5>1. n * PAGE_SIZE <= c * PAGE_SIZE /\ c * PAGE_SIZE <= n * PAGE_SIZE
          BY <3>1, <4>1
        <5> QED BY <2>2, <5>1, PageOrder
      <4> QED BY <2>2, <4>2
    <3> QED BY <3>1
  <2> QED BY <2>1, <2>3 DEF n
<1>9. ASSUME I \subseteq Dom PROVE P = I
  <2>1. \A p \in I : p \in P
    BY <1>3, <1>9
  <2> QED BY <1>4, <2>1
<1>10. P = I => I \subseteq Dom
  BY <1>3
<1> HIDE DEF P, I
<1>11. Covered(b) <=> P = I
  BY <1>5, <1>6, <1>8
<1>12. Covered(b) <=> I \subseteq Dom
  BY <1>9, <1>10, <1>11
<1> QED BY <1>3, <1>12 DEF P, I

(* Whole pages have page numbers. *)
LEMMA PageCount ==
  ASSUME NEW x \in Nat, x % PAGE_SIZE = 0
  PROVE  \E f \in Nat : x = f * PAGE_SIZE
<1> DEFINE f == x \div PAGE_SIZE
<1>1. f \in Nat /\ x = PAGE_SIZE * f + (x % PAGE_SIZE)
  BY PageSize, DivMod
<1> HIDE DEF f
<1>2. PAGE_SIZE * f \in Nat /\ PAGE_SIZE * f = f * PAGE_SIZE
  BY <1>1, PageSize
<1>3. x = f * PAGE_SIZE
  BY <1>1, <1>2
<1> QED BY <1>1, <1>3

-----------------------------------------------------------------------------
(* is_suitable_range() sees a descriptor as it sees a free range of memory *)
(* of source/memory.c.                                                     *)
Span(d) == [start |-> d.start, size |-> d.size, type |-> MEMORY_TYPE_FREE]

LEMMA SpanFact ==
  ASSUME FwMap, NEW p \in Dom, NEW q \in Dom, Longest(p, q), NEW d, d = Descriptor(p, q)
  PROVE  /\ Span(d) \in MemoryRange
         /\ d.start = p * PAGE_SIZE /\ d.type = fw[p]
         /\ EndOf(Span(d)) = (q + 1) * PAGE_SIZE - 1
<1> DEFINE st == p * PAGE_SIZE
           n == (q - p + 1) * PAGE_SIZE
<1>1. d.start = st /\ d.size = n /\ d.type = fw[p]
  BY DEF Descriptor
<1>2. /\ p \in Nat /\ q \in Nat /\ p \in PageSet /\ q \in PageSet /\ p <= q
      /\ n < AddrMod
  BY DomFact DEF Longest, OneType
<1>3. /\ st \in Nat /\ st < AddrMod /\ q * PAGE_SIZE \in Nat /\ q * PAGE_SIZE < AddrMod
      /\ (q * PAGE_SIZE) % PAGE_SIZE = 0
  BY <1>2, PageNumbers
<1>4. q * PAGE_SIZE + PAGE_SIZE <= AddrMod
  <2> DEFINE y == q * PAGE_SIZE
  <2>1. y \in Int /\ AddrMod \in Int /\ y < AddrMod /\ y % PAGE_SIZE = 0 /\ AddrMod % PAGE_SIZE = 0
    BY <1>3, AddressSpaceAssumption
  <2> HIDE DEF y
  <2>2. y + PAGE_SIZE <= AddrMod
    BY <2>1, PageSize, MultipleGap
  <2> QED BY <2>2 DEF y
<1>5. /\ st + n = q * PAGE_SIZE + PAGE_SIZE
      /\ (q + 1) * PAGE_SIZE = q * PAGE_SIZE + PAGE_SIZE
  BY <1>2, PageSize
<1>6. n \in Nat
  <2>1. q - p + 1 \in Nat
    BY <1>2
  <2> QED BY <2>1, PageSize
<1> HIDE DEF st, n
<1>7. st \in Addr /\ n \in Addr /\ st + n - 1 \in Addr
  BY <1>2, <1>3, <1>4, <1>5, <1>6, AddrNat, PageSize
<1>8. Span(d) \in MemoryRange /\ Span(d).start = st /\ Span(d).size = n
  BY <1>1, <1>7, InternalType DEF Span, MemoryRange
<1>9. EndOf(Span(d)) = st + n - 1
  BY <1>7, <1>8, WrapSmall DEF EndOf
<1>10. EndOf(Span(d)) = (q + 1) * PAGE_SIZE - 1
  <2> DEFINE e == (q + 1) * PAGE_SIZE
  <2>1. st + n = e
    BY <1>5
  <2> HIDE DEF e
  <2>2. EndOf(Span(d)) = e - 1
    BY <1>3, <1>6, <1>9, <2>1
  <2> QED BY <2>2 DEF e
<1> QED BY <1>1, <1>8, <1>10 DEF st

LEMMA SpanSuitable ==
  ASSUME NEW d, NEW req
  PROVE  /\ Suitable(Span(d), req) <=> Suitable(d, req)
         /\ AllocStart(Span(d), req) = AllocStart(d, req)
         /\ Computable(Span(d), req) <=> Computable(d, req)
<1>1. Span(d).start = d.start /\ Span(d).size = d.size
  BY DEF Span
<1>2. EndOf(Span(d)) = EndOf(d)
  BY <1>1 DEF EndOf
<1>3. MatchStart(Span(d), req) = MatchStart(d, req) /\ MatchEnd(Span(d), req) = MatchEnd(d, req)
  BY <1>1, <1>2 DEF MatchStart, MatchEnd
<1>4. AllocStart(Span(d), req) = AllocStart(d, req)
  BY <1>3, Zenon DEF AllocStart
<1>5. Suitable(Span(d), req) <=> Suitable(d, req)
  BY <1>3, <1>4, Zenon DEF Suitable
<1>6. Computable(Span(d), req) <=> Computable(d, req)
  BY <1>3, Zenon DEF Computable
<1> QED BY <1>4, <1>5, <1>6

LEMMA EfiCalls ==
  ASSUME NEW call \in EfiRequests
  PROVE  GoodRequest(WithDefaults(call))
<1>1. /\ call \in [size : Addr, align : Addr, min : Addr, max : Addr,
                   type : MemoryTypes, high : BOOLEAN]
      /\ call.size # 0 /\ call.size % PAGE_SIZE = 0 /\ call.align % PAGE_SIZE = 0
      /\ call.type # MEMORY_TYPE_FREE
  BY EfiAssumption
<1> QED BY <1>1, Defaults

-----------------------------------------------------------------------------
(* All pages of a place are free: PlaceFits() without the address space.   *)
Conventional(f, c) == \A r \in f .. f + c - 1 : r \in Dom /\ fw[r] = "conventional"

(* What memory_alloc() takes is free, in one piece and inside the limits.  *)
LEMMA PlaceInDescriptor ==
  ASSUME FwMap, NEW req, GoodRequest(req), NEW p \in Dom, NEW q \in Dom, Longest(p, q),
         NEW d, d = Descriptor(p, q), d.type = "conventional", NEW a, InPlace(Span(d), req, a)
  PROVE  \E f, c \in Nat :
           /\ c # 0 /\ a = f * PAGE_SIZE /\ req.size = c * PAGE_SIZE
           /\ p <= f /\ f + c - 1 <= q /\ Conventional(f, c)
<1>1. /\ req.size \in Nat /\ req.size >= PAGE_SIZE /\ req.size % PAGE_SIZE = 0
      /\ req.align \in Nat \ {0} /\ req.align % PAGE_SIZE = 0
  BY DEF GoodRequest
<1>2. /\ a \in Nat /\ a % req.align = 0 /\ Span(d).start <= a
      /\ a + req.size - 1 <= EndOf(Span(d))
  BY DEF InPlace
<1>3. a % PAGE_SIZE = 0
  <2>1. a \in Int
    BY <1>2
  <2> QED BY <1>1, <1>2, <2>1, PageSize, MultipleOfMultiple
<1>4. PICK f \in Nat : a = f * PAGE_SIZE
  BY <1>2, <1>3, PageCount
<1>5. PICK c \in Nat : req.size = c * PAGE_SIZE
  BY <1>1, PageCount
<1>6. c # 0
  BY <1>1, <1>5, PageSize
<1>7. Span(d).start = p * PAGE_SIZE /\ EndOf(Span(d)) = (q + 1) * PAGE_SIZE - 1 /\ fw[p] = "conventional"
  BY SpanFact DEF Span
<1>8. p \in Nat /\ q \in Nat /\ DOMAIN fw = Dom
  BY DomFact
<1>9. p <= f
  BY <1>2, <1>4, <1>7, <1>8, PageOrder
<1>10. f + c <= q + 1
  <2>1. (f + c) * PAGE_SIZE = f * PAGE_SIZE + c * PAGE_SIZE
    BY PageSize
  <2>2. (f + c) * PAGE_SIZE \in Int /\ (q + 1) * PAGE_SIZE \in Int /\ f + c \in Int /\ q + 1 \in Int
    BY <1>8, PageSize
  <2>3. (f + c) * PAGE_SIZE - 1 <= (q + 1) * PAGE_SIZE - 1
    <3>1. a + req.size = (f + c) * PAGE_SIZE
      BY <1>4, <1>5, <2>1
    <3> DEFINE e == (f + c) * PAGE_SIZE
               g == (q + 1) * PAGE_SIZE
    <3>2. a + req.size = e /\ e \in Int /\ g \in Int /\ EndOf(Span(d)) = g - 1
      BY <1>7, <2>2, <3>1
    <3> HIDE DEF e, g
    <3>3. e - 1 <= g - 1
      BY <1>1, <1>2, <3>2
    <3> QED BY <3>3 DEF e, g
  <2>4. (f + c) * PAGE_SIZE <= (q + 1) * PAGE_SIZE
    BY <2>2, <2>3
  <2> QED BY <2>2, <2>4, PageOrder
<1>11. Conventional(f, c)
  <2>1. \A r \in p .. q : r \in Dom /\ fw[r] = "conventional"
    BY <1>7, <1>8 DEF Longest, OneType
  <2>2. \A r \in f .. f + c - 1 : r \in p .. q
    BY <1>8, <1>9, <1>10
  <2> QED BY <2>1, <2>2 DEF Conventional
<1> QED BY <1>4, <1>5, <1>6, <1>8, <1>9, <1>10, <1>11

(* The block AllocatePages() is asked for. *)
BlockAt(req, d) == [start |-> AllocStart(d, req), size |-> req.size, type |-> req.type]

LEMMA BlockGranted ==
  ASSUME FwMap, NEW call \in EfiRequests, NEW req, req = WithDefaults(call),
         NEW d \in BestDescriptor(req, Descriptors), Computable(d, req), NEW b, b = BlockAt(req, d)
  PROVE  /\ b \in MemoryRange /\ b.start \in Nat
         /\ Granted(b)
<1>1. GoodRequest(req)
  BY EfiCalls
<1>2. d \in Descriptors /\ d.type = "conventional" /\ Suitable(d, req)
  BY DEF BestDescriptor, EfiSuitable
<1>3. PICK p, q \in Dom : Longest(p, q) /\ d = Descriptor(p, q)
  BY <1>2, DescriptorsFact, DomFact
<1>4. Span(d) \in MemoryRange /\ EndOf(Span(d)) \in Nat /\ EndOf(Span(d)) < AddrMod
  <2>1. Span(d) \in MemoryRange
    BY <1>3, SpanFact
  <2> QED BY <2>1, RangeFields, AddrNat
<1>5. InPlace(Span(d), req, AllocStart(d, req))
  <2>1. Suitable(Span(d), req) /\ Computable(Span(d), req) /\ AllocStart(Span(d), req) = AllocStart(d, req)
    BY <1>2, SpanSuitable
  <2>2. InPlace(Span(d), req, AllocStart(Span(d), req))
    BY <1>1, <1>4, <2>1, SuitablePlace
  <2> QED BY <2>1, <2>2
<1>6. PICK f, c \in Nat : /\ c # 0 /\ AllocStart(d, req) = f * PAGE_SIZE /\ req.size = c * PAGE_SIZE
                          /\ Conventional(f, c)
  BY <1>1, <1>2, <1>3, <1>5, PlaceInDescriptor
<1>7. b.start = AllocStart(d, req) /\ b.size = req.size /\ b.type = req.type
  BY DEF BlockAt
<1>8. PagesOf(b) = {x \in Dom : f <= x /\ x <= f + c - 1} /\ (Covered(b) <=> f .. f + c - 1 \subseteq Dom)
  BY <1>6, <1>7, BlockPages
<1>9. Covered(b) /\ \A x \in PagesOf(b) : fw[x] = "conventional"
  <2>1. \A x \in Dom : x \in Nat
    BY DomFact
  <2>2. \A x \in f .. f + c - 1 : x \in Dom /\ fw[x] = "conventional"
    BY <1>6 DEF Conventional
  <2>3. \A x \in PagesOf(b) : x \in f .. f + c - 1
    BY <1>8, <2>1
  <2> QED BY <1>8, <2>2, <2>3
<1>10. b \in MemoryRange /\ b.start \in Nat
  <2> DEFINE a == AllocStart(d, req)
  <2>1. a \in Nat /\ a + req.size - 1 <= EndOf(Span(d))
    BY <1>5 DEF InPlace
  <2>2. req.size \in Nat /\ req.size < AddrMod /\ req.type \in MemoryTypes /\ req.size >= PAGE_SIZE
    BY <1>1 DEF GoodRequest
  <2> HIDE DEF a
  <2>3. a \in Addr /\ req.size \in Addr
    BY <1>4, <2>1, <2>2, AddrNat, PageSize
  <2> QED BY <2>1, <2>2, <2>3 DEF MemoryRange, BlockAt, a
<1>11. b.start % PAGE_SIZE = 0
  <2>1. f * PAGE_SIZE = PAGE_SIZE * f /\ f \in Int
    BY PageSize
  <2>2. (PAGE_SIZE * f) % PAGE_SIZE = 0
    BY <2>1, PageSize, Multiple
  <2> QED BY <1>6, <1>7, <2>1, <2>2
<1> QED BY <1>9, <1>10, <1>11 DEF Granted

(* Every place for a request lies in a descriptor of its own.              *)
LEMMA FitInDescriptor ==
  ASSUME FwMap, NEW req, GoodRequest(req), NEW a \in Addr, PlaceFits(a, req)
  PROVE  \E p, q \in Dom : /\ Longest(p, q) /\ fw[p] = "conventional"
                           /\ InPlace(Span(Descriptor(p, q)), req, a)
<1> DEFINE b == [start |-> a, size |-> req.size]
<1>1. /\ a % req.align = 0 /\ req.min <= a /\ a + req.size - 1 <= req.max
      /\ Covered(b) /\ \A r \in PagesOf(b) : fw[r] = "conventional"
  BY DEF PlaceFits
<1>2. /\ req.size \in Nat /\ req.size >= PAGE_SIZE /\ req.size % PAGE_SIZE = 0
      /\ req.align \in Nat \ {0} /\ req.align % PAGE_SIZE = 0
  BY DEF GoodRequest
<1>3. a \in Nat /\ a \in Int
  BY AddrNat
<1>4. a % PAGE_SIZE = 0
  BY <1>1, <1>2, <1>3, PageSize, MultipleOfMultiple
<1>5. PICK f \in Nat : a = f * PAGE_SIZE
  BY <1>3, <1>4, PageCount
<1>6. PICK c \in Nat : req.size = c * PAGE_SIZE
  BY <1>2, PageCount
<1>7. c # 0
  BY <1>2, <1>6, PageSize
<1>8. b.start = f * PAGE_SIZE /\ b.size = c * PAGE_SIZE
  BY <1>5, <1>6
<1> HIDE DEF b
<1>9. /\ PagesOf(b) = {r \in Dom : f <= r /\ r <= f + c - 1}
      /\ f .. f + c - 1 \subseteq Dom
  BY <1>1, <1>7, <1>8, BlockPages
<1>10. \A r \in f .. f + c - 1 : r \in Dom /\ fw[r] = "conventional"
  BY <1>1, <1>9
<1>11. f \in f .. f + c - 1 /\ f + c - 1 \in f .. f + c - 1 /\ f <= f + c - 1
  BY <1>7
<1>12. OneType(f, f + c - 1)
  BY <1>10, <1>11, DomFact DEF OneType
<1>13. PICK p, q \in Dom : Longest(p, q) /\ p <= f /\ f + c - 1 <= q /\ fw[p] = fw[f]
  <2>1. f \in Dom /\ f + c - 1 \in Dom
    BY <1>10, <1>11
  <2> QED BY <1>11, <1>12, <2>1, RunInDescriptor
<1> DEFINE d == Descriptor(p, q)
<1>14. Span(d).start = p * PAGE_SIZE /\ EndOf(Span(d)) = (q + 1) * PAGE_SIZE - 1
  BY <1>13, SpanFact DEF Span
<1>15. p \in Nat /\ q \in Nat
  BY DomFact
<1>16. p * PAGE_SIZE <= a
  BY <1>5, <1>13, <1>15, PageOrder
<1>17. a + req.size - 1 <= EndOf(Span(d))
  <2> DEFINE g == (q + 1) * PAGE_SIZE
             e == (f + c) * PAGE_SIZE
  <2>1. e = a + req.size
    BY <1>5, <1>6, PageSize
  <2>2. f + c \in Int /\ q + 1 \in Int /\ f + c <= q + 1
    BY <1>13, <1>15
  <2>3. e <= g
    BY <2>2, PageOrder
  <2>4. g \in Int
    BY <2>2, PageSize
  <2>5. EndOf(Span(d)) = g - 1
    BY <1>14
  <2> HIDE DEF d, g, e
  <2> QED BY <1>2, <1>3, <2>1, <2>3, <2>4, <2>5
<1>18. InPlace(Span(d), req, a)
  <2> HIDE DEF d
  <2> QED BY <1>1, <1>3, <1>14, <1>16, <1>17 DEF InPlace
<1>19. fw[p] = "conventional"
  BY <1>10, <1>11, <1>13
<1> QED BY <1>13, <1>18, <1>19

LEMMA BestIsExtreme ==
  ASSUME FwMap, NEW call \in EfiRequests, NEW req, req = WithDefaults(call),
         NEW d \in BestDescriptor(req, Descriptors), Computable(d, req), NEW a \in Addr, PlaceFits(a, req)
  PROVE  IF req.high THEN a <= AllocStart(d, req) ELSE a >= AllocStart(d, req)
<1>1. GoodRequest(req) /\ req.size \in Nat /\ req.size # 0
  BY EfiCalls, PageSize DEF GoodRequest
<1>2. PICK p, q \in Dom : /\ Longest(p, q) /\ fw[p] = "conventional"
                          /\ InPlace(Span(Descriptor(p, q)), req, a)
  BY <1>1, FitInDescriptor
<1> DEFINE e == Descriptor(p, q)
           at == AllocStart(d, req)
           ae == AllocStart(e, req)
<1>3. Span(e) \in MemoryRange /\ e.start = p * PAGE_SIZE /\ e.type = "conventional"
      /\ EndOf(Span(e)) = (q + 1) * PAGE_SIZE - 1 /\ Span(e).start = e.start
  BY <1>2, SpanFact DEF Span
<1>4. /\ Suitable(Span(e), req)
      /\ req.high => a <= AllocStart(Span(e), req)
      /\ ~req.high => AllocStart(Span(e), req) <= a
  BY <1>1, <1>2, <1>3, PlaceSuitable
<1>5. Suitable(e, req) /\ (req.high => a <= ae) /\ (~req.high => ae <= a)
  BY <1>4, SpanSuitable
<1>6. e \in Descriptors
  BY <1>2, DescriptorsFact, DomFact
<1>7. IF req.high THEN e.start <= d.start ELSE d.start <= e.start
  BY <1>3, <1>5, <1>6 DEF BestDescriptor, EfiSuitable
<1>8. d \in Descriptors /\ d.type = "conventional" /\ Suitable(d, req)
  BY DEF BestDescriptor, EfiSuitable
<1>9. PICK u, v \in Dom : Longest(u, v) /\ d = Descriptor(u, v)
  BY <1>8, DescriptorsFact, DomFact
<1>10. Span(d) \in MemoryRange /\ d.start = u * PAGE_SIZE /\ EndOf(Span(d)) = (v + 1) * PAGE_SIZE - 1
       /\ Span(d).start = d.start
  BY <1>9, SpanFact DEF Span
<1>11. InPlace(Span(d), req, at)
  <2>1. Suitable(Span(d), req) /\ Computable(Span(d), req) /\ AllocStart(Span(d), req) = at
    BY <1>8, SpanSuitable
  <2>2. InPlace(Span(d), req, AllocStart(Span(d), req))
    BY <1>1, <1>10, <2>1, SuitablePlace
  <2> QED BY <2>1, <2>2
<1>12. p \in Nat /\ q \in Nat /\ u \in Nat /\ v \in Nat
  BY DomFact
<1> HIDE DEF at, ae, e
<1>13. /\ a \in Nat /\ at \in Nat
       /\ p * PAGE_SIZE <= a /\ a + req.size - 1 <= (q + 1) * PAGE_SIZE - 1
       /\ u * PAGE_SIZE <= at /\ at + req.size - 1 <= (v + 1) * PAGE_SIZE - 1
  BY <1>2, <1>3, <1>10, <1>11 DEF InPlace, e
<1>14. (q + 1) * PAGE_SIZE \in Int /\ (v + 1) * PAGE_SIZE \in Int /\ u * PAGE_SIZE \in Int /\ p * PAGE_SIZE \in Int
  BY <1>12, PageSize
<1>15. CASE p = u /\ q = v
  <2>1. e = d /\ ae = at
    BY <1>9, <1>15 DEF e, ae, at
  <2>2. (req.high => a <= at) /\ (~req.high => at <= a)
    BY <1>5, <2>1
  <2> QED BY <1>13, <2>2 DEF at
<1>16. CASE q < u
  <2>1. (q + 1) * PAGE_SIZE <= u * PAGE_SIZE
    <3>1. q + 1 \in Int /\ u \in Int /\ q + 1 <= u
      BY <1>12, <1>16
    <3> QED BY <3>1, PageOrder
  <2>2. a < at
    <3> DEFINE x == (q + 1) * PAGE_SIZE
               y == u * PAGE_SIZE
    <3>1. x \in Int /\ y \in Int /\ x <= y /\ a + req.size - 1 <= x - 1 /\ y <= at
      BY <1>13, <1>14, <2>1
    <3> HIDE DEF x, y
    <3> QED BY <1>1, <1>13, <3>1
  <2>3. req.high
    <3>1. p < u
      <4>1. p <= q
        BY <1>2 DEF Longest
      <4> QED BY <1>12, <1>16, <4>1
    <3>2. ~(u * PAGE_SIZE <= p * PAGE_SIZE)
      BY <1>12, <3>1, PageOrder
    <3> QED BY <1>3, <1>7, <1>10, <3>2
  <2>4. a <= at
    BY <1>13, <2>2
  <2> QED BY <2>3, <2>4 DEF at
<1>17. CASE v < p
  <2>1. (v + 1) * PAGE_SIZE <= p * PAGE_SIZE
    <3>1. v + 1 \in Int /\ p \in Int /\ v + 1 <= p
      BY <1>12, <1>17
    <3> QED BY <3>1, PageOrder
  <2>2. at < a
    <3> DEFINE x == (v + 1) * PAGE_SIZE
               y == p * PAGE_SIZE
    <3>1. x \in Int /\ y \in Int /\ x <= y /\ at + req.size - 1 <= x - 1 /\ y <= a
      BY <1>13, <1>14, <2>1
    <3> HIDE DEF x, y
    <3> QED BY <1>1, <1>13, <3>1
  <2>3. ~req.high
    <3>1. u < p
      <4>1. u <= v
        BY <1>9 DEF Longest
      <4> QED BY <1>12, <1>17, <4>1
    <3>2. ~(p * PAGE_SIZE <= u * PAGE_SIZE)
      BY <1>12, <3>1, PageOrder
    <3> QED BY <1>3, <1>7, <1>10, <3>2
  <2>4. a >= at
    BY <1>13, <2>2
  <2> QED BY <2>3, <2>4 DEF at
<1>18. p <= u \/ u <= p
  BY <1>12
<1>19. (p = u /\ q = v) \/ q < u \/ v < p
  <2>1. CASE p <= u
    BY <1>2, <1>9, <2>1, DescriptorsApart
  <2>2. CASE u <= p
    BY <1>2, <1>9, <2>2, DescriptorsApart
  <2> QED BY <1>18, <2>1, <2>2
<1> QED BY <1>15, <1>16, <1>17, <1>19

(* A descriptor that will do means there is a best one. *)
LEMMA BestExists ==
  ASSUME NEW map, \A d \in map : d.start \in Addr, NEW req, NEW e \in map, EfiSuitable(e, req)
  PROVE  BestDescriptor(req, map) # {}
<1> DEFINE fit == {d \in map : EfiSuitable(d, req)}
           Key(d) == IF req.high THEN AddrMod - d.start ELSE d.start
           T == {Key(d) : d \in fit}
<1>1. ASSUME NEW d \in fit PROVE d.start \in Nat /\ Key(d) \in Nat
  <2>3. d.start \in Addr
    OBVIOUS
  <2>4. d.start \in Nat /\ AddrMod - d.start \in Nat
    <3>1. d.start \in Nat /\ d.start < AddrMod /\ AddrMod \in Nat
      BY <2>3, AddrNat
    <3> QED BY <3>1
  <2> QED BY <2>4
<1>2. e \in fit
  OBVIOUS
<1>3. T \subseteq Nat /\ T # {}
  BY <1>1, <1>2
<1>4. Min(T) \in T /\ \A y \in T : Min(T) <= y
  <2> HIDE DEF T
  <2> QED BY <1>3, MinElement
<1>5. PICK d \in fit : Min(T) = Key(d)
  BY <1>4
<1>6. \A g \in fit : Key(d) <= Key(g)
  <2> TAKE g \in fit
  <2>1. Key(g) \in T
    OBVIOUS
  <2> HIDE DEF T, Key
  <2> QED BY <1>4, <1>5, <2>1
<1>7. \A g \in fit : IF req.high THEN g.start <= d.start ELSE d.start <= g.start
  <2> TAKE g \in fit
  <2>1. d.start \in Nat /\ g.start \in Nat /\ Key(d) <= Key(g) /\ AddrMod \in Nat
    BY <1>1, <1>6, AddrNat
  <2>2. CASE req.high
    BY <2>1, <2>2
  <2>3. CASE ~req.high
    BY <2>1, <2>3
  <2> QED BY <2>2, <2>3
<1>8. d \in BestDescriptor(req, map)
  BY <1>7 DEF BestDescriptor
<1> QED BY <1>8

-----------------------------------------------------------------------------
(***************************************************************************)
(* The inductive invariant: the loader's pages in the firmware's map are   *)
(* those of the blocks it tracks, which share no page, and the callers     *)
(* hold the tracked blocks; a size, a place or a map the loader has read   *)
(* is good unless the firmware has changed its map since, and each failed  *)
(* attempt to end boot services has a change of its own.                   *)
(***************************************************************************)
PagesIn(b) == {p \in Dom : b.start <= p * PAGE_SIZE /\ p * PAGE_SIZE < b.start + b.size}

WholeBlock(b) ==
  \E f, c \in Nat : /\ c # 0 /\ b.start = f * PAGE_SIZE /\ b.size = c * PAGE_SIZE
                    /\ f .. f + c - 1 \subseteq Dom

Tracked == {efi_memory_ranges[i] : i \in 1 .. Len(efi_memory_ranges)}

EfiTypes ==
  /\ FwMap /\ efi_memory_ranges \in Seq(MemoryRange)
  /\ stage \in Stages /\ chosen \in Nat
  /\ num_entries \in Nat /\ map_key \in Nat /\ changes \in Nat /\ tries \in Nat

TrackedInv ==
  /\ \A i \in 1 .. Len(efi_memory_ranges) : WholeBlock(efi_memory_ranges[i])
  /\ \A i, j \in 1 .. Len(efi_memory_ranges) :
       i # j => PagesIn(efi_memory_ranges[i]) \cap PagesIn(efi_memory_ranges[j]) = {}

LoaderPages ==
  \A p \in Dom : fw[p] = "loader" <=>
    \E i \in 1 .. Len(efi_memory_ranges) : p \in PagesIn(efi_memory_ranges[i])

HeldTracked == stage # "left" => efi_held = Tracked

(* What memory_alloc() has chosen. *)
Chosen == [start |-> chosen, size |-> asked.size, type |-> asked.type]

PlaceInv ==
  /\ stage \in {"alloc_size", "alloc_pages"} =>
       \E call \in EfiRequests : asked = WithDefaults(call)
  /\ stage = "alloc_pages" /\ changes = 0 =>
       /\ Granted(Chosen)
       /\ \A at \in Addr : PlaceFits(at, asked) =>
            IF asked.high THEN at <= chosen ELSE at >= chosen

(* How much the firmware's map has changed under the running call.         *)
ChangesInv ==
  /\ map_key <= changes /\ tries <= changes
  /\ stage # "exit_retry" => tries <= map_key
  /\ stage \in {"alloc_size", "alloc_pages", "final_size"} => tries = 0
  /\ stage \in Between => changes = 0
  /\ stage \in Sized /\ map_key = changes => num_entries = Cardinality(Descriptors)

ExitInv ==
  /\ stage = "exit_map" /\ map_key = changes => efi_map = fw
  /\ stage = "exited" => efi_map = fw
  /\ stage = "left" => efi_memory_ranges = <<>>

EfiInv ==
  /\ EfiTypes /\ TrackedInv /\ LoaderPages /\ HeldTracked
  /\ PlaceInv /\ ChangesInv /\ ExitInv /\ NoInternalError

(* No block is chosen because is_suitable_range() wraps.                   *)
EfiPlacesComputed ==
  \A call \in EfiRequests :
    \A d \in BestDescriptor(WithDefaults(call), Descriptors) : Computable(d, WithDefaults(call))

(* Two descriptors do not start at one address. *)
LEMMA DescriptorStarts ==
  ASSUME FwMap
  PROVE  /\ IsFiniteSet(Descriptors)
         /\ \A d \in Descriptors : \E p \in Dom : d.start = p * PAGE_SIZE
         /\ \A d, e \in Descriptors : d.start = e.start => d = e
<1>1. ASSUME NEW d \in Descriptors, NEW e \in Descriptors, d.start = e.start PROVE d = e
  <2>1. PICK p, q \in Dom : Longest(p, q) /\ d = Descriptor(p, q)
    BY DescriptorsFact, DomFact
  <2>2. PICK u, v \in Dom : Longest(u, v) /\ e = Descriptor(u, v)
    BY DescriptorsFact, DomFact
  <2>3. p \in Nat /\ q \in Nat /\ u \in Nat /\ v \in Nat /\ u <= v /\ p <= q
    BY <2>1, <2>2, DomFact DEF Longest
  <2>4. p * PAGE_SIZE = u * PAGE_SIZE
    BY <1>1, <2>1, <2>2 DEF Descriptor
  <2>5. p * PAGE_SIZE \in Int
    BY <2>3, PageSize
  <2>6. p <= u /\ u <= p
    BY <2>3, <2>4, <2>5, PageOrder
  <2>7. (p = u /\ q = v) \/ q < u
    BY <2>1, <2>2, <2>6, DescriptorsApart
  <2>8. p = u /\ q = v
    BY <2>3, <2>6, <2>7
  <2> QED BY <2>1, <2>2, <2>8
<1>2. \A d \in Descriptors : \E p \in Dom : d.start = p * PAGE_SIZE
  BY DescriptorsFact, DomFact DEF Descriptor
<1>3. IsFiniteSet(Descriptors)
  <2> DEFINE f == [d \in Descriptors |-> d.start]
  <2>1. f \in Injection(Descriptors, Addr)
    <3>1. \A d \in Descriptors : d.start \in Addr
      BY <1>2, PageNumbers, DomFact, AddrNat
    <3> QED BY <1>1, <3>1 DEF Injection, IsInjective
  <2>2. IsFiniteSet(Addr)
    <3>1. 0 \in Int /\ AddrMod - 1 \in Int
      BY AddrNat
    <3> QED BY <3>1, FS_Interval DEF Addr
  <2> HIDE DEF f
  <2> QED BY <2>1, <2>2, FS_Injection
<1> QED BY <1>1, <1>2, <1>3

LEMMA PagesInFact ==
  ASSUME FwMap, NEW b PROVE PagesOf(b) = PagesIn(b)
BY DomFact DEF PagesOf, PagesIn

LEMMA RetypeFw ==
  ASSUME FwMap, NEW S, NEW type \in FwTypes, fw' = Retype(S, type)
  PROVE  FwMap' /\ \A p \in Dom : fw'[p] = IF p \in S THEN type ELSE fw[p]
<1>1. DOMAIN fw = Dom /\ \A p \in Dom : fw[p] \in FwTypes
  BY DomFact
<1>2. fw' = [p \in Dom |-> IF p \in S THEN type ELSE fw[p]]
  BY <1>1 DEF Retype
<1> QED BY <1>1, <1>2 DEF FwMap

(* The first page of a block is one of its pages, so blocks with different *)
(* pages have different starts.                                            *)
LEMMA FirstPage ==
  ASSUME FwMap, NEW b, WholeBlock(b)
  PROVE  \E p \in PagesIn(b) : b.start = p * PAGE_SIZE
<1>1. PICK f, c \in Nat : /\ c # 0 /\ b.start = f * PAGE_SIZE /\ b.size = c * PAGE_SIZE
                          /\ f .. f + c - 1 \subseteq Dom
  BY DEF WholeBlock
<1>2. PagesOf(b) = {p \in Dom : f <= p /\ p <= f + c - 1}
  BY <1>1, BlockPages
<1>3. f \in f .. f + c - 1 /\ f <= f /\ f <= f + c - 1
  BY <1>1
<1> QED BY <1>1, <1>2, <1>3, PagesInFact

LEMMA OneStart ==
  ASSUME EfiInv, NEW i \in 1 .. Len(efi_memory_ranges), NEW j \in 1 .. Len(efi_memory_ranges),
         efi_memory_ranges[i].start = efi_memory_ranges[j].start
  PROVE  i = j
<1> DEFINE a == efi_memory_ranges[i]
           b == efi_memory_ranges[j]
<1>1. FwMap /\ WholeBlock(a) /\ WholeBlock(b) /\ (i # j => PagesIn(a) \cap PagesIn(b) = {})
  BY DEF EfiInv, EfiTypes, TrackedInv
<1>2. a.start = b.start
  OBVIOUS
<1> HIDE DEF a, b
<1>3. PICK p \in PagesIn(a) : a.start = p * PAGE_SIZE
  BY <1>1, FirstPage
<1>4. PICK q \in PagesIn(b) : b.start = q * PAGE_SIZE
  BY <1>1, FirstPage
<1>5. p \in Int /\ q \in Int
  BY <1>1, DomFact DEF PagesIn
<1>6. p = q
  <2>0. p * PAGE_SIZE \in Int
    BY <1>5, PageSize
  <2>1. p * PAGE_SIZE \in Int /\ p * PAGE_SIZE = q * PAGE_SIZE
    BY <1>2, <1>3, <1>4, <2>0, Zenon
  <2>2. p * PAGE_SIZE <= q * PAGE_SIZE /\ q * PAGE_SIZE <= p * PAGE_SIZE
    BY <2>1
  <2>3. p <= q
    BY <1>5, <2>2, PageOrder
  <2>4. q <= p
    BY <1>5, <2>2, PageOrder
  <2> QED BY <1>5, <2>3, <2>4
<1> QED BY <1>1, <1>3, <1>4, <1>6

LEMMA EfiStarts == EfiInit => EfiInv
<1> SUFFICES ASSUME EfiInit PROVE EfiInv
  OBVIOUS
<1>1. /\ fw = FirmwareMap /\ efi_memory_ranges = <<>> /\ efi_held = {} /\ stage = "run"
      /\ chosen = 0 /\ num_entries = 0 /\ map_key = 0 /\ tries = 0 /\ changes = 0
      /\ efi_status = "ok"
  BY DEF EfiInit
<1>2. FirmwareMap \in [Dom -> FwTypes \ {"loader"}]
  BY EfiAssumption DEF Dom
<1>3. FwMap /\ \A p \in Dom : fw[p] # "loader"
  BY <1>1, <1>2 DEF FwMap
<1>4. Len(efi_memory_ranges) = 0 /\ efi_memory_ranges \in Seq(MemoryRange) /\ 1 .. 0 = {}
  BY <1>1
<1>5. EfiTypes
  BY <1>1, <1>3, <1>4 DEF EfiTypes, Stages, Between
<1>6. TrackedInv /\ LoaderPages
  BY <1>3, <1>4 DEF TrackedInv, LoaderPages
<1>7. HeldTracked
  BY <1>1, <1>4 DEF HeldTracked, Tracked
<1>8. PlaceInv /\ ChangesInv /\ ExitInv /\ NoInternalError
  BY <1>1 DEF PlaceInv, ChangesInv, ExitInv, NoInternalError, Sized
<1> QED BY <1>5, <1>6, <1>7, <1>8 DEF EfiInv

(* A driver takes or gives back a page that is not the loader's: whatever  *)
(* the loader has read is out of date.                                     *)
LEMMA FwChangeStep ==
  ASSUME EfiInv, NEW p \in FwPages, NEW type \in FwTypes, FwChange(p, type)
  PROVE  EfiInv'
<1>1. /\ FwMap /\ efi_memory_ranges \in Seq(MemoryRange) /\ stage \in Stages /\ chosen \in Nat
      /\ num_entries \in Nat /\ map_key \in Nat /\ changes \in Nat /\ tries \in Nat
      /\ TrackedInv /\ LoaderPages /\ HeldTracked /\ PlaceInv /\ ChangesInv
  BY DEF EfiInv, EfiTypes
<1>2. /\ fw' = Retype({p}, type) /\ fw[p] # "loader" /\ type # "loader"
      /\ stage \notin {"exited", "left"} /\ efi_status = "ok"
      /\ changes' = IF stage \in Between THEN 0 ELSE changes + 1
      /\ UNCHANGED <<efi_memory_ranges, efi_held, stage, asked, chosen, num_entries, map_key,
                     kernel_map, efi_map, tries, efi_status>>
  BY DEF FwChange
<1>3. FwMap' /\ \A x \in Dom : fw'[x] = IF x \in {p} THEN type ELSE fw[x]
  BY <1>1, <1>2, RetypeFw
<1>4. EfiTypes'
  BY <1>1, <1>2, <1>3 DEF EfiTypes
<1>5. TrackedInv'
  BY <1>1, <1>2 DEF TrackedInv
<1>6. \A x \in Dom : fw'[x] = "loader" <=> fw[x] = "loader"
  BY <1>2, <1>3
<1>7. LoaderPages'
  BY <1>1, <1>2, <1>6 DEF LoaderPages
<1>8. HeldTracked'
  BY <1>1, <1>2 DEF HeldTracked, Tracked
<1>9. stage \notin Between => changes' = changes + 1 /\ changes' # map_key'
  BY <1>1, <1>2 DEF ChangesInv
<1>10. PlaceInv'
  <2>1. stage \in {"alloc_size", "alloc_pages"} =>
          \E call \in EfiRequests : asked = WithDefaults(call)
    BY <1>1 DEF PlaceInv
  <2>2. stage' = "alloc_pages" => changes' # 0
    BY <1>1, <1>2, <1>9 DEF Between
  <2> QED BY <1>2, <2>1, <2>2 DEF PlaceInv
<1>11. ChangesInv'
  <2>1. stage \in Between => stage \notin Sized
    BY DEF Between, Sized
  <2> QED BY <1>1, <1>2, <1>9, <2>1 DEF ChangesInv
<1>12. ExitInv'
  BY <1>2, <1>9 DEF ExitInv, Between
<1>13. NoInternalError'
  BY <1>2 DEF NoInternalError
<1> QED BY <1>4, <1>5, <1>7, <1>8, <1>10, <1>11, <1>12, <1>13 DEF EfiInv

(* A step that leaves the firmware's map and the blocks alone.             *)
LEMMA SameBlocks ==
  ASSUME EfiInv, UNCHANGED <<fw, efi_memory_ranges, efi_held>>,
         stage' \in Stages \ {"left"}, stage # "left", chosen' \in Nat,
         num_entries' \in Nat, map_key' \in Nat, changes' \in Nat, tries' \in Nat,
         PlaceInv', ChangesInv', ExitInv', NoInternalError'
  PROVE  EfiInv'
<1>1. EfiTypes'
  BY DEF EfiInv, EfiTypes, FwMap
<1>2. TrackedInv' /\ LoaderPages'
  BY DEF EfiInv, TrackedInv, LoaderPages
<1>3. HeldTracked'
  BY DEF EfiInv, HeldTracked, Tracked
<1> QED BY <1>1, <1>2, <1>3 DEF EfiInv

(* The descriptors are a finite set, and the same while the map is.        *)
LEMMA DescriptorCount ==
  ASSUME FwMap
  PROVE  Cardinality(Descriptors) \in Nat
<1>1. IsFiniteSet(Descriptors)
  BY DescriptorStarts
<1> QED BY <1>1, FS_CardinalityType

LEMMA SameDescriptors ==
  ASSUME UNCHANGED fw
  PROVE  /\ Cardinality(Descriptors)' = Cardinality(Descriptors)
         /\ \A b : Granted(b)' <=> Granted(b)
         /\ \A at, req : PlaceFits(at, req)' <=> PlaceFits(at, req)
BY DEF Descriptors, Descriptor, Longest, OneType, Granted, Covered, PagesOf, PlaceFits

(* The first call of GetMemoryMap() of memory_alloc(), memory_finalize()   *)
(* and each attempt to end boot services.                                  *)
LEMMA MapSizeStep ==
  ASSUME EfiInv, NEW since, efi_status = "ok", GetMapSize(stage', since), stage' \in Sized,
         \/ stage \in Between /\ since = 0
         \/ stage = "exit_retry" /\ stage' = "exit_size" /\ since = changes,
         stage' = "alloc_size" => \E call \in EfiRequests : asked' = WithDefaults(call),
         UNCHANGED <<fw, efi_memory_ranges, efi_held, chosen, efi_status, tries>>
  PROVE  EfiInv'
<1>1. /\ FwMap /\ stage \in Stages /\ chosen \in Nat /\ changes \in Nat /\ tries \in Nat
      /\ ChangesInv
  BY DEF EfiInv, EfiTypes
<1>2. /\ num_entries' = Cardinality(Descriptors) /\ map_key' = since /\ changes' = since
  BY DEF GetMapSize
<1>3. Cardinality(Descriptors) \in Nat /\ Cardinality(Descriptors)' = Cardinality(Descriptors)
  BY <1>1, DescriptorCount, SameDescriptors
<1>4. /\ stage' \in Stages \ {"left"} /\ stage # "left"
      /\ stage' \notin {"alloc_pages", "exit_retry", "exit_map", "exited", "left"} /\ stage' \notin Between
  BY DEF Sized, Between, Stages
<1>5. since \in Nat /\ tries <= since /\ (stage \in Between => tries = 0)
  BY <1>1 DEF ChangesInv, Between
<1>6. PlaceInv'
  BY <1>4 DEF PlaceInv
<1>7. ChangesInv'
  <2>1. stage' \in {"alloc_size", "alloc_pages", "final_size"} => tries' = 0
    BY <1>5
  <2> QED BY <1>1, <1>2, <1>3, <1>4, <1>5, <2>1 DEF ChangesInv
<1>8. ExitInv' /\ NoInternalError'
  BY <1>4 DEF ExitInv, NoInternalError
<1> QED BY <1>1, <1>2, <1>3, <1>4, <1>5, <1>6, <1>7, <1>8, SameBlocks

(* The buffer is too small only if the map has grown since.                *)
LEMMA MapGrewStep ==
  ASSUME EfiInv, MapGrew
  PROVE  EfiInv'
<1>1. /\ FwMap /\ stage \in Stages /\ chosen \in Nat /\ num_entries \in Nat
      /\ map_key \in Nat /\ changes \in Nat /\ tries \in Nat
      /\ PlaceInv /\ ChangesInv /\ ExitInv
  BY DEF EfiInv, EfiTypes
<1>2. /\ stage \in Sized /\ Cardinality(Descriptors) > num_entries /\ efi_status' = "map_failed"
      /\ UNCHANGED <<fw, efi_memory_ranges, efi_held, stage, asked, chosen, num_entries, map_key,
                     changes, efi_map, tries>>
  BY DEF MapGrew, callVars, finalVars
<1>3. stage # "left" /\ stage # "exit_retry" /\ stage \notin {"alloc_pages", "exit_map", "exited"}
  BY <1>2 DEF Sized
<1>4. Cardinality(Descriptors)' = Cardinality(Descriptors)
  BY <1>2, SameDescriptors
<1>5. tries < changes
  <2>1. map_key # changes
    BY <1>1, <1>2 DEF ChangesInv
  <2> QED BY <1>1, <1>3, <2>1 DEF ChangesInv
<1>6. NoInternalError'
  BY <1>1, <1>2, <1>5 DEF NoInternalError
<1>7. PlaceInv' /\ ExitInv'
  BY <1>1, <1>2, <1>3 DEF PlaceInv, ExitInv
<1>8. ChangesInv'
  BY <1>1, <1>2, <1>4 DEF ChangesInv
<1> QED BY <1>1, <1>2, <1>3, <1>6, <1>7, <1>8, SameBlocks

(* The address computed in any entry of the map, of the firmware or not.   *)
LEMMA AllocStartNat ==
  ASSUME NEW d, d.start \in Addr, d.size \in Addr, NEW req, GoodRequest(req)
  PROVE  AllocStart(d, req) \in Nat
<1>1. /\ req.size \in Nat /\ req.align \in Nat \ {0} /\ req.min \in Nat /\ req.max \in Nat
  BY DEF GoodRequest
<1>2. d.start \in Nat /\ d.size \in Nat
  BY AddrNat
<1>3. EndOf(d) \in Nat
  <2>1. d.start + d.size - 1 \in Int
    BY <1>2
  <2>2. Wrap(d.start + d.size - 1) \in Addr
    BY <2>1, WrapType
  <2> QED BY <2>2, AddrNat DEF EndOf
<1>4. MatchStart(d, req) \in Nat /\ MatchEnd(d, req) \in Nat
  BY <1>1, <1>2, <1>3 DEF MatchStart, MatchEnd
<1> DEFINE lo == MatchStart(d, req)
           hi == MatchEnd(d, req)
<1>5. CASE req.high
  <2> DEFINE x == Wrap((hi - req.size) + 1)
  <2>1. (hi - req.size) + 1 \in Int
    BY <1>1, <1>4
  <2>2. x \in Nat
    BY <2>1, WrapType, AddrNat
  <2> HIDE DEF x
  <2>3. round_down(x, req.align) \in Nat
    BY <1>1, <2>2, RoundDownFact
  <2> QED BY <1>5, <2>3 DEF AllocStart, x
<1>6. CASE ~req.high
  <2>1. lo \in Nat /\ req.align \in Nat \ {0}
    BY <1>1, <1>4
  <2> HIDE DEF lo
  <2>2. round_down(lo, req.align) \in Nat
    BY <2>1, RoundDownFact
  <2>3. Wrap(round_down(lo, req.align) + req.align) \in Nat
    <3> DEFINE r == round_down(lo, req.align)
    <3>1. r + req.align \in Int
      BY <2>1, <2>2
    <3> HIDE DEF r
    <3>2. Wrap(r + req.align) \in Nat
      BY <3>1, WrapType, AddrNat
    <3> QED BY <3>2 DEF r
  <2>4. round_up(lo, req.align) \in Nat
    BY <2>1, <2>3, Zenon DEF round_up
  <2> QED BY <1>6, <2>4 DEF AllocStart, lo
<1> QED BY <1>5, <1>6

(* What is read is the firmware's map and nothing else, unless it changed  *)
(* since its size was asked for.                                           *)
LEMMA NoJunk ==
  ASSUME EfiInv, NEW junk \in Unwritten, stage \in Sized, map_key = changes
  PROVE  junk = <<>> /\ Range(junk) = {}
<1>1. num_entries = Cardinality(Descriptors) /\ Cardinality(Descriptors) \in Nat
  BY DescriptorCount DEF EfiInv, EfiTypes, ChangesInv
<1>2. junk \in [1 .. num_entries - Cardinality(Descriptors) -> JunkDescriptors]
  BY DEF Unwritten
<1>3. num_entries - Cardinality(Descriptors) = 0 /\ 1 .. 0 = {}
  BY <1>1
<1>4. junk \in [{} -> JunkDescriptors]
  BY <1>2, <1>3
<1>5. DOMAIN junk = {}
  BY <1>4
<1>6. junk = <<>>
  BY <1>4
<1> QED BY <1>5, <1>6 DEF Range

LEMMA DescriptorTypes ==
  ASSUME FwMap, NEW junk \in Unwritten, NEW d \in Descriptors \cup Range(junk)
  PROVE  d.start \in Addr /\ d.size \in Addr
<1>1. CASE d \in Descriptors
  <2>1. PICK p, q \in Dom : Longest(p, q) /\ d = Descriptor(p, q)
    BY <1>1, DescriptorsFact, DomFact
  <2>2. Span(d) \in MemoryRange
    BY <2>1, SpanFact
  <2> QED BY <2>2, RangeFields DEF Span
<1>2. CASE d \in Range(junk)
  <2>1. d \in JunkDescriptors
    BY <1>2 DEF Unwritten, Range
  <2>2. d \in [start : Addr, size : Addr, type : FwTypes]
    BY <2>1, EfiAssumption
  <2> QED BY <2>2
<1> QED BY <1>1, <1>2

(* The place chosen is free, and the best there is, while nothing changes. *)
LEMMA EfiChooseStep ==
  ASSUME EfiInv, EfiPlacesComputed, NEW junk \in Unwritten, EfiAllocChoose(junk)
  PROVE  EfiInv'
<1>1. /\ FwMap /\ stage \in Stages /\ chosen \in Nat /\ num_entries \in Nat
      /\ map_key \in Nat /\ changes \in Nat /\ tries \in Nat
      /\ PlaceInv /\ ChangesInv /\ ExitInv
  BY DEF EfiInv, EfiTypes
<1>2. /\ efi_status = "ok" /\ stage = "alloc_size" /\ stage' = "alloc_pages" /\ map_key' = changes
      /\ UNCHANGED <<fw, efi_memory_ranges, efi_held, asked, num_entries, efi_status, changes,
                     efi_map, tries>>
  BY DEF EfiAllocChoose, finalVars
<1>3. PICK d \in BestDescriptor(asked, Descriptors \cup Range(junk)) : chosen' = AllocStart(d, asked)
  BY DEF EfiAllocChoose
<1>4. PICK call \in EfiRequests : asked = WithDefaults(call)
  BY <1>1, <1>2 DEF PlaceInv
<1>5. GoodRequest(asked) /\ tries = 0
  BY <1>1, <1>2, <1>4, EfiCalls DEF ChangesInv
<1>6. chosen' \in Nat
  <2>1. d \in Descriptors \cup Range(junk)
    BY <1>3 DEF BestDescriptor
  <2>2. d.start \in Addr /\ d.size \in Addr
    BY <1>1, <2>1, DescriptorTypes
  <2> QED BY <1>3, <1>5, <2>2, AllocStartNat
<1>7. ASSUME changes = 0
      PROVE  /\ Granted(Chosen')
             /\ \A at \in Addr : PlaceFits(at, asked) =>
                  IF asked.high THEN at <= chosen' ELSE at >= chosen'
  <2>1. map_key = changes /\ stage \in Sized
    BY <1>1, <1>2, <1>7 DEF ChangesInv, Sized
  <2>2. d \in BestDescriptor(asked, Descriptors)
    <3>1. Range(junk) = {}
      BY <2>1, NoJunk
    <3> QED BY <1>3, <3>1
  <2>3. Computable(d, asked)
    BY <1>4, <2>2 DEF EfiPlacesComputed
  <2>4. Chosen' = BlockAt(asked, d)
    BY <1>2, <1>3 DEF Chosen, BlockAt
  <2>5. Granted(Chosen')
    BY <1>1, <1>4, <2>2, <2>3, <2>4, BlockGranted
  <2>6. ASSUME NEW at \in Addr, PlaceFits(at, asked)
        PROVE  IF asked.high THEN at <= chosen' ELSE at >= chosen'
    BY <1>1, <1>3, <1>4, <2>2, <2>3, <2>6, BestIsExtreme
  <2> QED BY <2>5, <2>6
<1>8. PlaceInv'
  <2>1. \A b : Granted(b)' <=> Granted(b)
    BY <1>2, SameDescriptors
  <2>2. \A at, req : PlaceFits(at, req)' <=> PlaceFits(at, req)
    BY <1>2, SameDescriptors
  <2>3. changes = 0 => Granted(Chosen)'
    <3>1. Granted(Chosen)' <=> Granted(Chosen')
      BY <1>2 DEF Granted, Covered, PagesOf
    <3> QED BY <1>7, <3>1
  <2>4. changes = 0 => \A at \in Addr : PlaceFits(at, asked)' =>
                         IF asked'.high THEN at <= chosen' ELSE at >= chosen'
    <3>1. \A at : PlaceFits(at, asked)' <=> PlaceFits(at, asked)
      BY <1>2 DEF PlaceFits, Covered, PagesOf
    <3> QED BY <1>2, <1>7, <3>1
  <2> QED BY <1>2, <1>4, <1>5, <2>3, <2>4 DEF PlaceInv
<1>9. ChangesInv'
  BY <1>1, <1>2, <1>5 DEF ChangesInv, Sized, Between
<1>10. ExitInv' /\ NoInternalError'
  BY <1>2 DEF ExitInv, NoInternalError
<1>11. stage' \in Stages \ {"left"} /\ stage # "left"
  BY <1>2 DEF Stages
<1> QED BY <1>1, <1>2, <1>6, <1>8, <1>9, <1>10, <1>11, SameBlocks

LEMMA EfiAllocFailsStep ==
  ASSUME EfiInv, NEW junk \in Unwritten, EfiAllocFails(junk)
  PROVE  EfiInv'
<1>1. tries \in Nat /\ ChangesInv
  BY DEF EfiInv, EfiTypes
<1>2. /\ stage = "alloc_size" /\ stage' = "run" /\ chosen' = 0 /\ num_entries' = 0
      /\ map_key' = 0 /\ changes' = 0 /\ efi_status' \in {"ok", "no_memory"}
      /\ UNCHANGED <<fw, efi_memory_ranges, efi_held, efi_map, tries>>
  BY DEF EfiAllocFails, Return, finalVars
<1>3. tries' = 0
  BY <1>1, <1>2 DEF ChangesInv
<1>4. PlaceInv' /\ ChangesInv' /\ ExitInv' /\ NoInternalError'
  BY <1>2, <1>3 DEF PlaceInv, ChangesInv, ExitInv, NoInternalError, Sized
<1>5. stage' \in Stages \ {"left"} /\ stage # "left"
  BY <1>2 DEF Stages, Between
<1> QED BY <1>2, <1>3, <1>4, <1>5, SameBlocks

(* AllocatePages() gives the block, or has a reason not to.                *)
LEMMA EfiPagesStep ==
  ASSUME EfiInv, EfiAllocPages
  PROVE  EfiInv'
<1> DEFINE b == Chosen
           R == efi_memory_ranges
<1>1. /\ FwMap /\ R \in Seq(MemoryRange) /\ stage \in Stages /\ chosen \in Nat
      /\ num_entries \in Nat /\ map_key \in Nat /\ changes \in Nat /\ tries \in Nat
      /\ TrackedInv /\ LoaderPages /\ HeldTracked /\ PlaceInv /\ ChangesInv /\ ExitInv
  BY DEF EfiInv, EfiTypes
<1>2. stage = "alloc_pages" /\ efi_status = "ok" /\ UNCHANGED <<kernel_map, efi_map, tries>>
  BY DEF EfiAllocPages, finalVars
<1>3. PICK call \in EfiRequests : asked = WithDefaults(call)
  BY <1>1, <1>2 DEF PlaceInv
<1>4. GoodRequest(asked) /\ tries = 0
  BY <1>1, <1>2, <1>3, EfiCalls DEF ChangesInv
<1>5. CASE ~Granted(b)
  <2>1. /\ efi_status' = "alloc_failed"
        /\ UNCHANGED <<fw, efi_memory_ranges, efi_held, stage, asked, chosen, num_entries,
                       map_key, changes>>
    BY <1>5 DEF EfiAllocPages, Chosen, callVars
  <2>2. changes # 0
    BY <1>1, <1>2, <1>5 DEF PlaceInv
  <2>3. NoInternalError'
    BY <1>1, <1>2, <1>4, <2>1, <2>2 DEF NoInternalError
  <2>4. PlaceInv'
    BY <1>1, <1>2, <1>4, <2>1, <2>2 DEF PlaceInv
  <2>5. ChangesInv' /\ ExitInv'
    BY <1>1, <1>2, <2>1 DEF ChangesInv, ExitInv, Sized
  <2>6. stage' \in Stages \ {"left"} /\ stage # "left"
    BY <1>1, <1>2, <2>1
  <2> QED BY <1>1, <1>2, <2>1, <2>3, <2>4, <2>5, <2>6, SameBlocks
<1>6. CASE Granted(b)
  <2>1. /\ fw' = Retype(PagesOf(b), "loader") /\ efi_memory_ranges' = Append(R, b)
        /\ efi_held' = efi_held \cup {b} /\ efi_status' = efi_status
        /\ stage' = "run" /\ chosen' = 0 /\ num_entries' = 0 /\ map_key' = 0 /\ changes' = 0
    BY <1>6 DEF EfiAllocPages, Chosen, Return
  <2>2. /\ b.start = chosen /\ b.size = asked.size /\ b.type = asked.type
        /\ b.start % PAGE_SIZE = 0 /\ Covered(b) /\ \A p \in PagesOf(b) : fw[p] = "conventional"
    BY <1>6 DEF Granted, Chosen
  <2>3. /\ asked.size \in Nat /\ asked.size >= PAGE_SIZE /\ asked.size % PAGE_SIZE = 0
        /\ asked.size < AddrMod /\ asked.type \in MemoryTypes
    BY <1>4 DEF GoodRequest
  <2>4. b = [start |-> chosen, size |-> asked.size, type |-> asked.type]
    BY DEF Chosen
  <2> HIDE DEF b
  <2>5. PICK f \in Nat : b.start = f * PAGE_SIZE
    BY <1>1, <2>2, PageCount
  <2>6. PICK c \in Nat : b.size = c * PAGE_SIZE
    BY <2>2, <2>3, PageCount
  <2>7. c # 0
    BY <2>2, <2>3, <2>6, PageSize
  <2>8. f .. f + c - 1 \subseteq Dom
    BY <1>1, <2>2, <2>5, <2>6, <2>7, BlockPages
  <2>9. WholeBlock(b)
    BY <2>5, <2>6, <2>7, <2>8, Zenon DEF WholeBlock
  <2>10. b \in MemoryRange
    <3>1. f \in f .. f + c - 1
      BY <2>7
    <3>2. f \in PageSet
      BY <1>1, <2>8, <3>1, DomFact
    <3>3. f * PAGE_SIZE \in Nat /\ f * PAGE_SIZE < AddrMod
      BY <3>2, PageNumbers
    <3>4. chosen \in Addr
      BY <2>2, <2>5, <3>3, AddrNat
    <3>5. asked.size \in Addr
      BY <2>3, AddrNat
    <3> QED BY <2>3, <2>4, <3>4, <3>5 DEF MemoryRange
  <2> DEFINE S == efi_memory_ranges'
             n == Len(R)
  <2>11. /\ S \in Seq(MemoryRange) /\ Len(S) = n + 1 /\ n \in Nat /\ S[n + 1] = b
         /\ \A i \in 1 .. n : S[i] = R[i]
    BY <1>1, <2>1, <2>10
  <2>12. PagesOf(b) = PagesIn(b) /\ \A p \in PagesIn(b) : p \in Dom /\ fw[p] = "conventional"
    BY <1>1, <2>2, PagesInFact DEF PagesIn
  <2>13. FwMap' /\ \A p \in Dom : fw'[p] = IF p \in PagesIn(b) THEN "loader" ELSE fw[p]
    <3>1. "loader" \in FwTypes
      BY DEF FwTypes
    <3> QED BY <1>1, <2>1, <2>12, <3>1, RetypeFw
  <2>14. \A i \in 1 .. n : PagesIn(R[i]) \cap PagesIn(b) = {}
    <3> SUFFICES ASSUME NEW i \in 1 .. n, NEW p \in PagesIn(R[i]), p \in PagesIn(b) PROVE FALSE
      OBVIOUS
    <3>1. p \in Dom
      BY DEF PagesIn
    <3>2. fw[p] = "loader"
      BY <1>1, <3>1 DEF LoaderPages
    <3> QED BY <2>12, <3>2
  <2> HIDE DEF S, n
  <2>15. TrackedInv'
    <3>1. \A i \in 1 .. n : WholeBlock(R[i])
      BY <1>1 DEF TrackedInv, n
    <3>2. \A i, j \in 1 .. n : i # j => PagesIn(R[i]) \cap PagesIn(R[j]) = {}
      BY <1>1 DEF TrackedInv, n
    <3>3. \A i \in 1 .. n + 1 : i \in 1 .. n \/ i = n + 1
      BY <2>11
    <3>4. \A i \in 1 .. n + 1 : WholeBlock(S[i])
      BY <2>11, <2>9, <3>1, <3>3
    <3>5. \A i, j \in 1 .. n + 1 : i # j => PagesIn(S[i]) \cap PagesIn(S[j]) = {}
      BY <2>11, <2>14, <3>2, <3>3
    <3> QED BY <2>11, <3>4, <3>5 DEF TrackedInv, S
  <2>16. LoaderPages'
    <3> SUFFICES ASSUME NEW p \in Dom
                 PROVE  fw'[p] = "loader" <=> \E i \in 1 .. n + 1 : p \in PagesIn(S[i])
      BY <2>11 DEF LoaderPages, S
    <3>1. fw[p] = "loader" <=> \E i \in 1 .. n : p \in PagesIn(R[i])
      BY <1>1 DEF LoaderPages, n
    <3>2. \A i \in 1 .. n + 1 : i \in 1 .. n \/ i = n + 1
      BY <2>11
    <3>3. n + 1 \in 1 .. n + 1 /\ 1 .. n \subseteq 1 .. n + 1
      BY <2>11
    <3>4. (\E i \in 1 .. n + 1 : p \in PagesIn(S[i])) <=>
            p \in PagesIn(b) \/ \E i \in 1 .. n : p \in PagesIn(R[i])
      BY <2>11, <3>2, <3>3
    <3> QED BY <2>13, <3>1, <3>4
  <2>17. HeldTracked'
    <3>1. \A i \in 1 .. n + 1 : i \in 1 .. n \/ i = n + 1
      BY <2>11
    <3>2. n + 1 \in 1 .. n + 1 /\ 1 .. n \subseteq 1 .. n + 1
      BY <2>11
    <3>3. {S[i] : i \in 1 .. n + 1} = {R[i] : i \in 1 .. n} \cup {b}
      BY <2>11, <3>1, <3>2
    <3>4. efi_held = {R[i] : i \in 1 .. n}
      BY <1>1, <1>2 DEF HeldTracked, Tracked, n
    <3> QED BY <2>1, <2>11, <3>3, <3>4 DEF HeldTracked, Tracked, S
  <2>18. PlaceInv' /\ ChangesInv' /\ ExitInv' /\ NoInternalError'
    BY <1>2, <1>4, <2>1 DEF PlaceInv, ChangesInv, ExitInv, NoInternalError, Sized
  <2>19. EfiTypes'
    BY <1>1, <1>2, <2>1, <2>11, <2>13 DEF EfiTypes, S, Stages, Between
  <2> QED BY <2>15, <2>16, <2>17, <2>18, <2>19 DEF EfiInv
<1> QED BY <1>5, <1>6

(* memory_free() finds the block it is given.                              *)
LEMMA EfiFreeStep ==
  ASSUME EfiInv, NEW b \in efi_held, EfiMemoryFree(b)
  PROVE  EfiInv'
<1> DEFINE R == efi_memory_ranges
           n == Len(R)
           k == RangeAt(b)
           Found == {j \in 1 .. n : R[j].start = b.start}
<1>1. /\ FwMap /\ R \in Seq(MemoryRange) /\ stage \in Stages /\ chosen \in Nat
      /\ num_entries \in Nat /\ map_key \in Nat /\ changes \in Nat /\ tries \in Nat
      /\ TrackedInv /\ LoaderPages /\ HeldTracked /\ ChangesInv
  BY DEF EfiInv, EfiTypes
<1>2. /\ stage = "run" /\ efi_status = "ok"
      /\ UNCHANGED <<stage, chosen, num_entries, map_key, changes, efi_map, tries>>
  BY DEF EfiMemoryFree, EfiCanRun, callVars, finalVars
<1>3. efi_held = {R[i] : i \in 1 .. n}
  BY <1>1, <1>2 DEF HeldTracked, Tracked
<1>4. PICK m \in 1 .. n : b = R[m]
  BY <1>3
<1>5. \A i, j \in 1 .. n : R[i].start = R[j].start => i = j
  BY OneStart
<1>6. k = m
  <2>1. Found = {m} /\ Found \subseteq Nat /\ Found # {}
    BY <1>4, <1>5
  <2>2. k = Min(Found)
    BY <2>1 DEF RangeAt, SelectInSeq
  <2> HIDE DEF Found
  <2>3. Min(Found) \in Found
    BY <2>1, MinElement
  <2> QED BY <2>1, <2>2, <2>3
<1> DEFINE S == efi_memory_ranges'
<1>7. /\ fw' = Retype(PagesOf(b), "conventional") /\ S = RemoveAt(R, m)
      /\ efi_held' = efi_held \ {b} /\ efi_status' = efi_status
  <2>1. m # 0 /\ R[m].size = b.size
    BY <1>4
  <2> QED BY <1>6, <2>1 DEF EfiMemoryFree
<1>8. S \in Seq(MemoryRange) /\ Removed(S, R, m)
  BY <1>1, <1>4, <1>7, RemoveAtElements
<1> HIDE DEF R, S, n, k, Found
<1> DEFINE old(j) == IF j < m THEN j ELSE j + 1
<1>9. /\ n \in Nat /\ m \in 1 .. n /\ Len(S) = n - 1
      /\ \A j \in 1 .. n - 1 : /\ old(j) \in 1 .. n /\ old(j) # m /\ S[j] = R[old(j)]
  <2>1. n \in Nat /\ Len(S) = n - 1 /\ Len(R) = n
    BY <1>1, <1>8 DEF n, Removed
  <2>2. \A j \in 1 .. n - 1 : S[j] = IF j < m THEN R[j] ELSE R[j + 1]
    BY <1>8, <2>1 DEF Removed
  <2> QED BY <1>4, <2>1, <2>2
<1>10. \A i \in 1 .. n : i # m => \E j \in 1 .. n - 1 : S[j] = R[i] /\ old(j) = i
  <2> TAKE i \in 1 .. n
  <2> HAVE i # m
  <2>1. CASE i < m
    <3>1. i \in 1 .. n - 1 /\ old(i) = i
      BY <1>9, <2>1
    <3> QED BY <1>9, <3>1
  <2>2. CASE i > m
    <3>1. i - 1 \in 1 .. n - 1 /\ ~(i - 1 < m) /\ (i - 1) + 1 = i
      BY <1>9, <2>2
    <3>2. old(i - 1) = i
      BY <3>1
    <3> QED BY <1>9, <3>1, <3>2
  <2> QED BY <1>9, <2>1, <2>2
<1>11. \A j, l \in 1 .. n - 1 : j # l => old(j) # old(l)
  <2> TAKE j, l \in 1 .. n - 1
  <2>1. j \in Int /\ l \in Int /\ m \in Int
    BY <1>9
  <2> QED BY <2>1
<1> HIDE DEF old
<1>12. /\ \A i \in 1 .. n : WholeBlock(R[i])
       /\ \A i, j \in 1 .. n : i # j => PagesIn(R[i]) \cap PagesIn(R[j]) = {}
  BY <1>1 DEF TrackedInv, n, R
<1>13. TrackedInv'
  <2>1. \A i \in 1 .. n - 1 : WholeBlock(S[i])
    BY <1>9, <1>12
  <2>2. \A i, j \in 1 .. n - 1 : i # j => PagesIn(S[i]) \cap PagesIn(S[j]) = {}
    BY <1>9, <1>11, <1>12
  <2> QED BY <1>9, <2>1, <2>2 DEF TrackedInv, S
<1>14. FwMap' /\ \A p \in Dom : fw'[p] = IF p \in PagesIn(b) THEN "conventional" ELSE fw[p]
  <2>1. "conventional" \in FwTypes /\ PagesOf(b) = PagesIn(b)
    BY <1>1, PagesInFact DEF FwTypes
  <2> QED BY <1>1, <1>7, <2>1, RetypeFw
<1>15. LoaderPages'
  <2> SUFFICES ASSUME NEW p \in Dom
               PROVE  fw'[p] = "loader" <=> \E i \in 1 .. n - 1 : p \in PagesIn(S[i])
    BY <1>9 DEF LoaderPages, S
  <2>1. fw[p] = "loader" <=> \E i \in 1 .. n : p \in PagesIn(R[i])
    BY <1>1 DEF LoaderPages, n, R
  <2>2. CASE p \in PagesIn(b)
    <3>1. \A i \in 1 .. n : i # m => p \notin PagesIn(R[i])
      BY <1>4, <1>9, <1>12, <2>2 DEF n, R
    <3> QED BY <1>9, <1>14, <2>2, <3>1
  <2>3. CASE p \notin PagesIn(b)
    <3>1. (\E i \in 1 .. n - 1 : p \in PagesIn(S[i])) <=> \E i \in 1 .. n : p \in PagesIn(R[i])
      BY <1>4, <1>9, <1>10, <2>3 DEF R, n
    <3> QED BY <1>14, <2>1, <2>3, <3>1
  <2> QED BY <2>2, <2>3
<1>16. HeldTracked'
  <2>1. \A i \in 1 .. n : R[i] = b => i = m
    BY <1>4, <1>5 DEF R, n
  <2>2. {S[j] : j \in 1 .. n - 1} = {R[i] : i \in 1 .. n} \ {b}
    <3>1. \A j \in 1 .. n - 1 : S[j] \in {R[i] : i \in 1 .. n} \ {b}
      BY <1>9, <2>1
    <3>2. \A i \in 1 .. n : R[i] # b => R[i] \in {S[j] : j \in 1 .. n - 1}
      <4>1. b = R[m]
        BY <1>4 DEF R
      <4> QED BY <1>10, <4>1
    <3> QED BY <3>1, <3>2
  <2> QED BY <1>3, <1>7, <1>9, <2>2 DEF HeldTracked, Tracked, S, R, n
<1>17. PlaceInv' /\ ExitInv'
  BY <1>2 DEF PlaceInv, ExitInv
<1>18. ChangesInv'
  BY <1>1, <1>2 DEF ChangesInv, Sized
<1>19. EfiTypes'
  BY <1>1, <1>2, <1>8, <1>14 DEF EfiTypes, S
<1>20. NoInternalError'
  BY <1>2, <1>7 DEF NoInternalError
<1> QED BY <1>13, <1>15, <1>16, <1>17, <1>18, <1>19, <1>20 DEF EfiInv

(* efi_exit() gives back every page it has.                                *)
LEMMA EfiExitStep ==
  ASSUME EfiInv, EfiExit
  PROVE  EfiInv'
<1> DEFINE R == efi_memory_ranges
           C == Cleanup(R)
<1>1. /\ FwMap /\ R \in Seq(MemoryRange) /\ stage \in Stages /\ chosen \in Nat
      /\ num_entries \in Nat /\ map_key \in Nat /\ changes \in Nat /\ tries \in Nat
      /\ LoaderPages /\ ChangesInv
  BY DEF EfiInv, EfiTypes
<1>2. /\ fw' = Retype(C, "conventional") /\ efi_memory_ranges' = <<>> /\ stage' = "left"
      /\ UNCHANGED <<efi_held, efi_map, tries, efi_status, chosen, num_entries, map_key, changes>>
      /\ stage = "run" /\ efi_status = "ok"
  BY DEF EfiExit, EfiCanRun, callVars, finalVars
<1>3. \A p : p \in C <=> \E i \in 1 .. Len(R) : p \in PagesIn(R[i])
  <2>1. C = UNION {PagesOf(R[i]) : i \in 1 .. Len(R)}
    BY DEF Cleanup
  <2>2. \A i \in 1 .. Len(R) : PagesOf(R[i]) = PagesIn(R[i])
    BY <1>1, PagesInFact
  <2> HIDE DEF C
  <2> QED BY <2>1, <2>2
<1> HIDE DEF C
<1>4. FwMap' /\ \A p \in Dom : fw'[p] = IF p \in C THEN "conventional" ELSE fw[p]
  <2>1. "conventional" \in FwTypes
    BY DEF FwTypes
  <2> QED BY <1>1, <1>2, <2>1, RetypeFw
<1>5. \A p \in Dom : fw'[p] # "loader"
  BY <1>1, <1>3, <1>4 DEF LoaderPages
<1>6. Len(efi_memory_ranges') = 0 /\ efi_memory_ranges' \in Seq(MemoryRange) /\ 1 .. 0 = {}
  BY <1>2
<1>7. TrackedInv' /\ LoaderPages'
  BY <1>5, <1>6 DEF TrackedInv, LoaderPages
<1>8. HeldTracked' /\ PlaceInv' /\ ExitInv' /\ NoInternalError'
  BY <1>2 DEF HeldTracked, PlaceInv, ExitInv, NoInternalError
<1>9. ChangesInv'
  BY <1>1, <1>2 DEF ChangesInv, Sized, Between
<1>10. EfiTypes'
  BY <1>1, <1>2, <1>4, <1>6 DEF EfiTypes, Stages
<1> QED BY <1>7, <1>8, <1>9, <1>10 DEF EfiInv

(* The map of the kernel, and the attempts to end boot services.           *)
LEMMA EfiBuildStep ==
  ASSUME EfiInv, NEW rank \in Orders, NEW junk \in Unwritten, BuildKernelMap(rank, junk)
  PROVE  EfiInv'
<1>1. /\ stage \in Stages /\ chosen \in Nat /\ tries \in Nat /\ map_key \in Nat /\ changes \in Nat
      /\ ChangesInv
  BY DEF EfiInv, EfiTypes
<1>2. /\ stage = "final_size" /\ stage' = "final" /\ efi_status = "ok"
      /\ num_entries' = 0 /\ map_key' = 0 /\ changes' = 0
      /\ UNCHANGED <<fw, efi_memory_ranges, efi_held, asked, chosen, efi_map, tries, efi_status>>
  BY DEF BuildKernelMap
<1>3. tries = 0
  BY <1>1, <1>2 DEF ChangesInv
<1>4. PlaceInv' /\ ChangesInv' /\ ExitInv' /\ NoInternalError'
  BY <1>1, <1>2, <1>3 DEF PlaceInv, ChangesInv, ExitInv, NoInternalError, Sized
<1>5. stage' \in Stages \ {"left"} /\ stage # "left"
  BY <1>2 DEF Stages, Between
<1> QED BY <1>1, <1>2, <1>4, <1>5, SameBlocks

LEMMA EfiLeavingStep ==
  ASSUME EfiInv, ExitGetMap \/ ExitCall
  PROVE  EfiInv'
<1>1. /\ FwMap /\ stage \in Stages /\ chosen \in Nat /\ num_entries \in Nat
      /\ map_key \in Nat /\ changes \in Nat /\ tries \in Nat /\ ChangesInv /\ ExitInv
  BY DEF EfiInv, EfiTypes
<1>2. CASE ExitGetMap
  <2>1. /\ efi_map' = fw /\ stage = "exit_size" /\ stage' = "exit_map" /\ efi_status = "ok"
        /\ map_key' = changes
        /\ UNCHANGED <<fw, efi_memory_ranges, efi_held, asked, chosen, num_entries, changes,
                       tries, efi_status>>
    BY <1>2 DEF ExitGetMap
  <2>2. PlaceInv' /\ ExitInv' /\ NoInternalError'
    BY <2>1 DEF PlaceInv, ExitInv, NoInternalError
  <2>3. ChangesInv'
    BY <1>1, <2>1 DEF ChangesInv, Sized, Between
  <2>4. stage' \in Stages \ {"left"} /\ stage # "left"
    BY <2>1 DEF Stages
  <2> QED BY <1>1, <2>1, <2>2, <2>3, <2>4, SameBlocks
<1>3. CASE ExitCall
  <2>1. /\ stage = "exit_map" /\ efi_status = "ok"
        /\ UNCHANGED <<fw, efi_memory_ranges, efi_held, asked, chosen, num_entries, map_key,
                       changes, efi_map>>
    BY <1>3 DEF ExitCall, callVars
  <2>2. CASE map_key = changes
    <3>1. stage' = "exited" /\ UNCHANGED <<tries, efi_status>>
      BY <1>3, <2>2 DEF ExitCall
    <3>2. PlaceInv' /\ NoInternalError'
      BY <2>1, <3>1 DEF PlaceInv, NoInternalError
    <3>3. ExitInv'
      BY <1>1, <2>1, <2>2, <3>1 DEF ExitInv
    <3>4. ChangesInv'
      BY <1>1, <2>1, <3>1 DEF ChangesInv, Sized, Between
    <3>5. stage' \in Stages \ {"left"} /\ stage # "left"
      BY <2>1, <3>1 DEF Stages
    <3> QED BY <1>1, <2>1, <3>1, <3>2, <3>3, <3>4, <3>5, SameBlocks
  <2>3. CASE map_key # changes
    <3>1. /\ stage' = "exit_retry" /\ tries' = tries + 1
          /\ efi_status' = IF tries' = 2 THEN "exit_failed" ELSE "ok"
      BY <1>3, <2>3 DEF ExitCall, Retry
    <3>2. tries' \in Nat /\ tries' <= changes /\ map_key <= changes
      BY <1>1, <2>1, <2>3, <3>1 DEF ChangesInv
    <3>3. ChangesInv'
      BY <2>1, <3>1, <3>2 DEF ChangesInv, Sized, Between
    <3>4. PlaceInv' /\ ExitInv'
      BY <3>1 DEF PlaceInv, ExitInv
    <3>5. NoInternalError'
      BY <2>1, <3>1, <3>2 DEF NoInternalError
    <3>6. stage' \in Stages \ {"left"} /\ stage # "left"
      BY <2>1, <3>1 DEF Stages
    <3> QED BY <1>1, <2>1, <3>1, <3>2, <3>3, <3>4, <3>5, <3>6, SameBlocks
  <2> QED BY <2>2, <2>3
<1> QED BY <1>2, <1>3

LEMMA EfiSteps ==
  ASSUME EfiInv, EfiPlacesComputed, [EfiNext]_efiVars
  PROVE  EfiInv'
<1>1. CASE \E p \in FwPages, type \in FwTypes : FwChange(p, type)
  BY <1>1, FwChangeStep
<1>2. CASE MapGrew
  BY <1>2, MapGrewStep
<1>3. CASE \E call \in EfiRequests : EfiMemoryAlloc(call)
  <2>1. PICK call \in EfiRequests : EfiMemoryAlloc(call)
    BY <1>3
  <2>2. /\ stage = "run" /\ efi_status = "ok" /\ stage' = "alloc_size" /\ asked' = WithDefaults(call)
        /\ GetMapSize("alloc_size", 0)
        /\ UNCHANGED <<fw, efi_memory_ranges, efi_held, chosen, efi_status, tries>>
    BY <2>1 DEF EfiMemoryAlloc, EfiCanRun, GetMapSize, finalVars
  <2>3. stage' \in Sized /\ stage \in Between /\ GetMapSize(stage', 0)
    BY <2>2 DEF Sized, Between
  <2> DEFINE since == 0
  <2>4. since = 0 /\ GetMapSize(stage', since)
    BY <2>3
  <2> HIDE DEF since
  <2> QED BY <2>2, <2>3, <2>4, MapSizeStep
<1>4. CASE EfiMemoryFinalize
  <2>1. /\ stage = "run" /\ efi_status = "ok" /\ stage' = "final_size"
        /\ GetMapSize("final_size", 0)
        /\ UNCHANGED <<fw, efi_memory_ranges, efi_held, chosen, efi_status, tries>>
    BY <1>4 DEF EfiMemoryFinalize, EfiCanRun, GetMapSize, finalVars
  <2>2. stage' \in Sized /\ stage' # "alloc_size" /\ stage \in Between /\ GetMapSize(stage', 0)
    BY <2>1 DEF Sized, Between
  <2> DEFINE since == 0
  <2>3. since = 0 /\ GetMapSize(stage', since)
    BY <2>2
  <2> HIDE DEF since
  <2> QED BY <2>1, <2>2, <2>3, MapSizeStep
<1>5. CASE ExitMapSize
  <2>1. /\ efi_status = "ok" /\ stage' = "exit_size" /\ stage' \in Sized /\ stage' # "alloc_size"
        /\ UNCHANGED <<fw, efi_memory_ranges, efi_held, chosen, efi_status, tries>>
    BY <1>5 DEF ExitMapSize, GetMapSize, finalVars, Sized
  <2>2. \E since : /\ GetMapSize(stage', since)
                   /\ \/ stage \in Between /\ since = 0
                      \/ stage = "exit_retry" /\ since = changes
    BY <1>5, <2>1 DEF ExitMapSize, Between
  <2>3. PICK since : /\ GetMapSize(stage', since)
                     /\ \/ stage \in Between /\ since = 0
                        \/ stage = "exit_retry" /\ since = changes
    BY <2>2
  <2> QED BY <2>1, <2>3, MapSizeStep
<1>6. CASE \E junk \in Unwritten : EfiAllocChoose(junk)
  BY <1>6, EfiChooseStep
<1>7. CASE \E junk \in Unwritten : EfiAllocFails(junk)
  BY <1>7, EfiAllocFailsStep
<1>8. CASE EfiAllocPages
  BY <1>8, EfiPagesStep
<1>9. CASE \E b \in efi_held : EfiMemoryFree(b)
  BY <1>9, EfiFreeStep
<1>10. CASE \E rank \in Orders : \E junk \in Unwritten : BuildKernelMap(rank, junk)
  BY <1>10, EfiBuildStep
<1>11. CASE EfiExit
  BY <1>11, EfiExitStep
<1>12. CASE ExitGetMap \/ ExitCall
  BY <1>12, EfiLeavingStep
<1>13. CASE UNCHANGED efiVars
  <2>1. EfiTypes' /\ TrackedInv' /\ LoaderPages'
    BY <1>13 DEF efiVars, EfiInv, EfiTypes, FwMap, TrackedInv, LoaderPages
  <2>5. HeldTracked'
    BY <1>13 DEF efiVars, EfiInv, HeldTracked, Tracked
  <2>2. ExitInv' /\ NoInternalError'
    BY <1>13 DEF efiVars, EfiInv, ExitInv, NoInternalError
  <2>3. ChangesInv'
    BY <1>13, SameDescriptors DEF efiVars, EfiInv, ChangesInv
  <2>4. PlaceInv'
    BY <1>13 DEF efiVars, EfiInv, PlaceInv, Chosen, Granted, Covered, PagesOf, PlaceFits
  <2> QED BY <2>1, <2>2, <2>3, <2>4, <2>5 DEF EfiInv
<1> QED BY <1>1, <1>2, <1>3, <1>4, <1>5, <1>6, <1>7, <1>8, <1>9, <1>10, <1>11, <1>12, <1>13
        DEF EfiNext

LEMMA EfiInvariant == EfiSpec /\ []EfiPlacesComputed => []EfiInv
<1>1. EfiInit => EfiInv
  BY EfiStarts
<1>2. EfiInv /\ EfiPlacesComputed /\ [EfiNext]_efiVars => EfiInv'
  BY EfiSteps
<1> QED BY <1>1, <1>2, PTL DEF EfiSpec

(* No internal error of the loader's own making on EFI, wherever between   *)
(* its calls the firmware changes the map: memory_free() finds every block *)
(* it is given; memory_alloc() and memory_finalize() stop only if the map  *)
(* changed under that call, and ending boot services only if it changed    *)
(* once more than there were attempts before.                              *)
THEOREM EfiNoInternalError == EfiSpec /\ []EfiPlacesComputed => []NoInternalError
<1>1. EfiInv => NoInternalError
  BY DEF EfiInv
<1> QED BY <1>1, EfiInvariant, PTL

(* The loader goes on alone only with the firmware's last map, and leaves  *)
(* no page allocated when efi_exit() returns to the firmware.              *)
THEOREM EfiCleanHandover == EfiSpec /\ []EfiPlacesComputed => []CleanHandover
<1>1. EfiInv => CleanHandover
  <2> SUFFICES ASSUME EfiInv PROVE CleanHandover
    OBVIOUS
  <2>1. FwMap /\ LoaderPages /\ ExitInv
    BY DEF EfiInv, EfiTypes
  <2>2. ASSUME stage = "left" PROVE \A p \in DOMAIN fw : fw[p] # "loader"
    <3>1. Len(efi_memory_ranges) = 0 /\ 1 .. 0 = {}
      BY <2>1, <2>2 DEF ExitInv
    <3> QED BY <2>1, <3>1, DomFact DEF LoaderPages
  <2> QED BY <2>1, <2>2 DEF CleanHandover, ExitInv
<1> QED BY <1>1, EfiInvariant, PTL

(* memory_alloc() on EFI takes the highest place there is for a request    *)
(* with MEMORY_ALLOC_HIGH, and the lowest for one without, unless the      *)
(* firmware changes its map during the call.                               *)
THEOREM EfiExtremePlace == EfiSpec /\ []EfiPlacesComputed => ExtremePlace
<1> DEFINE A == EfiAllocPages /\ changes = 0 =>
                  \A b \in efi_held' \ efi_held : \A at \in Addr :
                    PlaceFits(at, asked) => IF asked.high THEN at <= b.start ELSE at >= b.start
<1>1. EfiInv => A
  <2> SUFFICES ASSUME EfiInv, EfiAllocPages, changes = 0, NEW b \in efi_held' \ efi_held,
                      NEW at \in Addr, PlaceFits(at, asked)
               PROVE  IF asked.high THEN at <= b.start ELSE at >= b.start
    OBVIOUS
  <2>1. stage = "alloc_pages" /\ (efi_held' = efi_held \cup {Chosen} \/ efi_held' = efi_held)
    BY Zenon DEF EfiAllocPages, Chosen
  <2>2. b.start = chosen
    BY <2>1 DEF Chosen
  <2> QED BY <2>1, <2>2 DEF EfiInv, PlaceInv
<1>2. ExtremePlace <=> [][A]_efiVars
  BY DEF ExtremePlace
<1> HIDE DEF A
<1>3. EfiInv => [A]_efiVars
  BY <1>1
<1> QED BY <1>2, <1>3, EfiInvariant, PTL

(* memory_alloc() on EFI fails only if there is no place for the request   *)
(* in the firmware's map when it is read.                                  *)
EfiRefusesForAReason ==
  [][\A junk \in Unwritten : EfiAllocFails(junk) =>
       \A at \in Addr : ~PlaceFits(at, asked)]_efiVars

(* memory_alloc() on EFI gives up only on a request for which the firmware *)
(* has no free pages inside its limits and with its alignment.             *)
THEOREM EfiRefusals == EfiSpec /\ []EfiPlacesComputed => EfiRefusesForAReason
<1> DEFINE A == \A junk \in Unwritten : EfiAllocFails(junk) =>
                  \A at \in Addr : ~PlaceFits(at, asked)
<1>1. EfiInv => A
  <2> SUFFICES ASSUME EfiInv, NEW junk \in Unwritten, EfiAllocFails(junk),
                      NEW at \in Addr, PlaceFits(at, asked)
               PROVE  FALSE
    OBVIOUS
  <2> DEFINE map == Descriptors \cup Range(junk)
  <2>1. FwMap /\ BestDescriptor(asked, map) = {} /\ stage = "alloc_size"
    BY DEF EfiInv, EfiTypes, EfiAllocFails
  <2>2. PICK call \in EfiRequests : asked = WithDefaults(call)
    BY <2>1 DEF EfiInv, PlaceInv
  <2>3. GoodRequest(asked)
    BY <2>2, EfiCalls
  <2>4. PICK p, q \in Dom : /\ Longest(p, q) /\ fw[p] = "conventional"
                            /\ InPlace(Span(Descriptor(p, q)), asked, at)
    BY <2>1, <2>3, FitInDescriptor
  <2> DEFINE e == Descriptor(p, q)
  <2>5. Span(e) \in MemoryRange /\ e.type = "conventional" /\ e \in Descriptors
    BY <2>1, <2>4, SpanFact, DescriptorsFact, DomFact
  <2>6. Suitable(e, asked)
    BY <2>3, <2>4, <2>5, PlaceSuitable, SpanSuitable
  <2>7. \A d \in map : d.start \in Addr
    BY <2>1, DescriptorTypes
  <2>8. e \in map /\ EfiSuitable(e, asked)
    BY <2>5, <2>6 DEF EfiSuitable
  <2> HIDE DEF e, map
  <2> QED BY <2>1, <2>7, <2>8, BestExists
<1>2. EfiRefusesForAReason <=> [][A]_efiVars
  BY DEF EfiRefusesForAReason
<1> HIDE DEF A
<1>3. EfiInv => [A]_efiVars
  BY <1>1
<1> QED BY <1>2, <1>3, EfiInvariant, PTL

-----------------------------------------------------------------------------
(***************************************************************************)
(* The map memory_finalize() returns on EFI.                               *)
(***************************************************************************)

(* The firmware lists every descriptor. *)
LEMMA ListedFact ==
  ASSUME FwMap, NEW rank \in Orders, NEW o, o = Listed(rank)
  PROVE  o \in Seq(Descriptors) /\ \A d \in Descriptors : \E i \in 1 .. Len(o) : o[i] = d
<1> DEFINE D == Descriptors
           n == Cardinality(D)
           B(d) == {e \in D : rank[e.start] <= rank[d.start]}
           f == [d \in D |-> ListPlace(d, rank)]
<1>1. IsFiniteSet(D) /\ n \in Nat
  BY DescriptorStarts, FS_CardinalityType
<1>2. /\ \A d \in D : rank[d.start] \in Nat
      /\ \A d, e \in D : rank[d.start] = rank[e.start] => d = e
  <2>1. \A d \in D : \E p \in Dom : d.start = p * PAGE_SIZE
    BY DescriptorStarts
  <2>2. \A d, e \in D : d.start = e.start => d = e
    BY DescriptorStarts
  <2>3. \A p, q \in Dom : /\ rank[p * PAGE_SIZE] \in Nat
                          /\ rank[p * PAGE_SIZE] = rank[q * PAGE_SIZE] => p = q
    BY EfiAssumption DEF Dom
  <2> HIDE DEF D
  <2> QED BY <2>1, <2>2, <2>3
<1> HIDE DEF D
<1>3. ASSUME NEW d \in D PROVE IsFiniteSet(B(d)) /\ f[d] = Cardinality(B(d)) /\ f[d] \in 1 .. n
  <2>1. B(d) \in SUBSET D /\ d \in B(d)
    BY <1>2
  <2>2. IsFiniteSet(B(d)) /\ Cardinality(B(d)) <= n
    <3> HIDE DEF B
    <3> QED BY <1>1, <2>1, FS_Subset
  <2>3. Cardinality(B(d)) \in Nat /\ Cardinality(B(d)) # 0
    <3> HIDE DEF B
    <3> QED BY <2>1, <2>2, FS_CardinalityType, FS_EmptySet
  <2>4. f[d] = Cardinality(B(d))
    BY DEF ListPlace, D
  <2> HIDE DEF B, f, n
  <2> QED BY <1>1, <2>2, <2>3, <2>4
<1>4. ASSUME NEW d \in D, NEW e \in D, rank[d.start] < rank[e.start] PROVE f[d] # f[e]
  <2>1. B(d) \in SUBSET B(e) /\ e \in B(e) /\ e \notin B(d)
    BY <1>2, <1>4
  <2>2. Cardinality(B(e)) = Cardinality(B(d)) => B(e) = B(d)
    <3>1. IsFiniteSet(B(e))
      BY <1>3
    <3> HIDE DEF B
    <3> QED BY <2>1, <3>1, FS_Subset
  <2>3. f[d] = Cardinality(B(d)) /\ f[e] = Cardinality(B(e))
    BY <1>3
  <2> HIDE DEF B, f
  <2> QED BY <2>1, <2>2, <2>3
<1>5. \A d, e \in D : f[d] = f[e] => d = e
  <2> TAKE d, e \in D
  <2>1. rank[d.start] \in Nat /\ rank[e.start] \in Nat
    BY <1>2
  <2>2. rank[d.start] < rank[e.start] \/ rank[e.start] < rank[d.start] \/ rank[d.start] = rank[e.start]
    BY <2>1
  <2> HIDE DEF f
  <2> QED BY <1>2, <1>4, <2>2
<1>6. f \in Injection(D, 1 .. n)
  BY <1>3, <1>5 DEF Injection, IsInjective
<1>7. IsFiniteSet(1 .. n) /\ Cardinality(1 .. n) = n
  <2>1. 1 \in Int /\ n \in Int /\ (1 > n <=> n = 0) /\ n - 1 + 1 = n
    BY <1>1
  <2>2. IsFiniteSet(1 .. n) /\ Cardinality(1 .. n) = IF 1 > n THEN 0 ELSE n - 1 + 1
    BY <2>1, FS_Interval
  <2> QED BY <2>1, <2>2
<1>8. f \in Surjection(D, 1 .. n)
  <2> HIDE DEF f
  <2>1. Cardinality(D) = Cardinality(1 .. n)
    BY <1>7
  <2> QED BY <1>6, <1>7, <2>1, FS_Injection
<1>9. \A i \in 1 .. n : \E d \in D : ListPlace(d, rank) = i
  <2>1. \A i \in 1 .. n : \E d \in D : f[d] = i
    BY <1>8 DEF Surjection
  <2> QED BY <2>1
<1>10. \A d \in D : ListPlace(d, rank) \in 1 .. n
  BY <1>3
<1>11. \A d, e \in D : ListPlace(d, rank) = ListPlace(e, rank) => d = e
  BY <1>5
<1> HIDE DEF f
<1>12. o = [i \in 1 .. n |-> CHOOSE d \in D : ListPlace(d, rank) = i]
  BY DEF Listed, D
<1> HIDE DEF n
<1>13. \A i \in 1 .. n : o[i] \in D /\ ListPlace(o[i], rank) = i
  BY <1>9, <1>12
<1>14. o \in Seq(D) /\ Len(o) = n
  BY <1>1, <1>12, <1>13 DEF n
<1>15. \A d \in D : \E i \in 1 .. n : o[i] = d
  BY <1>10, <1>11, <1>13
<1> QED BY <1>14, <1>15 DEF D

(* The two loops of get_memory_map() as folds. *)
InsertUsable(map, d) ==
  IF d.type \in Usable THEN MapInsert(map, d.start, d.size, MEMORY_TYPE_FREE) ELSE map
InsertTracked(map, r) == MapInsert(map, r.start, r.size, KernelType(r.type))

UsableLoop == INSTANCE FoldLemmas WITH Op <- InsertUsable
TrackedLoop == INSTANCE FoldLemmas WITH Op <- InsertTracked

LEMMA LoopsAreFolds ==
  /\ \A order : AddUsable(order) = UsableLoop!Fold(<<>>, order)
  /\ \A map, ranges : AddTracked(map, ranges) = TrackedLoop!Fold(map, ranges)
<1>1. ASSUME NEW order PROVE AddUsable(order) = UsableLoop!Fold(<<>>, order)
  BY DEF AddUsable, UsableLoop!Fold, InsertUsable, FoldLeft, MapThenFoldSet, Max,
         UsableLoop!FoldLeft, UsableLoop!MapThenFoldSet, UsableLoop!Max
<1>2. ASSUME NEW map, NEW ranges PROVE AddTracked(map, ranges) = TrackedLoop!Fold(map, ranges)
  BY DEF AddTracked, TrackedLoop!Fold, InsertTracked, FoldLeft, MapThenFoldSet, Max,
         TrackedLoop!FoldLeft, TrackedLoop!MapThenFoldSet, TrackedLoop!Max
<1> QED BY <1>1, <1>2

LEMMA UsableStages ==
  ASSUME NEW S, NEW order \in Seq(S)
  PROVE  \E h : /\ h[0] = <<>> /\ AddUsable(order) = h[Len(order)]
                /\ \A k \in 1 .. Len(order) : h[k] = InsertUsable(h[k - 1], order[k])
<1>1. \E h : UsableLoop!Stages(h, <<>>, order) /\ UsableLoop!Fold(<<>>, order) = h[Len(order)]
  BY UsableLoop!FoldStages
<1> QED BY <1>1, LoopsAreFolds DEF UsableLoop!Stages

LEMMA TrackedStages ==
  ASSUME NEW S, NEW ranges \in Seq(S), NEW map
  PROVE  \E h : /\ h[0] = map /\ AddTracked(map, ranges) = h[Len(ranges)]
                /\ \A k \in 1 .. Len(ranges) : h[k] = InsertTracked(h[k - 1], ranges[k])
<1>1. \E h : TrackedLoop!Stages(h, map, ranges) /\ TrackedLoop!Fold(map, ranges) = h[Len(ranges)]
  BY TrackedLoop!FoldStages
<1> QED BY <1>1, LoopsAreFolds DEF TrackedLoop!Stages

-----------------------------------------------------------------------------
(* Page p is in the range. *)
HasPage(r, p) == r.start <= p * PAGE_SIZE /\ p * PAGE_SIZE < r.start + r.size

LEMMA EmptyMap ==
  ListOK(<<>>) /\ \A x : TypeAt(<<>>, x) = NoMemory
<1>1. \A x, ty : ~Holds(<<>>, x, ty)
  BY DEF Holds
<1>2. <<>> \in Seq(MemoryRange) /\ Apart(<<>>) /\ Clean(<<>>) /\ PageWise(<<>>)
  BY <1>1 DEF Apart, Clean, PageWise
<1>3. \A x : TypeAt(<<>>, x) = NoMemory
  BY DEF TypeAt
<1> QED BY <1>2, <1>3 DEF ListOK

(* memory_map_insert() of whole pages, page by page.                       *)
LEMMA InsertPages ==
  ASSUME NEW s, ListOK(s), NEW r, WholePages(r.start, r.size), NEW ty \in MemoryTypes,
         NEW t, t = MapInsert(s, r.start, r.size, ty)
  PROVE  /\ ListOK(t)
         /\ \A p \in PageSet : TypeAt(t, p * PAGE_SIZE) =
              IF HasPage(r, p) THEN ty ELSE TypeAt(s, p * PAGE_SIZE)
<1> DEFINE a == r.start
           n == r.size
<1>1. ListOK(t) /\ Updated(s, t, a, a + n - 1, ty)
  BY InsertOK
<1>2. \A p \in PageSet : TypeAt(t, p * PAGE_SIZE) =
        IF a <= p * PAGE_SIZE /\ p * PAGE_SIZE < a + n THEN ty ELSE TypeAt(s, p * PAGE_SIZE)
  BY <1>1, PagesUpdated
<1> QED BY <1>1, <1>2 DEF HasPage

(* A descriptor is of whole pages, the ones of its run.                    *)
LEMMA DescriptorPages ==
  ASSUME FwMap, NEW p \in Dom, NEW q \in Dom, Longest(p, q), NEW d, d = Descriptor(p, q)
  PROVE  /\ WholePages(d.start, d.size)
         /\ \A x \in PageSet : HasPage(d, x) <=> p <= x /\ x <= q
<1> DEFINE n == (q - p + 1) * PAGE_SIZE
           st == p * PAGE_SIZE
<1>1. d.start = st /\ d.size = n
  BY DEF Descriptor
<1>2. p \in Nat /\ q \in Nat /\ p <= q /\ p \in PageSet /\ q \in PageSet /\ n < AddrMod
  BY DomFact DEF Longest, OneType
<1>3. st + n = (q + 1) * PAGE_SIZE
  BY <1>2, PageSize
<1>4. st \in Nat /\ st % PAGE_SIZE = 0 /\ st < AddrMod
  BY <1>2, PageNumbers
<1>5. n \in Nat /\ n # 0 /\ n % PAGE_SIZE = 0
  <2> DEFINE m == q - p + 1
  <2>1. m \in Nat /\ m \in Int /\ m # 0 /\ n = m * PAGE_SIZE
    BY <1>2
  <2> HIDE DEF m, n
  <2>2. m * PAGE_SIZE = PAGE_SIZE * m /\ (PAGE_SIZE * m) % PAGE_SIZE = 0
    BY <2>1, PageSize, Multiple
  <2>3. m * PAGE_SIZE \in Nat /\ m * PAGE_SIZE >= PAGE_SIZE
    <3>1. m - 1 \in Nat /\ m * PAGE_SIZE = (m - 1) * PAGE_SIZE + PAGE_SIZE
      BY <2>1, PageSize
    <3>2. (m - 1) * PAGE_SIZE \in Nat
      BY <3>1, PageSize
    <3> QED BY <3>1, <3>2, PageSize
  <2> QED BY <2>1, <2>2, <2>3, PageSize
<1>6. (q + 1) * PAGE_SIZE <= AddrMod
  <2>1. q + 1 \in Nat /\ (q + 1) * PAGE_SIZE \in Nat
    BY <1>2, PageSize
  <2>2. (q + 1) * PAGE_SIZE <= (q + 1) * PAGE_SIZE
    BY <2>1
  <2>3. \E x \in PageSet : (q + 1) * PAGE_SIZE <= (x + 1) * PAGE_SIZE
    BY <1>2, <2>2
  <2> QED BY <2>1, <2>3, PageNumbers
<1>7. WholePages(d.start, d.size)
  <2> HIDE DEF n, st
  <2> QED BY <1>1, <1>2, <1>3, <1>4, <1>5, <1>6 DEF WholePages
<1>8. ASSUME NEW x \in PageSet PROVE HasPage(d, x) <=> p <= x /\ x <= q
  <2>1. x \in Int /\ p \in Int /\ q + 1 \in Int /\ (x <= q <=> x < q + 1)
    BY <1>2, PageNumbers
  <2>2. st <= x * PAGE_SIZE <=> p <= x
    BY <2>1, PageOrder
  <2>3. x * PAGE_SIZE < (q + 1) * PAGE_SIZE <=> x < q + 1
    <3>1. CASE x < q + 1
      <4>1. x * PAGE_SIZE + PAGE_SIZE <= (q + 1) * PAGE_SIZE
        BY <2>1, <3>1, PageOrder
      <4>2. x * PAGE_SIZE \in Int /\ (q + 1) * PAGE_SIZE \in Int
        BY <2>1, PageSize
      <4> QED BY <3>1, <4>1, <4>2, PageSize
    <3>2. CASE ~(x < q + 1)
      BY <2>1, <3>2, PageOrder
    <3> QED BY <3>1, <3>2
  <2> QED BY <1>1, <1>3, <2>1, <2>2, <2>3 DEF HasPage
<1> QED BY <1>7, <1>8

(* What can be used is free in the map, and the rest is not in it.         *)
LEMMA AddUsableMap ==
  ASSUME FwMap, NEW order \in Seq(Descriptors),
         \A d \in Descriptors : \E i \in 1 .. Len(order) : order[i] = d,
         NEW map, map = AddUsable(order)
  PROVE  /\ ListOK(map)
         /\ \A p \in PageSet : TypeAt(map, p * PAGE_SIZE) =
              IF p \in Dom /\ fw[p] \in Usable THEN MEMORY_TYPE_FREE ELSE NoMemory
<1> DEFINE n == Len(order)
           Done(k, p) == \E i \in 1 .. k : order[i].type \in Usable /\ HasPage(order[i], p)
<1>1. PICK h : /\ h[0] = <<>> /\ map = h[n]
               /\ \A k \in 1 .. n : h[k] = InsertUsable(h[k - 1], order[k])
  BY UsableStages
<1> DEFINE Good(k) ==
             /\ ListOK(h[k])
             /\ \A p \in PageSet : TypeAt(h[k], p * PAGE_SIZE) =
                  IF Done(k, p) THEN MEMORY_TYPE_FREE ELSE NoMemory
           G == {k \in 0 .. n : Good(k)}
<1>2. n \in Nat /\ \A i \in 1 .. n : order[i] \in Descriptors
  OBVIOUS
<1>3. 0 \in G
  <2>1. 0 \in 0 .. n /\ 1 .. 0 = {}
    BY <1>2
  <2>2. \A p : ~Done(0, p)
    BY <2>1
  <2> HIDE DEF Done
  <2> QED BY <1>1, <2>1, <2>2, EmptyMap
<1>4. ASSUME NEW k \in 1 .. n, k - 1 \in G PROVE k \in G
  <2> DEFINE d == order[k]
  <2>1. Good(k - 1) /\ h[k] = InsertUsable(h[k - 1], d) /\ d \in Descriptors /\ k \in 0 .. n /\ k \in Nat
    BY <1>1, <1>2, <1>4
  <2>2. \A p : Done(k, p) <=> Done(k - 1, p) \/ (d.type \in Usable /\ HasPage(d, p))
    <3>1. \A i \in 1 .. k : i \in 1 .. k - 1 \/ i = k
      BY <2>1
    <3>2. k \in 1 .. k /\ 1 .. k - 1 \subseteq 1 .. k
      BY <2>1
    <3> QED BY <3>1, <3>2
  <2>3. CASE d.type \in Usable
    <3>1. h[k] = MapInsert(h[k - 1], d.start, d.size, MEMORY_TYPE_FREE)
      BY <2>1, <2>3 DEF InsertUsable
    <3>2. WholePages(d.start, d.size)
      BY <2>1, DescriptorsFact, DomFact, DescriptorPages
    <3> HIDE DEF d, Done
    <3>3. /\ ListOK(h[k])
          /\ \A p \in PageSet : TypeAt(h[k], p * PAGE_SIZE) =
               IF HasPage(d, p) THEN MEMORY_TYPE_FREE ELSE TypeAt(h[k - 1], p * PAGE_SIZE)
      BY <2>1, <3>1, <3>2, InsertPages, InternalType
    <3> QED BY <2>1, <2>2, <2>3, <3>3
  <2>4. CASE d.type \notin Usable
    <3>1. h[k] = h[k - 1]
      BY <2>1, <2>4 DEF InsertUsable
    <3> HIDE DEF d, Done
    <3> QED BY <2>1, <2>2, <2>4, <3>1
  <2> QED BY <2>3, <2>4
<1>5. n \in G
  <2> HIDE DEF G
  <2>1. \A k \in 1 .. n : k - 1 \in G => k \in G
    BY <1>4
  <2>2. \A k \in 0 .. n : k \in G
    BY <1>2, <1>3, <2>1, UpTo
  <2> QED BY <1>2, <2>2
<1>6. ASSUME NEW p \in PageSet PROVE Done(n, p) <=> p \in Dom /\ fw[p] \in Usable
  <2>1. ASSUME NEW i \in 1 .. n, order[i].type \in Usable, HasPage(order[i], p)
        PROVE  p \in Dom /\ fw[p] \in Usable
    <3>1. PICK u, v \in Dom : Longest(u, v) /\ order[i] = Descriptor(u, v)
      BY <1>2, DescriptorsFact, DomFact
    <3>2. u <= p /\ p <= v
      BY <2>1, <3>1, DescriptorPages
    <3>3. p \in u .. v
      BY <3>2, DomFact, PageNumbers
    <3>4. p \in Dom /\ fw[p] = fw[u]
      BY <3>1, <3>3, DomFact DEF Longest, OneType
    <3>5. order[i].type = fw[u]
      BY <3>1 DEF Descriptor
    <3> QED BY <2>1, <3>4, <3>5
  <2>2. ASSUME p \in Dom, fw[p] \in Usable PROVE Done(n, p)
    <3>1. p \in Nat /\ p <= p /\ p .. p = {p}
      BY <2>2, DomFact
    <3>2. OneType(p, p)
      BY <2>2, <3>1, DomFact DEF OneType
    <3>3. PICK u, v \in Dom : Longest(u, v) /\ u <= p /\ p <= v /\ fw[u] = fw[p]
      BY <2>2, <3>1, <3>2, RunInDescriptor
    <3> DEFINE d == Descriptor(u, v)
    <3>4. d \in Descriptors /\ d.type = fw[u]
      BY <3>3, DescriptorsFact, DomFact DEF Descriptor
    <3>5. HasPage(d, p)
      BY <3>3, DescriptorPages
    <3>6. PICK i \in 1 .. n : order[i] = d
      BY <3>4
    <3> HIDE DEF d
    <3> QED BY <2>2, <3>3, <3>4, <3>5, <3>6
  <2> QED BY <2>1, <2>2
<1>7. Good(n) /\ map = h[n]
  BY <1>1, <1>5
<1> HIDE DEF Done
<1> QED BY <1>6, <1>7

(* A block of the loader is of whole pages of the firmware's map.          *)
LEMMA BlockWhole ==
  ASSUME FwMap, NEW b \in MemoryRange, WholeBlock(b)
  PROVE  /\ WholePages(b.start, b.size)
         /\ \A p \in PageSet : HasPage(b, p) <=> p \in PagesIn(b)
<1>1. PICK f, c \in Nat : /\ c # 0 /\ b.start = f * PAGE_SIZE /\ b.size = c * PAGE_SIZE
                          /\ f .. f + c - 1 \subseteq Dom
  BY DEF WholeBlock
<1>2. \A x \in Dom : x \in Nat /\ x \in PageSet
  BY DomFact
<1> DEFINE l == f + c - 1
<1>3. l \in f .. l /\ l \in Nat /\ l \in PageSet /\ f + c = l + 1
  BY <1>1, <1>2
<1>4. b.start + b.size = (l + 1) * PAGE_SIZE
  BY <1>1, PageSize
<1>5. b.start \in Nat /\ b.size \in Nat /\ b.size < AddrMod /\ b.start % PAGE_SIZE = 0
      /\ b.size % PAGE_SIZE = 0 /\ b.size # 0
  <2>1. b.start \in Nat /\ b.size \in Nat /\ b.size < AddrMod
    BY RangeFields, AddrNat
  <2>2. f * PAGE_SIZE = PAGE_SIZE * f /\ c * PAGE_SIZE = PAGE_SIZE * c /\ f \in Int /\ c \in Int
    BY PageSize
  <2>3. (PAGE_SIZE * f) % PAGE_SIZE = 0 /\ (PAGE_SIZE * c) % PAGE_SIZE = 0
    BY <2>2, PageSize, Multiple
  <2>4. b.size # 0
    <3>1. c - 1 \in Nat /\ c * PAGE_SIZE = (c - 1) * PAGE_SIZE + PAGE_SIZE
      BY <1>1, PageSize
    <3>2. (c - 1) * PAGE_SIZE \in Nat
      BY <3>1, PageSize
    <3>3. (c - 1) * PAGE_SIZE + PAGE_SIZE # 0
      BY <3>2, PageSize
    <3> QED BY <1>1, <3>1, <3>3
  <2> QED BY <1>1, <2>1, <2>2, <2>3, <2>4
<1> HIDE DEF l
<1>6. (l + 1) * PAGE_SIZE <= AddrMod
  <2>1. l + 1 \in Nat /\ (l + 1) * PAGE_SIZE \in Nat
    BY <1>3, PageSize
  <2>2. (l + 1) * PAGE_SIZE <= (l + 1) * PAGE_SIZE
    BY <2>1
  <2>3. \E x \in PageSet : (l + 1) * PAGE_SIZE <= (x + 1) * PAGE_SIZE
    BY <1>3, <2>2
  <2> QED BY <2>1, <2>3, PageNumbers
<1>7. WholePages(b.start, b.size)
  BY <1>4, <1>5, <1>6 DEF WholePages
<1>8. ASSUME NEW p \in PageSet, HasPage(b, p) PROVE p \in Dom
  <2>1. f * PAGE_SIZE <= p * PAGE_SIZE /\ p * PAGE_SIZE < (l + 1) * PAGE_SIZE
    BY <1>1, <1>4, <1>8 DEF HasPage
  <2>2. p \in Int /\ f \in Int /\ l + 1 \in Int
    BY <1>3, PageNumbers
  <2>3. f <= p /\ p < l + 1
    BY <2>1, <2>2, PageOrder
  <2> QED BY <1>1, <2>2, <2>3 DEF l
<1> QED BY <1>7, <1>8 DEF HasPage, PagesIn

(* The types of the map that the two loops build, page by page.            *)
MapTypes(map) ==
  \A p \in PageSet :
    /\ \A i \in 1 .. Len(efi_memory_ranges) :
         p \in PagesIn(efi_memory_ranges[i]) =>
           TypeAt(map, p * PAGE_SIZE) = KernelType(efi_memory_ranges[i].type)
    /\ (\A i \in 1 .. Len(efi_memory_ranges) : p \notin PagesIn(efi_memory_ranges[i])) =>
         TypeAt(map, p * PAGE_SIZE) =
           IF p \in Dom /\ fw[p] \in Usable THEN MEMORY_TYPE_FREE ELSE NoMemory

LEMMA AddTrackedMap ==
  ASSUME FwMap, efi_memory_ranges \in Seq(MemoryRange), TrackedInv, NEW base, ListOK(base),
         \A p \in PageSet : TypeAt(base, p * PAGE_SIZE) =
           IF p \in Dom /\ fw[p] \in Usable THEN MEMORY_TYPE_FREE ELSE NoMemory,
         NEW map, map = AddTracked(base, efi_memory_ranges)
  PROVE  ListOK(map) /\ MapTypes(map)
<1> DEFINE R == efi_memory_ranges
           n == Len(R)
           Base(p) == IF p \in Dom /\ fw[p] \in Usable THEN MEMORY_TYPE_FREE ELSE NoMemory
<1>1. PICK h : /\ h[0] = base /\ map = h[n]
               /\ \A k \in 1 .. n : h[k] = InsertTracked(h[k - 1], R[k])
  BY TrackedStages
<1> DEFINE Own(k, p) ==
             /\ \A i \in 1 .. k :
                  p \in PagesIn(R[i]) => TypeAt(h[k], p * PAGE_SIZE) = KernelType(R[i].type)
             /\ (\A i \in 1 .. k : p \notin PagesIn(R[i])) => TypeAt(h[k], p * PAGE_SIZE) = Base(p)
           Good(k) == ListOK(h[k]) /\ \A p \in PageSet : Own(k, p)
           G == {k \in 0 .. n : Good(k)}
<1>2. /\ n \in Nat
      /\ \A i \in 1 .. n : R[i] \in MemoryRange /\ WholeBlock(R[i])
      /\ \A i, j \in 1 .. n : i # j => PagesIn(R[i]) \cap PagesIn(R[j]) = {}
  <2>1. n \in Nat /\ \A i \in 1 .. n : R[i] \in MemoryRange
    OBVIOUS
  <2>2. /\ \A i \in 1 .. n : WholeBlock(R[i])
        /\ \A i, j \in 1 .. n : i # j => PagesIn(R[i]) \cap PagesIn(R[j]) = {}
    BY Zenon DEF TrackedInv
  <2> QED BY <2>1, <2>2
<1>3. 0 \in G
  <2>1. 0 \in 0 .. n /\ 1 .. 0 = {}
    BY <1>2
  <2>2. \A p \in PageSet : TypeAt(h[0], p * PAGE_SIZE) = Base(p)
    BY <1>1
  <2> HIDE DEF Base
  <2> QED BY <1>1, <2>1, <2>2
<1>4. ASSUME NEW k \in 1 .. n, k - 1 \in G PROVE k \in G
  <2> DEFINE b == R[k]
  <2>1. Good(k - 1) /\ h[k] = InsertTracked(h[k - 1], b) /\ k \in 0 .. n /\ k \in Nat
    BY <1>1, <1>2, <1>4
  <2>2. b \in MemoryRange /\ WholeBlock(b) /\ b.type \in MemoryTypes
    <3>1. b \in MemoryRange /\ WholeBlock(b)
      BY <1>2
    <3> QED BY <3>1, RangeFields
  <2>3. KernelType(b.type) \in MemoryTypes
    BY <2>2, InternalType DEF KernelType
  <2>4. /\ WholePages(b.start, b.size)
        /\ \A p \in PageSet : HasPage(b, p) <=> p \in PagesIn(b)
    BY <2>2, BlockWhole
  <2>5. h[k] = MapInsert(h[k - 1], b.start, b.size, KernelType(b.type))
    BY <2>1 DEF InsertTracked
  <2>6. /\ ListOK(h[k])
        /\ \A p \in PageSet : TypeAt(h[k], p * PAGE_SIZE) =
             IF HasPage(b, p) THEN KernelType(b.type) ELSE TypeAt(h[k - 1], p * PAGE_SIZE)
    <3> HIDE DEF b, Own
    <3> QED BY <2>1, <2>3, <2>4, <2>5, InsertPages
  <2>7. \A i \in 1 .. k : i \in 1 .. k - 1 \/ i = k
    BY <2>1
  <2>8. k \in 1 .. k /\ \A i \in 1 .. k - 1 : i \in 1 .. k /\ i # k /\ i \in 1 .. n
    BY <1>2, <2>1
  <2>9. ASSUME NEW p \in PageSet PROVE Own(k, p)
    <3>1. Own(k - 1, p)
      BY <2>1
    <3>2. CASE p \in PagesIn(b)
      <4>1. TypeAt(h[k], p * PAGE_SIZE) = KernelType(b.type)
        BY <2>4, <2>6, <3>2
      <4>2. \A i \in 1 .. k - 1 : p \notin PagesIn(R[i])
        BY <1>2, <2>8, <3>2
      <4> QED BY <2>7, <2>8, <3>2, <4>1, <4>2
    <3>3. CASE p \notin PagesIn(b)
      <4>1. TypeAt(h[k], p * PAGE_SIZE) = TypeAt(h[k - 1], p * PAGE_SIZE)
        BY <2>4, <2>6, <3>3
      <4> HIDE DEF Base
      <4> QED BY <2>7, <2>8, <3>1, <3>3, <4>1
    <3> QED BY <3>2, <3>3
  <2> HIDE DEF Own
  <2> QED BY <2>1, <2>6, <2>9
<1>5. n \in G
  <2> HIDE DEF G
  <2>1. \A k \in 1 .. n : k - 1 \in G => k \in G
    BY <1>4
  <2>2. \A k \in 0 .. n : k \in G
    BY <1>2, <1>3, <2>1, UpTo
  <2> QED BY <1>2, <2>2
<1>6. Good(n) /\ map = h[n]
  BY <1>1, <1>5
<1> QED BY <1>6 DEF MapTypes

(* A list in order with a gap somewhere is sorted and merged.              *)
LEMMA ListSorted ==
  ASSUME NEW s, ListOK(s), NEW g \in PageSet, TypeAt(s, g * PAGE_SIZE) = NoMemory
  PROVE  Sorted(s) /\ Merged(s)
<1>1. s \in Seq(MemoryRange) /\ Apart(s) /\ Clean(s)
  BY DEF ListOK
<1>2. g * PAGE_SIZE \in Nat /\ g * PAGE_SIZE < AddrMod /\ AddrMod \in Nat
  BY PageNumbers, AddrNat
<1>3. ASSUME NEW i \in 1 .. Len(s)
      PROVE  /\ s[i].size > 0 /\ s[i].size % PAGE_SIZE = 0
             /\ s[i].start % PAGE_SIZE = 0 /\ s[i].start <= EndOf(s[i])
  <2>1. /\ s[i] \in MemoryRange /\ s[i].start \in Nat /\ EndOf(s[i]) \in Nat
        /\ s[i].type \in MemoryTypes /\ s[i].start <= EndOf(s[i])
    BY <1>1, ListFields DEF Apart
  <2>2. s[i].start % PAGE_SIZE = 0 /\ (EndOf(s[i]) + 1) % PAGE_SIZE = 0
    BY RangeAligned
  <2>3. s[i].start > 0 \/ EndOf(s[i]) < AddrMod - 1
    <3>1. ASSUME s[i].start = 0, EndOf(s[i]) >= AddrMod - 1 PROVE FALSE
      <4> DEFINE x == g * PAGE_SIZE
      <4>1. x \in Int /\ x \in Nat /\ x < AddrMod /\ TypeAt(s, x) = NoMemory
        BY <1>2
      <4> HIDE DEF x
      <4>2. InRange(s[i], x)
        BY <1>2, <2>1, <3>1, <4>1 DEF InRange
      <4>3. Holds(s, x, s[i].type)
        BY <4>2 DEF Holds
      <4> QED BY <1>1, <2>1, <4>1, <4>3, TypeAtHolds
    <3> QED BY <1>2, <2>1, <3>1
  <2>4. s[i].size = EndOf(s[i]) - s[i].start + 1
    BY <2>1, <2>3, ExactSize
  <2>5. s[i].size = (EndOf(s[i]) + 1) - s[i].start /\ s[i].size > 0
    BY <2>1, <2>4
  <2>6. s[i].size % PAGE_SIZE = 0
    <3> DEFINE x == EndOf(s[i]) + 1
               y == s[i].start
    <3>1. x \in Int /\ y \in Int /\ x % PAGE_SIZE = 0 /\ y % PAGE_SIZE = 0
      BY <2>1, <2>2
    <3>2. s[i].size = x - y
      BY <2>5
    <3> HIDE DEF x, y
    <3>3. (x - y) % PAGE_SIZE = 0
      BY <3>1, PageSize, MultipleSum
    <3> QED BY <3>2, <3>3
  <2> QED BY <2>1, <2>2, <2>5, <2>6
<1>4. Sorted(s)
  BY <1>1, <1>3 DEF Sorted, Apart
<1>5. ASSUME NEW i \in 1 .. Len(s) - 1 PROVE ~Touches(s[i], s[i + 1])
  <2>1. i \in 1 .. Len(s) /\ i + 1 \in 1 .. Len(s) /\ i < i + 1
    BY <1>1
  <2>2. /\ s[i] \in MemoryRange /\ s[i + 1] \in MemoryRange
        /\ s[i].start <= EndOf(s[i]) /\ EndOf(s[i]) < s[i + 1].start
    BY <1>1, <2>1, ListFields DEF Apart
  <2>3. Touches(s[i], s[i + 1]) => EndOf(s[i]) + 1 = s[i + 1].start /\ s[i].type = s[i + 1].type
    BY <2>2, TouchesMeans
  <2>4. Holds(s, s[i + 1].start, s[i + 1].type)
    BY <1>1, <2>1, HoldsEnds
  <2>5. ~Holds(s, EndOf(s[i]) + 1, s[i].type)
    BY <1>1, <2>1 DEF Clean
  <2> QED BY <2>3, <2>4, <2>5
<1> QED BY <1>4, <1>5 DEF Merged

-----------------------------------------------------------------------------
(* The map is true of every page the firmware has not taken for good since *)
(* it was built.                                                           *)
TrueMap ==
  \A p \in PageSet \ unsure :
    /\ \A i \in 1 .. Len(efi_memory_ranges) :
         p \in PagesIn(efi_memory_ranges[i]) =>
           TypeAt(kernel_map, p * PAGE_SIZE) = KernelType(efi_memory_ranges[i].type)
    /\ (\A i \in 1 .. Len(efi_memory_ranges) : p \notin PagesIn(efi_memory_ranges[i])) =>
         TypeAt(kernel_map, p * PAGE_SIZE) =
           IF p \in Dom /\ fw[p] \in Usable THEN MEMORY_TYPE_FREE ELSE NoMemory

KernelMapInv ==
  /\ unsure \subseteq Dom
  /\ MapBuilt /\ ~torn => ListOK(kernel_map) /\ TrueMap

LEMMA FinalizeMap ==
  ASSUME EfiInv, KernelMapInv, NEW rank \in Orders, NEW junk \in Unwritten,
         BuildKernelMap(rank, junk)
  PROVE  KernelMapInv'
<1>1. FwMap /\ efi_memory_ranges \in Seq(MemoryRange) /\ TrackedInv
  BY DEF EfiInv, EfiTypes
<1>2. /\ kernel_map' = AddTracked(AddUsable(Listed(rank) \o junk), efi_memory_ranges)
      /\ torn' = (junk # <<>>)
      /\ UNCHANGED <<fw, efi_memory_ranges, unsure>>
  BY DEF BuildKernelMap
<1>3. unsure' \subseteq Dom
  BY <1>2 DEF KernelMapInv
<1>4. ASSUME ~torn' PROVE ListOK(kernel_map') /\ TrueMap'
  <2> DEFINE o == Listed(rank)
             base == AddUsable(o)
  <2>1. o \in Seq(Descriptors) /\ \A d \in Descriptors : \E i \in 1 .. Len(o) : o[i] = d
    BY <1>1, ListedFact
  <2>2. o \o junk = o
    <3>1. junk = <<>>
      BY <1>2, <1>4
    <3> HIDE DEF o
    <3> QED BY <2>1, <3>1
  <2>3. /\ ListOK(base)
        /\ \A p \in PageSet : TypeAt(base, p * PAGE_SIZE) =
             IF p \in Dom /\ fw[p] \in Usable THEN MEMORY_TYPE_FREE ELSE NoMemory
    <3> HIDE DEF o
    <3> QED BY <1>1, <2>1, AddUsableMap
  <2>4. kernel_map' = AddTracked(base, efi_memory_ranges)
    BY <1>2, <2>2
  <2> HIDE DEF base
  <2>5. ListOK(kernel_map') /\ MapTypes(kernel_map')
    BY <1>1, <2>3, <2>4, AddTrackedMap
  <2> QED BY <1>2, <2>5 DEF MapTypes, TrueMap
<1> QED BY <1>3, <1>4 DEF KernelMapInv

LEMMA KernelMapSteps ==
  ASSUME EfiInv, KernelMapInv, [EfiNext]_efiVars
  PROVE  KernelMapInv'
<1>1. CASE \E p \in FwPages, type \in FwTypes : FwChange(p, type)
  <2> PICK p \in FwPages, type \in FwTypes : FwChange(p, type)
    BY <1>1
  <2>1. /\ fw' = Retype({p}, type) /\ fw[p] \in {"conventional", "boot"}
        /\ type \in {"boot", "conventional", "runtime"}
        /\ unsure' = IF type = "runtime" /\ MapBuilt THEN unsure \cup {p} ELSE unsure
        /\ UNCHANGED <<efi_memory_ranges, stage, kernel_map, torn>>
    BY DEF FwChange
  <2>2. FwMap' /\ \A x \in Dom : fw'[x] = IF x \in {p} THEN type ELSE fw[x]
    BY <2>1, RetypeFw DEF EfiInv, EfiTypes
  <2>3. unsure' \subseteq Dom /\ p \in Dom
    BY <2>1, EfiAssumption DEF KernelMapInv, Dom
  <2>4. ASSUME MapBuilt PROVE \A x \in Dom \ unsure' : fw'[x] \in Usable <=> fw[x] \in Usable
    <3>1. {"conventional", "boot"} \subseteq Usable
      BY DEF Usable, FwTypes
    <3> QED BY <2>1, <2>2, <2>4, <3>1
  <2>5. ASSUME MapBuilt', ~torn' PROVE ListOK(kernel_map)' /\ TrueMap'
    <3>1. MapBuilt /\ ListOK(kernel_map) /\ TrueMap
      BY <2>1, <2>5 DEF MapBuilt, KernelMapInv
    <3>2. \A x \in Dom \ unsure' : fw'[x] \in Usable <=> fw[x] \in Usable
      BY <2>4, <3>1
    <3>3. \A x \in PageSet \ unsure' : x \in PageSet \ unsure
      BY <2>1
    <3> QED BY <2>1, <3>1, <3>2, <3>3 DEF TrueMap
  <2> QED BY <2>3, <2>5 DEF KernelMapInv
<1>2. CASE \E rank \in Orders : \E junk \in Unwritten : BuildKernelMap(rank, junk)
  BY <1>2, FinalizeMap
<1>3. CASE EfiAllocPages \/ (\E b \in efi_held : EfiMemoryFree(b)) \/ EfiExit
  <2>1. unsure' = unsure /\ ~MapBuilt'
    BY <1>3 DEF EfiAllocPages, EfiMemoryFree, EfiExit, EfiCanRun, Return, finalVars, MapBuilt, callVars
  <2> QED BY <2>1 DEF KernelMapInv
<1>4. CASE \/ MapGrew \/ ExitMapSize \/ ExitGetMap \/ ExitCall \/ EfiMemoryFinalize
           \/ \E call \in EfiRequests : EfiMemoryAlloc(call)
           \/ \E junk \in Unwritten : EfiAllocChoose(junk) \/ EfiAllocFails(junk)
           \/ UNCHANGED efiVars
  <2>1. UNCHANGED <<fw, efi_memory_ranges, kernel_map, torn, unsure>>
    BY <1>4 DEF MapGrew, ExitMapSize, ExitGetMap, ExitCall, EfiMemoryFinalize, EfiMemoryAlloc,
                EfiAllocChoose, EfiAllocFails, finalVars, efiVars
  <2>2. MapBuilt' => MapBuilt
    <3>1. CASE MapGrew \/ UNCHANGED efiVars
      BY <3>1 DEF MapGrew, efiVars, MapBuilt
    <3>2. CASE ExitMapSize \/ ExitGetMap \/ ExitCall
      BY <3>2 DEF ExitMapSize, ExitGetMap, ExitCall, MapBuilt
    <3>3. CASE \/ EfiMemoryFinalize \/ \E call \in EfiRequests : EfiMemoryAlloc(call)
               \/ \E junk \in Unwritten : EfiAllocChoose(junk) \/ EfiAllocFails(junk)
      BY <3>3 DEF EfiMemoryFinalize, EfiMemoryAlloc, EfiAllocChoose, EfiAllocFails, GetMapSize,
                  Return, MapBuilt
    <3> QED BY <1>4, <3>1, <3>2, <3>3
  <2>3. TrueMap' <=> TrueMap
    BY <2>1 DEF TrueMap
  <2> QED BY <2>1, <2>2, <2>3 DEF KernelMapInv
<1> QED BY <1>1, <1>2, <1>3, <1>4 DEF EfiNext

(* The map a kernel gets is true until boot services have ended, in any    *)
(* order the firmware lists its descriptors: sorted and merged, free where *)
(* the firmware needs nothing, and of its type where the loader allocated, *)
(* but for pages that became runtime memory since, if the firmware's map   *)
(* did not shrink while it was read.                                       *)
THEOREM EfiKernelMapFaithful == EfiSpec /\ []EfiPlacesComputed => []KernelMapFaithful
<1>3. EfiInit => KernelMapInv
  BY DEF EfiInit, KernelMapInv, MapBuilt
<1>4. EfiInv /\ KernelMapInv /\ [EfiNext]_efiVars => KernelMapInv'
  BY KernelMapSteps
<1>5. EfiInv /\ KernelMapInv => KernelMapFaithful
  <2> SUFFICES ASSUME EfiInv, KernelMapInv, MapBuilt, ~torn
               PROVE  /\ Sorted(kernel_map) /\ Merged(kernel_map)
                      /\ \A p \in DOMAIN fw \ unsure : TypeAt(kernel_map, p * PAGE_SIZE) = ExpectedType(p)
    BY DEF KernelMapFaithful
  <2>1. ListOK(kernel_map) /\ TrueMap /\ FwMap /\ stage # "left" /\ unsure \subseteq Dom
    BY DEF KernelMapInv, EfiInv, EfiTypes, MapBuilt
  <2>2. DOMAIN fw = Dom /\ \A p \in Dom : p \in PageSet
    BY <2>1, DomFact
  <2>3. PICK g \in PageSet : g \notin Dom
    BY EfiAssumption DEF Dom, PageSet
  <2>4. TypeAt(kernel_map, g * PAGE_SIZE) = NoMemory
    <3>1. \A i \in 1 .. Len(efi_memory_ranges) : g \notin PagesIn(efi_memory_ranges[i])
      BY <2>3 DEF PagesIn
    <3> QED BY <2>1, <2>3, <3>1 DEF TrueMap
  <2>5. ASSUME NEW p \in Dom \ unsure PROVE TypeAt(kernel_map, p * PAGE_SIZE) = ExpectedType(p)
    <3> DEFINE owners == {b \in efi_held : p \in PagesOf(b)}
               c == CHOOSE b \in owners : TRUE
               R == efi_memory_ranges
    <3>1. efi_held = {R[i] : i \in 1 .. Len(R)}
      BY <2>1 DEF EfiInv, HeldTracked, Tracked
    <3>2. \A b : PagesOf(b) = PagesIn(b)
      BY <2>1, PagesInFact
    <3>3. CASE owners # {}
      <4>1. c \in owners
        BY <3>3
      <4>2. ExpectedType(p) = KernelType(c.type)
        BY <3>3 DEF ExpectedType
      <4> HIDE DEF c
      <4>3. PICK i \in 1 .. Len(R) : c = R[i]
        BY <3>1, <4>1
      <4>4. p \in PagesIn(R[i])
        BY <3>2, <4>1, <4>3
      <4>5. TypeAt(kernel_map, p * PAGE_SIZE) = KernelType(R[i].type)
        BY <2>1, <2>2, <4>4 DEF TrueMap
      <4> QED BY <4>2, <4>3, <4>5
    <3>4. CASE owners = {}
      <4>1. ExpectedType(p) = IF fw[p] \in Usable THEN MEMORY_TYPE_FREE ELSE NoMemory
        BY <3>4 DEF ExpectedType
      <4>2. \A i \in 1 .. Len(R) : p \notin PagesIn(R[i])
        BY <3>1, <3>2, <3>4
      <4>3. TypeAt(kernel_map, p * PAGE_SIZE) =
              IF p \in Dom /\ fw[p] \in Usable THEN MEMORY_TYPE_FREE ELSE NoMemory
        BY <2>1, <2>2, <4>2 DEF TrueMap
      <4> QED BY <4>1, <4>3
    <3> QED BY <3>3, <3>4
  <2> QED BY <2>1, <2>2, <2>4, <2>5, ListSorted
<1>6. EfiSpec => EfiInit /\ [][EfiNext]_efiVars
  BY DEF EfiSpec
<1> QED BY <1>3, <1>4, <1>5, <1>6, EfiInvariant, PTL
=============================================================================
