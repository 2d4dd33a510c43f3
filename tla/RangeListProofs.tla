-------------------------- MODULE RangeListProofs ---------------------------
(***************************************************************************)
(* Facts about the range lists of source/memory.c and the region lists of  *)
(* source/lib/allocator.c: what inserting a range does to the type of      *)
(* every address, and that it keeps the ranges in order and apart.         *)
(*                                                                         *)
(* A list is seen through Holds: which type it gives an address, if any.   *)
(* Each piece of insert_range() is shown to keep the addresses it should,  *)
(* and the pieces are then put together; no fact is about a position in    *)
(* the list of the result.                                                 *)
(***************************************************************************)
EXTENDS RangeList, ListLemmas

MemoryRange == [start : Addr, size : Addr, type : MemoryTypes]

(* The ranges are nonempty, in address order, and no two share an address. *)
Apart(s) ==
  /\ \A i \in 1 .. Len(s) : s[i].start <= EndOf(s[i])
  /\ \A i, j \in 1 .. Len(s) : i < j => EndOf(s[i]) < s[j].start

(* Address x is in range r; the list gives x the type ty.                  *)
InRange(r, x) == r.start <= x /\ x <= EndOf(r)
Holds(s, x, ty) == \E i \in 1 .. Len(s) : InRange(s[i], x) /\ s[i].type = ty

(* All ranges of s end below x; all of them start above x.                 *)
AllBelow(s, x) == \A i \in 1 .. Len(s) : EndOf(s[i]) < x
AllAbove(s, x) == \A i \in 1 .. Len(s) : s[i].start > x

(* Every range of t ends in extra, or where a range of its type ends in s. *)
EndsAmong(t, s, extra) ==
  \A j \in 1 .. Len(t) :
    \/ EndOf(t[j]) \in extra
    \/ \E i \in 1 .. Len(s) : s[i].type = t[j].type /\ EndOf(s[i]) = EndOf(t[j])

-----------------------------------------------------------------------------
(***************************************************************************)
(* Addresses and single ranges.                                            *)
(***************************************************************************)
LEMMA WrapSmall ==
  ASSUME NEW x \in Addr
  PROVE  Wrap(x) = x
BY AddressSpaceAssumption DEF Addr, Wrap

LEMMA WrapType ==
  ASSUME NEW x \in Int
  PROVE  Wrap(x) \in Addr
BY AddressSpaceAssumption DEF Addr, Wrap

LEMMA WrapAbove ==
  ASSUME NEW x \in Addr
  PROVE  Wrap(x + AddrMod) = x /\ Wrap(x - AddrMod) = x
BY AddressSpaceAssumption DEF Addr, Wrap

LEMMA AddrNat ==
  /\ AddrMod \in Nat /\ Addr \subseteq Nat
  /\ \A x \in Nat : x < AddrMod => x \in Addr
  /\ \A x \in Addr : x \in Nat /\ x < AddrMod
BY AddressSpaceAssumption DEF Addr

LEMMA RangeFields ==
  ASSUME NEW r \in MemoryRange
  PROVE  /\ r.start \in Addr /\ r.size \in Addr /\ r.type \in MemoryTypes
         /\ r.start \in Nat /\ r.size \in Nat
         /\ EndOf(r) \in Addr /\ EndOf(r) \in Nat
<1>1. r.start \in Addr /\ r.size \in Addr /\ r.type \in MemoryTypes
  BY DEF MemoryRange
<1>2. r.start \in Nat /\ r.size \in Nat
  BY <1>1, AddrNat
<1>3. r.start + r.size - 1 \in Int
  BY <1>2
<1>4. EndOf(r) \in Addr
  BY <1>3, WrapType DEF EndOf
<1> QED BY <1>1, <1>2, <1>4, AddrNat

(* The ranges of a list. *)
LEMMA ListFields ==
  ASSUME NEW s \in Seq(MemoryRange), NEW i \in 1 .. Len(s)
  PROVE  /\ s[i] \in MemoryRange
         /\ s[i].start \in Addr /\ s[i].size \in Addr /\ s[i].type \in MemoryTypes
         /\ s[i].start \in Nat /\ s[i].size \in Nat
         /\ EndOf(s[i]) \in Addr /\ EndOf(s[i]) \in Nat
<1>1. s[i] \in MemoryRange
  OBVIOUS
<1> QED BY <1>1, RangeFields

(* A list with one element changed. *)
LEMMA ExceptElements ==
  ASSUME NEW S, NEW s \in Seq(S), NEW i \in 1 .. Len(s), NEW e \in S,
         NEW t, t = [s EXCEPT ![i] = e]
  PROVE  t \in Seq(S) /\ Replaced(t, s, i, e)
BY DEF Replaced

(* A range made to reach from first to last. *)
LEMMA RangeFromTo ==
  ASSUME NEW first \in Addr, NEW last \in Addr, first <= last,
         NEW ty \in MemoryTypes, NEW n,
         (n = last - first + 1 /\ n < AddrMod) \/ n = Wrap(last - first + 1),
         NEW r, r = [start |-> first, size |-> n, type |-> ty]
  PROVE  r \in MemoryRange /\ EndOf(r) = last
<1>1. /\ first \in Nat /\ last \in Nat /\ last < AddrMod /\ AddrMod \in Nat
      /\ AddrMod - 1 \in Addr
  BY AddrNat, AddressSpaceAssumption
<1>2. CASE last - first + 1 < AddrMod
  <2>1. last - first + 1 \in Addr
    BY <1>1, <1>2, AddrNat
  <2>2. n = last - first + 1
    BY <2>1, WrapSmall
  <2>3. first + n - 1 = last
    BY <1>1, <2>2
  <2> QED BY <2>1, <2>2, <2>3, WrapSmall DEF MemoryRange, EndOf
<1>3. CASE ~(last - first + 1 < AddrMod)
  <2>1. first = 0 /\ last = AddrMod - 1 /\ last - first + 1 = 0 + AddrMod
    BY <1>1, <1>3
  <2>2. 0 \in Addr
    BY <2>1
  <2>3. n = 0
    BY <1>3, <2>1, <2>2, WrapAbove
  <2>4. first + n - 1 = last - AddrMod
    BY <1>1, <2>1, <2>3
  <2>5. Wrap(first + n - 1) = last
    BY <2>4, WrapAbove
  <2> QED BY <2>2, <2>3, <2>5 DEF MemoryRange, EndOf
<1> QED BY <1>2, <1>3

(* What a list gives an address is what TypeAt says. *)
LEMMA TypeAtHolds ==
  ASSUME NEW s \in Seq(MemoryRange), Apart(s), NEW x \in Int
  PROVE  /\ \A ty \in MemoryTypes : TypeAt(s, x) = ty <=> Holds(s, x, ty)
         /\ TypeAt(s, x) = NoMemory <=> \A ty \in MemoryTypes : ~Holds(s, x, ty)
         /\ \A ty, tz : Holds(s, x, ty) /\ Holds(s, x, tz) => ty = tz
<1>1. \A i \in 1 .. Len(s) : /\ s[i].start \in Nat /\ EndOf(s[i]) \in Nat
                             /\ s[i].type \in MemoryTypes
  BY ListFields
<1>2. ASSUME NEW i \in 1 .. Len(s)
      PROVE  x \in s[i].start .. EndOf(s[i]) <=> InRange(s[i], x)
  BY <1>1 DEF InRange
<1>3. ASSUME NEW i \in 1 .. Len(s), NEW j \in 1 .. Len(s), InRange(s[i], x), InRange(s[j], x)
      PROVE  i = j
  <2>1. ~(i < j)
    BY <1>1, <1>3 DEF Apart, InRange
  <2>2. ~(j < i)
    BY <1>1, <1>3 DEF Apart, InRange
  <2> QED BY <2>1, <2>2
<1>4. NoMemory \notin MemoryTypes
  BY DEF NoMemory, MemoryTypes, MEMORY_TYPE_FREE, MEMORY_TYPE_ALLOCATED, MEMORY_TYPE_INTERNAL
<1>5. CASE \E i \in 1 .. Len(s) : InRange(s[i], x)
  <2> DEFINE P(i) == x \in s[i].start .. EndOf(s[i])
             c == CHOOSE i \in 1 .. Len(s) : P(i)
  <2>1. \E i \in 1 .. Len(s) : P(i)
    BY <1>2, <1>5
  <2>2. c \in 1 .. Len(s) /\ P(c)
    BY <2>1
  <2>3. TypeAt(s, x) = s[c].type
    BY <2>1 DEF TypeAt
  <2> HIDE DEF c
  <2>4. InRange(s[c], x)
    BY <1>2, <2>2
  <2>5. \A ty : Holds(s, x, ty) <=> ty = s[c].type
    BY <1>3, <2>2, <2>4 DEF Holds
  <2>6. s[c].type \in MemoryTypes
    BY <1>1, <2>2
  <2> QED BY <1>4, <2>3, <2>5, <2>6
<1>6. CASE ~\E i \in 1 .. Len(s) : InRange(s[i], x)
  <2>1. TypeAt(s, x) = NoMemory
    BY <1>2, <1>6 DEF TypeAt
  <2>2. \A ty : ~Holds(s, x, ty)
    BY <1>6 DEF Holds
  <2> QED BY <1>4, <2>1, <2>2
<1> QED BY <1>5, <1>6

(* Two lists, one behind the other. *)
LEMMA ApartConcat ==
  ASSUME NEW s \in Seq(MemoryRange), NEW t \in Seq(MemoryRange), Apart(s), Apart(t),
         \A i \in 1 .. Len(s), j \in 1 .. Len(t) : EndOf(s[i]) < t[j].start
  PROVE  Apart(s \o t)
<1> DEFINE u == s \o t
<1>1. /\ Len(u) = Len(s) + Len(t)
      /\ \A j \in 1 .. Len(s) + Len(t) : u[j] = IF j <= Len(s) THEN s[j] ELSE t[j - Len(s)]
  BY ConcatElements
<1> HIDE DEF u
<1>2. ASSUME NEW j \in 1 .. Len(u)
      PROVE  \/ j <= Len(s) /\ j \in 1 .. Len(s) /\ u[j] = s[j]
             \/ j > Len(s) /\ j - Len(s) \in 1 .. Len(t) /\ u[j] = t[j - Len(s)]
  BY <1>1
<1>3. ASSUME NEW i \in 1 .. Len(u) PROVE u[i].start <= EndOf(u[i])
  BY <1>2 DEF Apart
<1>4. ASSUME NEW i \in 1 .. Len(u), NEW j \in 1 .. Len(u), i < j
      PROVE  EndOf(u[i]) < u[j].start
  <2>1. CASE j <= Len(s)
    <3>1. i \in 1 .. Len(s) /\ j \in 1 .. Len(s) /\ u[i] = s[i] /\ u[j] = s[j]
      BY <1>2, <1>4, <2>1
    <3> QED BY <1>4, <3>1 DEF Apart
  <2>2. CASE i > Len(s)
    <3>1. /\ i - Len(s) \in 1 .. Len(t) /\ j - Len(s) \in 1 .. Len(t)
          /\ u[i] = t[i - Len(s)] /\ u[j] = t[j - Len(s)]
      BY <1>2, <1>4, <2>2
    <3>2. i - Len(s) < j - Len(s)
      BY <1>4
    <3> QED BY <3>1, <3>2 DEF Apart
  <2>3. CASE i <= Len(s) /\ j > Len(s)
    <3>1. i \in 1 .. Len(s) /\ u[i] = s[i]
      BY <1>2, <2>3
    <3>2. j - Len(s) \in 1 .. Len(t) /\ u[j] = t[j - Len(s)]
      BY <1>2, <2>3
    <3> QED BY <3>1, <3>2
  <2> QED BY <2>1, <2>2, <2>3
<1> QED BY <1>3, <1>4 DEF Apart, u

LEMMA HoldsConcat ==
  ASSUME NEW s \in Seq(MemoryRange), NEW t \in Seq(MemoryRange), NEW x, NEW ty
  PROVE  Holds(s \o t, x, ty) <=> Holds(s, x, ty) \/ Holds(t, x, ty)
<1> DEFINE u == s \o t
<1>1. /\ Len(u) = Len(s) + Len(t)
      /\ \A j \in 1 .. Len(s) + Len(t) : u[j] = IF j <= Len(s) THEN s[j] ELSE t[j - Len(s)]
  BY ConcatElements
<1> HIDE DEF u
<1>2. ASSUME NEW j \in 1 .. Len(u)
      PROVE  \/ j \in 1 .. Len(s) /\ u[j] = s[j]
             \/ j - Len(s) \in 1 .. Len(t) /\ u[j] = t[j - Len(s)]
  BY <1>1
<1>3. ASSUME NEW j \in 1 .. Len(s) PROVE j \in 1 .. Len(u) /\ u[j] = s[j]
  BY <1>1
<1>4. ASSUME NEW j \in 1 .. Len(t) PROVE Len(s) + j \in 1 .. Len(u) /\ u[Len(s) + j] = t[j]
  BY <1>1
<1>5. Holds(u, x, ty) => Holds(s, x, ty) \/ Holds(t, x, ty)
  BY <1>2 DEF Holds
<1>6. Holds(s, x, ty) => Holds(u, x, ty)
  BY <1>3 DEF Holds
<1>7. Holds(t, x, ty) => Holds(u, x, ty)
  BY <1>4 DEF Holds
<1> QED BY <1>5, <1>6, <1>7 DEF u

LEMMA HoldsOne ==
  ASSUME NEW r, NEW x, NEW ty
  PROVE  Holds(<<r>>, x, ty) <=> InRange(r, x) /\ r.type = ty
BY DEF Holds

LEMMA ApartOne ==
  ASSUME NEW r \in MemoryRange, r.start <= EndOf(r)
  PROVE  <<r>> \in Seq(MemoryRange) /\ Apart(<<r>>)
BY DEF Apart

-----------------------------------------------------------------------------
(***************************************************************************)
(* The pieces of insert_range().                                           *)
(***************************************************************************)

(* A new range from start belongs at position pos.                         *)
RightPos(s, pos, start) ==
  /\ pos \in 1 .. Len(s) + 1
  /\ \A i \in 1 .. Len(s) : IF i < pos THEN s[i].start < start ELSE start <= s[i].start

(* The ranges in front of a position. *)
LEMMA FrontPart ==
  ASSUME NEW s \in Seq(MemoryRange), Apart(s), NEW start \in Addr,
         NEW pos, RightPos(s, pos, start),
         NEW f, f = SubSeq(s, 1, pos - 1)
  PROVE  /\ f \in Seq(MemoryRange) /\ Len(f) = pos - 1 /\ Apart(f)
         /\ \A j \in 1 .. pos - 1 : f[j] = s[j] /\ j \in 1 .. Len(s)
<1>1. pos \in 1 .. Len(s) + 1 /\ pos - 1 \in 1 - 1 .. Len(s) /\ 1 \in 1 .. Len(s) + 1
  BY DEF RightPos
<1>2. /\ f \in Seq(MemoryRange) /\ Len(f) = pos - 1 - 1 + 1
      /\ \A j \in 1 .. pos - 1 - 1 + 1 : f[j] = s[1 + j - 1]
  BY <1>1, SubSeqElements
<1>3. Len(f) = pos - 1
  BY <1>1, <1>2
<1>4. \A j \in 1 .. pos - 1 : f[j] = s[j] /\ j \in 1 .. Len(s)
  BY <1>1, <1>2
<1> QED BY <1>2, <1>3, <1>4 DEF Apart

(* What is left in front of the new range: the addresses below it. *)
LEMMA TrimPrevFact ==
  ASSUME NEW s \in Seq(MemoryRange), Apart(s), NEW start \in Addr,
         NEW pos, RightPos(s, pos, start),
         NEW t, t = TrimPrev(s, pos, start)
  PROVE  /\ t \in Seq(MemoryRange) /\ Apart(t) /\ AllBelow(t, start)
         /\ EndsAmong(t, s, {start - 1})
         /\ \A x \in Int : \A ty : Holds(t, x, ty) <=> x < start /\ Holds(s, x, ty)
<1> DEFINE f == SubSeq(s, 1, pos - 1)
           k == pos - 1
<1>1. /\ f \in Seq(MemoryRange) /\ Len(f) = k /\ Apart(f)
      /\ \A j \in 1 .. k : f[j] = s[j] /\ j \in 1 .. Len(s)
  BY FrontPart
<1>2. /\ pos \in 1 .. Len(s) + 1 /\ k \in Nat /\ start \in Nat
      /\ \A i \in 1 .. Len(s) : s[i].start \in Nat /\ EndOf(s[i]) \in Nat
  BY ListFields, AddrNat DEF RightPos
<1>3. ASSUME NEW i \in 1 .. Len(s), NEW x \in Int, x < start, InRange(s[i], x)
      PROVE  i \in 1 .. k
  <2>1. s[i].start < start
    BY <1>2, <1>3 DEF InRange
  <2>2. i < pos
    BY <1>2, <2>1 DEF RightPos
  <2> QED BY <1>2, <2>2
<1>4. ASSUME NEW i \in 1 .. k, i # k PROVE EndOf(s[i]) < start
  <2>1. k \in 1 .. Len(s) /\ i < k /\ k < pos /\ i \in 1 .. Len(s)
    BY <1>1, <1>2, <1>4
  <2>2. EndOf(s[i]) < s[k].start /\ s[k].start < start
    BY <2>1 DEF Apart, RightPos
  <2> QED BY <1>2, <2>1, <2>2
<1>5. CASE OverlapsPrev(s, pos, start)
  <2> DEFINE n == start - f[k].start
             r == [start |-> f[k].start, size |-> n, type |-> f[k].type]
  <2>1. /\ k \in 1 .. k /\ k \in 1 .. Len(s) /\ f[k] = s[k]
        /\ s[k].start < start /\ start <= EndOf(s[k]) /\ s[k] \in MemoryRange
    <3>1. pos # 1 /\ start <= EndOf(s[k])
      BY <1>5 DEF OverlapsPrev
    <3>2. k \in 1 .. k
      BY <1>2, <3>1
    <3> QED BY <1>1, <1>2, <3>1, <3>2 DEF RightPos
  <2>2. t = [f EXCEPT ![k] = [f[k] EXCEPT !.size = n]]
    BY <1>5 DEF TrimPrev
  <2>3. [f[k] EXCEPT !.size = n] = r
    BY <2>1 DEF MemoryRange
  <2>4. r \in MemoryRange /\ EndOf(r) = start - 1
    <3>1. /\ s[k].start \in Addr /\ start - 1 \in Addr /\ s[k].start <= start - 1
          /\ s[k].type \in MemoryTypes
          /\ n = (start - 1) - s[k].start + 1 /\ n < AddrMod
      BY <1>2, <2>1, ListFields, AddrNat
    <3>2. r = [start |-> s[k].start, size |-> n, type |-> s[k].type]
      BY <2>1
    <3> HIDE DEF n, k, r, f
    <3> QED BY <3>1, <3>2, RangeFromTo
  <2>5. r.start = s[k].start /\ r.type = s[k].type
    BY <2>1
  <2>6. /\ t \in Seq(MemoryRange) /\ Len(t) = k
        /\ \A j \in 1 .. k : t[j] = IF j = k THEN r ELSE s[j]
    <3>1. t = [f EXCEPT ![k] = r] /\ f \in Seq(MemoryRange) /\ k \in 1 .. Len(f)
      BY <1>1, <2>1, <2>2, <2>3
    <3> HIDE DEF r, f, k
    <3>2. t \in Seq(MemoryRange) /\ Replaced(t, f, k, r)
      BY <2>4, <3>1, ExceptElements
    <3> QED BY <1>1, <3>2 DEF Replaced
  <2> HIDE DEF r, k, f
  <2>7. \A j \in 1 .. k : /\ t[j].start = s[j].start /\ t[j].type = s[j].type
                          /\ EndOf(t[j]) = IF j = k THEN start - 1 ELSE EndOf(s[j])
    BY <2>4, <2>5, <2>6
  <2>8. AllBelow(t, start)
    BY <1>2, <1>4, <2>6, <2>7 DEF AllBelow
  <2>9. Apart(t)
    <3>1. ASSUME NEW i \in 1 .. k PROVE t[i].start <= EndOf(t[i])
      BY <1>1, <1>2, <2>1, <2>7, SMTT(30) DEF Apart
    <3>2. ASSUME NEW i \in 1 .. k, NEW j \in 1 .. k, i < j PROVE EndOf(t[i]) < t[j].start
      <4>1. i # k /\ i \in 1 .. Len(s) /\ j \in 1 .. Len(s)
        BY <1>1, <1>2, <3>2
      <4> QED BY <2>7, <3>2, <4>1 DEF Apart
    <3> QED BY <2>6, <3>1, <3>2 DEF Apart
  <2>10. ASSUME NEW x \in Int, NEW ty, Holds(t, x, ty) PROVE x < start /\ Holds(s, x, ty)
    <3>1. PICK j \in 1 .. k : InRange(t[j], x) /\ t[j].type = ty
      BY <2>6, <2>10 DEF Holds
    <3>2. x < start
      BY <1>2, <1>4, <2>7, <3>1, <1>1 DEF InRange
    <3>3. InRange(s[j], x)
      BY <1>1, <1>2, <2>1, <2>7, <3>1, <3>2, SMTT(30) DEF InRange
    <3> QED BY <1>1, <2>7, <3>1, <3>2, <3>3 DEF Holds
  <2>11. ASSUME NEW x \in Int, NEW ty, x < start, Holds(s, x, ty) PROVE Holds(t, x, ty)
    <3>1. PICK j \in 1 .. Len(s) : InRange(s[j], x) /\ s[j].type = ty
      BY <2>11 DEF Holds
    <3>2. j \in 1 .. k
      BY <1>3, <2>11, <3>1
    <3>3. InRange(t[j], x)
      BY <1>2, <2>7, <2>11, <3>1, <3>2 DEF InRange
    <3> QED BY <2>6, <2>7, <3>1, <3>2, <3>3 DEF Holds
  <2>12. EndsAmong(t, s, {start - 1})
    BY <1>1, <2>6, <2>7 DEF EndsAmong
  <2> QED BY <2>6, <2>8, <2>9, <2>10, <2>11, <2>12
<1>6. CASE ~OverlapsPrev(s, pos, start)
  <2>1. t = f
    BY <1>6 DEF TrimPrev
  <2>2. ASSUME NEW j \in 1 .. k PROVE EndOf(s[j]) < start
    <3>1. CASE j = k
      <4>1. pos # 1 /\ k \in 1 .. Len(s)
        BY <1>1, <1>2, <3>1
      <4>2. ~(start <= EndOf(s[pos - 1]))
        BY <1>6, <4>1 DEF OverlapsPrev
      <4> QED BY <1>2, <3>1, <4>1, <4>2
    <3> QED BY <1>4, <3>1
  <2> HIDE DEF f, k
  <2>3. AllBelow(t, start)
    BY <1>1, <2>1, <2>2 DEF AllBelow
  <2>4. ASSUME NEW x \in Int, NEW ty, Holds(t, x, ty) PROVE x < start /\ Holds(s, x, ty)
    <3>1. PICK j \in 1 .. k : InRange(t[j], x) /\ t[j].type = ty
      BY <1>1, <2>1, <2>4 DEF Holds
    <3>2. t[j] = s[j] /\ j \in 1 .. Len(s)
      BY <1>1, <2>1
    <3>3. x < start
      BY <1>2, <2>2, <3>1, <3>2 DEF InRange
    <3> QED BY <3>1, <3>2, <3>3 DEF Holds
  <2>5. ASSUME NEW x \in Int, NEW ty, x < start, Holds(s, x, ty) PROVE Holds(t, x, ty)
    <3>1. PICK j \in 1 .. Len(s) : InRange(s[j], x) /\ s[j].type = ty
      BY <2>5 DEF Holds
    <3>2. j \in 1 .. k
      BY <1>3, <2>5, <3>1
    <3> QED BY <1>1, <2>1, <3>1, <3>2 DEF Holds
  <2>6. EndsAmong(t, s, {start - 1})
    BY <1>1, <2>1 DEF EndsAmong
  <2> QED BY <1>1, <2>1, <2>3, <2>4, <2>5, <2>6
<1> QED BY <1>5, <1>6

(* The ranges behind the new one, without what it swallows: the addresses  *)
(* above its end.                                                          *)
LEMMA SwallowFact ==
  ASSUME NEW s \in Seq(MemoryRange), Apart(s), NEW end \in Addr,
         NEW t, t = Swallow(s, end)
  PROVE  /\ t \in Seq(MemoryRange) /\ Apart(t) /\ AllAbove(t, end) /\ EndsAmong(t, s, {})
         /\ \A x \in Int : \A ty : Holds(t, x, ty) <=> x > end /\ Holds(s, x, ty)
<1> DEFINE I == {i \in 1 .. Len(s) : s[i].start > end \/ EndOf(s[i]) > end}
           stop == SelectInSeq(s, LAMBDA r : r.start > end \/ EndOf(r) > end)
           left == SubSeq(s, stop, Len(s))
<1>1. /\ end \in Nat
      /\ \A i \in 1 .. Len(s) : s[i].start \in Nat /\ EndOf(s[i]) \in Nat
      /\ \A i \in 1 .. Len(s) : s[i].start <= EndOf(s[i])
      /\ \A i, j \in 1 .. Len(s) : i < j => EndOf(s[i]) < s[j].start
  BY ListFields, AddrNat DEF Apart
<1>2. stop = IF I # {} THEN Min(I) ELSE 0
  BY DEF SelectInSeq
<1>3. t = CASE stop = 0 -> <<>>
            [] stop # 0 /\ s[stop].start > end -> left
            [] OTHER -> [left EXCEPT ![1] = [start |-> Wrap(end + 1),
                                             size |-> EndOf(@) - end,
                                             type |-> @.type]]
  BY DEF Swallow
<1> HIDE DEF stop
<1>4. CASE I = {}
  <2>1. t = <<>>
    BY <1>2, <1>3, <1>4
  <2>2. \A i \in 1 .. Len(s) : ~(EndOf(s[i]) > end)
    BY <1>4
  <2>3. \A x \in Int : \A ty : ~Holds(t, x, ty)
    BY <2>1 DEF Holds
  <2>4. ASSUME NEW x \in Int, NEW ty, x > end PROVE ~Holds(s, x, ty)
    BY <1>1, <2>2, <2>4 DEF Holds, InRange
  <2> QED BY <2>1, <2>3, <2>4 DEF Apart, AllAbove, EndsAmong
<1>5. CASE I # {}
  <2>1. stop \in I /\ \A j \in I : stop <= j
    <3>1. I \subseteq Nat /\ I # {}
      BY <1>5
    <3> HIDE DEF I
    <3> QED BY <1>2, <1>5, <3>1, MinElement
  <2>2. stop \in 1 .. Len(s) /\ stop # 0 /\ EndOf(s[stop]) > end
    BY <1>1, <2>1
  <2>3. ASSUME NEW j \in 1 .. Len(s), j < stop PROVE EndOf(s[j]) <= end
    BY <1>1, <2>1, <2>2, <2>3
  <2> DEFINE n == Len(s) - stop + 1
  <2>4. n \in Nat /\ n >= 1 /\ 1 \in 1 .. n
    BY <2>2
  <2>5. /\ left \in Seq(MemoryRange) /\ Len(left) = n
        /\ \A j \in 1 .. n : left[j] = s[stop + j - 1]
    <3>1. stop \in 1 .. Len(s) + 1 /\ Len(s) \in stop - 1 .. Len(s)
      BY <2>2
    <3> QED BY <3>1, SubSeqElements
  <2> HIDE DEF I, left
  <2>6. ASSUME NEW j \in 1 .. n
        PROVE  /\ stop + j - 1 \in 1 .. Len(s) /\ left[j] = s[stop + j - 1]
               /\ left[j].start \in Nat /\ EndOf(left[j]) \in Nat
               /\ left[j].start <= EndOf(left[j]) /\ EndOf(left[j]) > end
    <3>1. stop + j - 1 \in 1 .. Len(s) /\ stop + j - 1 >= stop
      BY <2>2
    <3>2. CASE j = 1
      BY <1>1, <2>2, <2>5, <3>1, <3>2
    <3>3. CASE j # 1
      <4>1. stop < stop + j - 1
        BY <2>2, <3>3
      <4>2. EndOf(s[stop]) < s[stop + j - 1].start
        BY <1>1, <2>2, <3>1, <4>1
      <4> QED BY <1>1, <2>2, <2>5, <3>1, <4>2
    <3> QED BY <3>2, <3>3
  <2>7. ASSUME NEW i \in 1 .. n, NEW j \in 1 .. n, i < j
        PROVE  EndOf(left[i]) < left[j].start
    <3>1. stop + i - 1 < stop + j - 1
      BY <2>2, <2>7
    <3> QED BY <1>1, <2>6, <3>1
  <2>8. ASSUME NEW x \in Int, x > end, NEW i \in 1 .. Len(s), InRange(s[i], x)
        PROVE  \E j \in 1 .. n : left[j] = s[i]
    <3>1. EndOf(s[i]) > end
      BY <1>1, <2>8 DEF InRange
    <3>2. i >= stop
      BY <1>1, <2>2, <2>3, <3>1
    <3>3. i - stop + 1 \in 1 .. n /\ stop + (i - stop + 1) - 1 = i
      BY <2>2, <3>2
    <3> QED BY <2>5, <3>3
  <2> HIDE DEF n
  <2>9. CASE s[stop].start > end
    <3>1. t = left
      BY <1>3, <2>2, <2>9
    <3>2. Apart(t) /\ t \in Seq(MemoryRange)
      BY <2>5, <2>6, <2>7, <3>1 DEF Apart
    <3>3. ASSUME NEW j \in 1 .. n PROVE left[j].start > end
      <4>1. CASE j = 1
        <5>1. left[1] = s[stop]
          BY <2>2, <2>6, <4>1
        <5> QED BY <2>9, <4>1, <5>1
      <4>2. CASE j # 1
        <5>1. 1 < j
          BY <2>4, <4>2
        <5> QED BY <1>1, <2>4, <2>6, <2>7, <5>1
      <4> QED BY <4>1, <4>2
    <3>4. AllAbove(t, end)
      BY <2>5, <3>1, <3>3 DEF AllAbove
    <3>5. ASSUME NEW x \in Int, NEW ty, Holds(t, x, ty) PROVE x > end /\ Holds(s, x, ty)
      <4>1. PICK j \in 1 .. n : InRange(left[j], x) /\ left[j].type = ty
        BY <2>5, <3>1, <3>5 DEF Holds
      <4>2. x > end
        BY <1>1, <2>6, <3>3, <4>1 DEF InRange
      <4> QED BY <2>6, <4>1, <4>2 DEF Holds
    <3>6. ASSUME NEW x \in Int, NEW ty, x > end, Holds(s, x, ty) PROVE Holds(t, x, ty)
      <4>1. PICK i \in 1 .. Len(s) : InRange(s[i], x) /\ s[i].type = ty
        BY <3>6 DEF Holds
      <4>2. PICK j \in 1 .. n : left[j] = s[i]
        BY <2>8, <3>6, <4>1
      <4> QED BY <2>5, <3>1, <4>1, <4>2 DEF Holds
    <3>7. EndsAmong(t, s, {})
      BY <2>5, <2>6, <3>1 DEF EndsAmong
    <3> QED BY <3>2, <3>4, <3>5, <3>6, <3>7
  <2>10. CASE ~(s[stop].start > end)
    <3> DEFINE old == left[1]
               r == [start |-> Wrap(end + 1), size |-> EndOf(old) - end, type |-> old.type]
    <3>1. t = [left EXCEPT ![1] = r]
      BY <1>3, <2>2, <2>10
    <3>2. /\ old = s[stop] /\ old \in MemoryRange /\ EndOf(old) \in Addr /\ EndOf(old) \in Nat
          /\ EndOf(old) > end /\ old.start <= end /\ old.type \in MemoryTypes
          /\ old.start \in Nat
      <4>1. old = s[stop]
        BY <2>2, <2>4, <2>6
      <4> HIDE DEF old
      <4> QED BY <1>1, <2>2, <2>10, <4>1, ListFields
    <3>3. Wrap(end + 1) = end + 1 /\ end + 1 \in Addr
      <4>1. end + 1 \in Addr
        BY <1>1, <3>2, AddrNat
      <4> QED BY <4>1, WrapSmall
    <3>4. r \in MemoryRange /\ EndOf(r) = EndOf(old) /\ r.start = end + 1 /\ r.type = old.type
      <4> DEFINE e == EndOf(old)
      <4>1. /\ e \in Addr /\ end + 1 <= e /\ e - end = e - (end + 1) + 1 /\ e - end < AddrMod
            /\ r = [start |-> end + 1, size |-> e - end, type |-> old.type]
        BY <1>1, <3>2, <3>3, AddrNat
      <4>2. r.start = end + 1 /\ r.type = old.type
        BY <3>3
      <4> HIDE DEF r, old, e
      <4>3. r \in MemoryRange /\ EndOf(r) = e
        BY <3>2, <3>3, <4>1, RangeFromTo
      <4> QED BY <4>2, <4>3 DEF e
    <3>5. /\ t \in Seq(MemoryRange) /\ Len(t) = n
          /\ \A j \in 1 .. n : t[j] = IF j = 1 THEN r ELSE left[j]
      <4> HIDE DEF r
      <4>1. t \in Seq(MemoryRange) /\ Replaced(t, left, 1, r)
        BY <2>4, <2>5, <3>1, <3>4, ExceptElements
      <4> QED BY <2>5, <4>1 DEF Replaced
    <3> HIDE DEF r, old
    <3>6. \A j \in 1 .. n : /\ t[j].start = IF j = 1 THEN end + 1 ELSE left[j].start
                            /\ t[j].type = left[j].type
                            /\ EndOf(t[j]) = EndOf(left[j])
      BY <3>4, <3>5 DEF old
    <3>7. ASSUME NEW j \in 1 .. n PROVE t[j].start > end /\ t[j].start <= EndOf(t[j])
      <4>1. CASE j = 1
        BY <1>1, <2>6, <3>6, <4>1
      <4>2. CASE j # 1
        <5>1. 1 < j
          BY <2>4, <4>2
        <5>2. EndOf(left[1]) < left[j].start
          BY <2>4, <2>7, <5>1
        <5> QED BY <1>1, <2>4, <2>6, <3>6, <4>2, <5>2
      <4> QED BY <4>1, <4>2
    <3>8. AllAbove(t, end)
      BY <3>5, <3>7 DEF AllAbove
    <3>9. Apart(t)
      <4>1. ASSUME NEW i \in 1 .. n, NEW j \in 1 .. n, i < j PROVE EndOf(t[i]) < t[j].start
        <5>1. j # 1
          BY <2>4, <4>1
        <5> QED BY <2>7, <3>6, <4>1, <5>1
      <4> QED BY <3>5, <3>7, <4>1 DEF Apart
    <3>10. ASSUME NEW x \in Int, NEW ty, Holds(t, x, ty) PROVE x > end /\ Holds(s, x, ty)
      <4>1. PICK j \in 1 .. n : InRange(t[j], x) /\ t[j].type = ty
        BY <3>5, <3>10 DEF Holds
      <4>2. x > end
        <5>1. t[j].start \in Nat /\ t[j].start > end /\ t[j].start <= x
          BY <3>5, <3>7, <4>1, ListFields DEF InRange
        <5> QED BY <1>1, <5>1
      <4>3. InRange(left[j], x)
        <5>1. CASE j = 1
          BY <1>1, <3>2, <3>6, <4>1, <4>2, <5>1 DEF InRange, old
        <5>2. CASE j # 1
          BY <3>6, <4>1, <5>2 DEF InRange
        <5> QED BY <5>1, <5>2
      <4> QED BY <2>6, <3>6, <4>1, <4>2, <4>3 DEF Holds
    <3>11. ASSUME NEW x \in Int, NEW ty, x > end, Holds(s, x, ty) PROVE Holds(t, x, ty)
      <4>1. PICK i \in 1 .. Len(s) : InRange(s[i], x) /\ s[i].type = ty
        BY <3>11 DEF Holds
      <4>2. PICK j \in 1 .. n : left[j] = s[i]
        BY <2>8, <3>11, <4>1
      <4>3. InRange(t[j], x) /\ t[j].type = ty
        BY <1>1, <2>6, <3>6, <3>11, <4>1, <4>2, SMTT(30) DEF InRange
      <4> QED BY <3>5, <4>3 DEF Holds
    <3>12. EndsAmong(t, s, {})
      <4> SUFFICES ASSUME NEW j \in 1 .. n
                   PROVE  \E i \in 1 .. Len(s) : s[i].type = t[j].type /\ EndOf(s[i]) = EndOf(t[j])
        BY <3>5 DEF EndsAmong
      <4>1. PICK i \in 1 .. Len(s) : left[j] = s[i]
        BY <2>6
      <4>2. t[j].type = left[j].type /\ EndOf(t[j]) = EndOf(left[j])
        BY <3>6
      <4> QED BY <4>1, <4>2
    <3> QED BY <3>5, <3>8, <3>9, <3>10, <3>11, <3>12
  <2> QED BY <2>9, <2>10
<1> QED BY <1>4, <1>5

(* The list behind the new range before it is swallowed: above the end of  *)
(* the new range it is what the list was.                                  *)
SameAbove(t, s, end) == \A x \in Int : \A ty : x > end => (Holds(t, x, ty) <=> Holds(s, x, ty))

LEMMA RestFact ==
  ASSUME NEW s \in Seq(MemoryRange), Apart(s), NEW start \in Addr, NEW end \in Addr,
         start <= end, NEW pos, RightPos(s, pos, start),
         NEW rest, rest = SplitPrev(s, pos, start, end) \o SubSeq(s, pos, Len(s))
  PROVE  /\ rest \in Seq(MemoryRange) /\ Apart(rest) /\ SameAbove(rest, s, end)
         /\ EndsAmong(rest, s, {})
<1> DEFINE split == SplitPrev(s, pos, start, end)
           b == SubSeq(s, pos, Len(s))
           k == pos - 1
           n == Len(s) - pos + 1
<1>1. /\ end \in Nat /\ start \in Nat
      /\ \A i \in 1 .. Len(s) : s[i].start \in Nat /\ EndOf(s[i]) \in Nat
      /\ \A i \in 1 .. Len(s) : s[i].start <= EndOf(s[i])
      /\ \A i, j \in 1 .. Len(s) : i < j => EndOf(s[i]) < s[j].start
  BY ListFields, AddrNat DEF Apart
<1>2. /\ pos \in 1 .. Len(s) + 1 /\ n \in Nat /\ k \in Nat
      /\ Len(s) \in pos - 1 .. Len(s)
  BY DEF RightPos
<1>3. /\ b \in Seq(MemoryRange) /\ Len(b) = n
      /\ \A j \in 1 .. n : b[j] = s[pos + j - 1]
  BY <1>2, SubSeqElements
<1>4. ASSUME NEW j \in 1 .. n PROVE pos + j - 1 \in 1 .. Len(s) /\ b[j] = s[pos + j - 1]
  BY <1>2, <1>3
<1>5. ASSUME NEW i \in 1 .. Len(s), i >= pos PROVE \E j \in 1 .. n : b[j] = s[i]
  <2>1. i - pos + 1 \in 1 .. n /\ pos + (i - pos + 1) - 1 = i
    BY <1>2, <1>5
  <2> QED BY <1>3, <2>1
<1> HIDE DEF b, n
<1>6. Apart(b)
  <2>1. ASSUME NEW i \in 1 .. n, NEW j \in 1 .. n, i < j PROVE EndOf(b[i]) < b[j].start
    <3>1. pos + i - 1 < pos + j - 1
      BY <1>2, <2>1
    <3> QED BY <1>1, <1>4, <3>1
  <2> QED BY <1>1, <1>3, <1>4, <2>1 DEF Apart
<1>7. ASSUME NEW x \in Int, NEW ty, Holds(b, x, ty) PROVE Holds(s, x, ty)
  BY <1>3, <1>4, <1>7 DEF Holds
<1>8. ASSUME NEW x \in Int, x > end, NEW i \in 1 .. Len(s), InRange(s[i], x), i < pos
      PROVE  i = k
  <2> SUFFICES ASSUME i # k PROVE FALSE
    OBVIOUS
  <2>1. i < k /\ k \in 1 .. Len(s) /\ k < pos
    BY <1>2, <1>8
  <2>2. EndOf(s[i]) < s[k].start /\ s[k].start < start
    BY <1>1, <2>1 DEF RightPos
  <2> QED BY <1>1, <1>8, <2>1, <2>2 DEF InRange
<1>9. CASE OverlapsPrev(s, pos, start) /\ EndOf(s[k]) > end
  <2> DEFINE e == EndOf(s[k])
             r == [start |-> Wrap(end + 1), size |-> e - end, type |-> s[k].type]
  <2>1. split = <<r>>
    BY <1>9 DEF SplitPrev
  <2>2. k \in 1 .. Len(s) /\ k < pos /\ s[k].start < start
    <3>1. pos # 1
      BY <1>9 DEF OverlapsPrev
    <3>2. k \in 1 .. Len(s) /\ k < pos
      BY <1>2, <3>1
    <3> QED BY <3>2 DEF RightPos
  <2>3. e \in Addr /\ e \in Nat /\ s[k].type \in MemoryTypes /\ s[k].start \in Nat
    BY <2>2, ListFields
  <2>4. e > end
    BY <1>9
  <2> HIDE DEF e
  <2>5. Wrap(end + 1) = end + 1 /\ end + 1 \in Addr
    <3>1. end + 1 \in Addr
      BY <1>1, <2>3, <2>4, AddrNat
    <3> QED BY <3>1, WrapSmall
  <2>6. r \in MemoryRange /\ EndOf(r) = e
    <3>1. /\ end + 1 <= e /\ e - end = e - (end + 1) + 1 /\ e - end < AddrMod
          /\ r = [start |-> end + 1, size |-> e - end, type |-> s[k].type]
      BY <1>1, <2>3, <2>4, <2>5, AddrNat
    <3> DEFINE ty == s[k].type
               first == end + 1
               m == e - end
    <3>2. /\ first \in Addr /\ first <= e /\ m = e - first + 1 /\ m < AddrMod
          /\ ty \in MemoryTypes /\ r = [start |-> first, size |-> m, type |-> ty]
      BY <2>3, <2>5, <3>1
    <3> HIDE DEF r, ty, first, m
    <3> QED BY <2>3, <3>2, RangeFromTo
  <2>7. r.start = end + 1 /\ r.type = s[k].type
    BY <2>5
  <2> HIDE DEF r, split
  <2>8. <<r>> \in Seq(MemoryRange) /\ Apart(<<r>>)
    BY <1>1, <2>3, <2>4, <2>6, <2>7, ApartOne
  <2>9. ASSUME NEW j \in 1 .. n PROVE EndOf(r) < b[j].start
    <3>1. pos + j - 1 \in 1 .. Len(s) /\ b[j] = s[pos + j - 1]
      BY <1>4
    <3>2. k < pos + j - 1
      BY <1>2
    <3>3. EndOf(s[k]) < s[pos + j - 1].start
      BY <1>1, <2>2, <3>1, <3>2
    <3> QED BY <2>6, <3>1, <3>3 DEF e
  <2>10. rest = <<r>> \o b
    BY <2>1 DEF split, b
  <2>11. rest \in Seq(MemoryRange) /\ Apart(rest)
    <3>1. \A i \in 1 .. Len(<<r>>), j \in 1 .. Len(b) : EndOf(<<r>>[i]) < b[j].start
      BY <1>3, <2>9
    <3> QED BY <1>3, <1>6, <2>8, <2>10, <3>1, ApartConcat, ConcatElements
  <2>12. ASSUME NEW x, NEW ty
         PROVE  Holds(rest, x, ty) <=> (InRange(r, x) /\ r.type = ty) \/ Holds(b, x, ty)
    <3>1. Holds(<<r>> \o b, x, ty) <=> Holds(<<r>>, x, ty) \/ Holds(b, x, ty)
      BY <1>3, <2>8, HoldsConcat
    <3>2. Holds(<<r>>, x, ty) <=> InRange(r, x) /\ r.type = ty
      BY HoldsOne
    <3> QED BY <2>10, <3>1, <3>2
  <2>13. ASSUME NEW x \in Int, NEW ty, x > end, Holds(rest, x, ty) PROVE Holds(s, x, ty)
    <3>1. CASE Holds(b, x, ty)
      BY <1>7, <3>1
    <3>2. CASE InRange(r, x) /\ r.type = ty
      <4>1. InRange(s[k], x)
        BY <1>1, <2>2, <2>3, <2>6, <2>13, <3>2 DEF InRange, e
      <4> QED BY <2>2, <2>7, <3>2, <4>1 DEF Holds
    <3> QED BY <2>12, <2>13, <3>1, <3>2
  <2>14. ASSUME NEW x \in Int, NEW ty, x > end, Holds(s, x, ty) PROVE Holds(rest, x, ty)
    <3>1. PICK i \in 1 .. Len(s) : InRange(s[i], x) /\ s[i].type = ty
      BY <2>14 DEF Holds
    <3>2. CASE i >= pos
      <4>1. Holds(b, x, ty)
        BY <1>3, <1>5, <3>1, <3>2 DEF Holds
      <4> QED BY <2>12, <4>1
    <3>3. CASE i < pos
      <4>1. i = k
        BY <1>8, <2>14, <3>1, <3>3
      <4>2. InRange(r, x)
        BY <1>1, <2>3, <2>6, <2>7, <2>14, <3>1, <4>1 DEF InRange, e
      <4> QED BY <2>7, <2>12, <3>1, <4>1, <4>2
    <3>4. i >= pos \/ i < pos
      BY <1>2
    <3> QED BY <3>2, <3>3, <3>4
  <2>15. ASSUME NEW j \in 1 .. Len(rest)
         PROVE  \E i \in 1 .. Len(s) : s[i].type = rest[j].type /\ EndOf(s[i]) = EndOf(rest[j])
    <3>1. /\ Len(rest) = 1 + Len(b) /\ Len(b) \in Nat
          /\ rest[j] = IF j <= 1 THEN <<r>>[j] ELSE b[j - 1]
      <4>1. Len(<<r>>) = 1
        OBVIOUS
      <4>2. /\ Len(<<r>> \o b) = Len(<<r>>) + Len(b)
            /\ \A y \in 1 .. Len(<<r>>) + Len(b) :
                 (<<r>> \o b)[y] = IF y <= Len(<<r>>) THEN <<r>>[y] ELSE b[y - Len(<<r>>)]
        BY <1>3, <2>8, ConcatElements
      <4> QED BY <1>3, <2>10, <4>1, <4>2
    <3>2. CASE j <= 1
      <4>1. j = 1 /\ rest[j] = r
        BY <3>1, <3>2
      <4> QED BY <2>2, <2>6, <2>7, <4>1 DEF e
    <3>3. CASE ~(j <= 1)
      <4>1. j - 1 \in 1 .. n /\ rest[j] = b[j - 1]
        BY <1>3, <3>1, <3>3
      <4> QED BY <1>4, <4>1
    <3> QED BY <3>2, <3>3
  <2> QED BY <2>11, <2>13, <2>14, <2>15 DEF SameAbove, EndsAmong
<1>10. CASE ~(OverlapsPrev(s, pos, start) /\ EndOf(s[k]) > end)
  <2>1. split = <<>>
    BY <1>10 DEF SplitPrev
  <2>2. rest = b
    <3> HIDE DEF split
    <3>1. rest = <<>> \o b
      BY <2>1 DEF split, b
    <3> QED BY <1>3, <3>1
  <2>3. ASSUME NEW x \in Int, NEW ty, x > end, Holds(s, x, ty) PROVE Holds(b, x, ty)
    <3>1. PICK i \in 1 .. Len(s) : InRange(s[i], x) /\ s[i].type = ty
      BY <2>3 DEF Holds
    <3>2. CASE i >= pos
      BY <1>3, <1>5, <3>1, <3>2 DEF Holds
    <3>3. CASE i < pos
      <4>1. i = k
        BY <1>8, <2>3, <3>1, <3>3
      <4>2. EndOf(s[k]) > end /\ pos # 1 /\ start <= EndOf(s[k])
        <5>1. k \in 1 .. Len(s) /\ x <= EndOf(s[k]) /\ EndOf(s[k]) \in Nat
          BY <1>1, <3>1, <4>1 DEF InRange
        <5> QED BY <1>1, <1>2, <2>3, <5>1
      <4> QED BY <1>10, <4>2 DEF OverlapsPrev
    <3>4. i >= pos \/ i < pos
      BY <1>2
    <3> QED BY <3>2, <3>3, <3>4
  <2>4. EndsAmong(rest, s, {})
    BY <1>3, <1>4, <2>2 DEF EndsAmong
  <2> QED BY <1>3, <1>6, <1>7, <2>2, <2>3, <2>4 DEF SameAbove
<1> QED BY <1>9, <1>10

-----------------------------------------------------------------------------
(***************************************************************************)
(* insert_range() as a whole.                                              *)
(***************************************************************************)

(* The lists f and b are what s has below start and above end.             *)
Parts(s, start, end, f, b) ==
  /\ f \in Seq(MemoryRange) /\ Apart(f) /\ AllBelow(f, start)
  /\ b \in Seq(MemoryRange) /\ Apart(b) /\ AllAbove(b, end)
  /\ \A x \in Int : \A ty : Holds(f, x, ty) <=> x < start /\ Holds(s, x, ty)
  /\ \A x \in Int : \A ty : Holds(b, x, ty) <=> x > end /\ Holds(s, x, ty)
  /\ EndsAmong(f, s, {start - 1}) /\ EndsAmong(b, s, {})

LEMMA PlaceFact ==
  ASSUME NEW s \in Seq(MemoryRange), Apart(s), NEW start \in Addr, NEW size,
         NEW end \in Addr, end = Wrap(start + size - 1), start <= end,
         NEW type, NEW pos, RightPos(s, pos, start),
         NEW p, p = PlaceRange(s, pos, start, size, type)
  PROVE  /\ p.range = [start |-> start, size |-> size, type |-> type]
         /\ Parts(s, start, end, p.front, p.back)
<1> DEFINE rest == SplitPrev(s, pos, start, end) \o SubSeq(s, pos, Len(s))
           f == TrimPrev(s, pos, start)
           b == Swallow(rest, end)
<1>1. /\ p.range = [start |-> start, size |-> size, type |-> type]
      /\ p.front = f /\ p.back = b
  BY DEF PlaceRange
<1>2. /\ f \in Seq(MemoryRange) /\ Apart(f) /\ AllBelow(f, start)
      /\ EndsAmong(f, s, {start - 1})
      /\ \A x \in Int : \A ty : Holds(f, x, ty) <=> x < start /\ Holds(s, x, ty)
  BY TrimPrevFact
<1>3. /\ rest \in Seq(MemoryRange) /\ Apart(rest) /\ SameAbove(rest, s, end)
      /\ EndsAmong(rest, s, {})
  <2>1. rest = SplitPrev(s, pos, start, end) \o SubSeq(s, pos, Len(s))
    OBVIOUS
  <2> HIDE DEF rest
  <2> QED BY <2>1, RestFact
<1> HIDE DEF rest
<1>4. /\ b \in Seq(MemoryRange) /\ Apart(b) /\ AllAbove(b, end) /\ EndsAmong(b, rest, {})
      /\ \A x \in Int : \A ty : Holds(b, x, ty) <=> x > end /\ Holds(rest, x, ty)
  BY <1>3, SwallowFact
<1> HIDE DEF f, b
<1>5. EndsAmong(b, s, {})
  BY <1>3, <1>4 DEF EndsAmong
<1> QED BY <1>1, <1>2, <1>3, <1>4, <1>5 DEF Parts, SameAbove

(* Where insert_range() puts a range when it looks for the place itself.   *)
LEMMA InsertPosFact ==
  ASSUME NEW s \in Seq(MemoryRange), Apart(s), NEW start \in Addr
  PROVE  RightPos(s, InsertPos(s, start), start)
<1> DEFINE I == {i \in 1 .. Len(s) : start <= s[i].start}
           k == SelectInSeq(s, LAMBDA r : start <= r.start)
           pos == InsertPos(s, start)
<1>1. start \in Nat /\ \A i \in 1 .. Len(s) : s[i].start \in Nat /\ EndOf(s[i]) \in Nat
  BY ListFields, AddrNat
<1>2. k = IF I # {} THEN Min(I) ELSE 0
  BY DEF SelectInSeq
<1>3. pos = IF k = 0 THEN Len(s) + 1 ELSE k
  BY DEF InsertPos
<1> HIDE DEF k, pos
<1>4. CASE I = {}
  <2>1. pos = Len(s) + 1
    BY <1>2, <1>3, <1>4
  <2> QED BY <1>1, <1>4, <2>1 DEF RightPos, pos
<1>5. CASE I # {}
  <2>1. k \in I /\ \A j \in I : k <= j
    <3>1. I \subseteq Nat
      OBVIOUS
    <3> HIDE DEF I
    <3> QED BY <1>2, <1>5, <3>1, MinElement
  <2>2. pos = k /\ k \in 1 .. Len(s) /\ start <= s[k].start
    BY <1>3, <2>1
  <2>3. ASSUME NEW i \in 1 .. Len(s), i < k PROVE s[i].start < start
    <3>1. i \notin I
      BY <2>1, <2>2, <2>3
    <3> QED BY <1>1, <3>1
  <2>4. ASSUME NEW i \in 1 .. Len(s), ~(i < k) PROVE start <= s[i].start
    <3>1. CASE i = k
      BY <2>2, <3>1
    <3>2. CASE i # k
      <4>1. k < i
        BY <2>2, <2>4, <3>2
      <4>2. s[k].start <= EndOf(s[k]) /\ EndOf(s[k]) < s[i].start
        BY <2>2, <4>1 DEF Apart
      <4> QED BY <1>1, <2>2, <4>2
    <3> QED BY <3>1, <3>2
  <2>5. pos \in 1 .. Len(s) + 1
    BY <2>2
  <2> QED BY <2>2, <2>3, <2>4, <2>5 DEF RightPos, pos
<1> QED BY <1>4, <1>5

-----------------------------------------------------------------------------
(***************************************************************************)
(* Putting the parts together, with and without merge_ranges().            *)
(***************************************************************************)

(* Range r fits between the lists f and b.                                 *)
Around(f, r, b) ==
  /\ f \in Seq(MemoryRange) /\ Apart(f) /\ AllBelow(f, r.start)
  /\ b \in Seq(MemoryRange) /\ Apart(b) /\ AllAbove(b, EndOf(r))
  /\ r \in MemoryRange /\ r.start <= EndOf(r)

HoldsAround(f, r, b, x, ty) ==
  Holds(f, x, ty) \/ (InRange(r, x) /\ r.type = ty) \/ Holds(b, x, ty)

(* List t is well formed and gives every address what f, r and b give it.  *)
Joins(f, r, b, t) ==
  /\ t \in Seq(MemoryRange) /\ Apart(t)
  /\ \A x \in Int : \A ty : Holds(t, x, ty) <=> HoldsAround(f, r, b, x, ty)

LEMMA JoinFact ==
  ASSUME NEW f, NEW r, NEW b, Around(f, r, b), NEW t, t = f \o <<r>> \o b
  PROVE  Joins(f, r, b, t)
<1> DEFINE u == f \o <<r>>
<1>1. /\ f \in Seq(MemoryRange) /\ Apart(f) /\ AllBelow(f, r.start)
      /\ b \in Seq(MemoryRange) /\ Apart(b) /\ AllAbove(b, EndOf(r))
      /\ r \in MemoryRange /\ r.start <= EndOf(r)
  BY DEF Around
<1>2. <<r>> \in Seq(MemoryRange) /\ Apart(<<r>>)
  BY <1>1, ApartOne
<1>3. u \in Seq(MemoryRange) /\ Apart(u)
  <2>1. \A i \in 1 .. Len(f), j \in 1 .. Len(<<r>>) : EndOf(f[i]) < <<r>>[j].start
    BY <1>1 DEF AllBelow
  <2> QED BY <1>1, <1>2, <2>1, ApartConcat, ConcatElements
<1>4. \A i \in 1 .. Len(u) : EndOf(u[i]) <= EndOf(r) /\ EndOf(u[i]) \in Nat
  <2>1. /\ Len(u) = Len(f) + 1
        /\ \A i \in 1 .. Len(f) + 1 : u[i] = IF i <= Len(f) THEN f[i] ELSE r
    <3>1. /\ Len(u) = Len(f) + Len(<<r>>)
          /\ \A j \in 1 .. Len(f) + Len(<<r>>) :
               u[j] = IF j <= Len(f) THEN f[j] ELSE <<r>>[j - Len(f)]
      BY <1>1, <1>2, ConcatElements
    <3> HIDE DEF u
    <3>2. \A j \in 1 .. Len(f) + 1 : ~(j <= Len(f)) => j - Len(f) = 1
      BY <1>1
    <3> QED BY <3>1, <3>2
  <2> HIDE DEF u
  <2>2. ASSUME NEW i \in 1 .. Len(u) PROVE EndOf(u[i]) <= EndOf(r)
    <3>1. r.start \in Nat /\ EndOf(r) \in Nat
      BY <1>1, RangeFields
    <3>2. CASE i <= Len(f)
      <4>1. i \in 1 .. Len(f) /\ u[i] = f[i]
        BY <2>1, <3>2
      <4>2. EndOf(f[i]) < r.start /\ EndOf(f[i]) \in Nat
        BY <1>1, <4>1, ListFields DEF AllBelow
      <4> QED BY <1>1, <3>1, <4>1, <4>2
    <3>3. CASE ~(i <= Len(f))
      <4>1. u[i] = r
        BY <2>1, <3>3
      <4> QED BY <3>1, <4>1
    <3> QED BY <3>2, <3>3
  <2> QED BY <1>3, <2>2, ListFields
<1> HIDE DEF u
<1>5. t = u \o b
  BY DEF u
<1>6. t \in Seq(MemoryRange) /\ Apart(t)
  <2>1. ASSUME NEW i \in 1 .. Len(u), NEW j \in 1 .. Len(b) PROVE EndOf(u[i]) < b[j].start
    <3>1. /\ EndOf(u[i]) \in Nat /\ EndOf(u[i]) <= EndOf(r)
          /\ b[j].start \in Nat /\ EndOf(r) \in Nat /\ EndOf(r) < b[j].start
      BY <1>1, <1>4, ListFields, RangeFields DEF AllAbove
    <3> QED BY <3>1
  <2> QED BY <1>1, <1>3, <1>5, <2>1, ApartConcat, ConcatElements
<1>7. ASSUME NEW x \in Int, NEW ty PROVE Holds(t, x, ty) <=> HoldsAround(f, r, b, x, ty)
  <2>1. Holds(t, x, ty) <=> Holds(u, x, ty) \/ Holds(b, x, ty)
    <3>1. Holds(u \o b, x, ty) <=> Holds(u, x, ty) \/ Holds(b, x, ty)
      BY <1>1, <1>3, HoldsConcat
    <3> QED BY <1>5, <3>1
  <2>2. Holds(u, x, ty) <=> Holds(f, x, ty) \/ Holds(<<r>>, x, ty)
    BY <1>1, <1>2, HoldsConcat DEF u
  <2>3. Holds(<<r>>, x, ty) <=> InRange(r, x) /\ r.type = ty
    BY HoldsOne
  <2> QED BY <2>1, <2>2, <2>3 DEF HoldsAround
<1> QED BY <1>6, <1>7 DEF Joins

(* The size of a range that is not the whole address space.                *)
LEMMA ExactSize ==
  ASSUME NEW r \in MemoryRange, r.start <= EndOf(r),
         r.start > 0 \/ EndOf(r) < AddrMod - 1
  PROVE  r.size = EndOf(r) - r.start + 1
<1> DEFINE a == r.start
           n == r.size
           e == EndOf(r)
<1>1. a \in Nat /\ n \in Nat /\ e \in Nat /\ a < AddrMod /\ n < AddrMod /\ AddrMod \in Nat
  BY RangeFields, AddrNat
<1>2. e = Wrap(a + n - 1) /\ a <= e /\ (a > 0 \/ e < AddrMod - 1)
  BY DEF EndOf
<1> HIDE DEF a, n, e
<1>3. CASE a + n - 1 < 0
  <2>1. a = 0 /\ n = 0 /\ a + n - 1 = (AddrMod - 1) - AddrMod
    BY <1>1, <1>3
  <2>2. AddrMod - 1 \in Addr
    BY AddrNat, AddressSpaceAssumption
  <2>3. e = AddrMod - 1
    BY <1>2, <2>1, <2>2, WrapAbove
  <2> QED BY <1>1, <1>2, <2>1, <2>3
<1>4. CASE a + n - 1 >= 0 /\ a + n - 1 < AddrMod
  <2>1. a + n - 1 \in Addr
    BY <1>1, <1>4, AddrNat
  <2>2. e = a + n - 1
    BY <1>2, <2>1, WrapSmall
  <2>3. n = e - a + 1
    BY <1>1, <2>2
  <2> QED BY <2>3 DEF a, n, e
<1>5. CASE a + n - 1 >= AddrMod
  <2>1. a + n - 1 - AddrMod \in Addr /\ (a + n - 1 - AddrMod) + AddrMod = a + n - 1
    BY <1>1, <1>5, AddrNat
  <2>2. e = a + n - 1 - AddrMod
    BY <1>2, <2>1, WrapAbove
  <2> QED BY <1>1, <1>2, <2>2
<1> QED BY <1>1, <1>3, <1>4, <1>5

(* Two ranges that touch, made one.                                        *)
Fused(a, c, m) ==
  /\ m \in MemoryRange /\ EndOf(m) = EndOf(c) /\ m.start = a.start
  /\ m.start <= EndOf(m) /\ m.type = a.type /\ a.type = c.type
  /\ \A x \in Int : InRange(m, x) <=> InRange(a, x) \/ InRange(c, x)

LEMMA TouchFact ==
  ASSUME NEW a \in MemoryRange, a.start <= EndOf(a),
         NEW c \in MemoryRange, c.start <= EndOf(c), EndOf(a) < c.start,
         NEW n, n = Wrap(a.size + c.size) \/ n = Wrap(c.size + a.size),
         NEW m, m = [start |-> a.start, size |-> n, type |-> c.type],
         Touches(a, c)
  PROVE  Fused(a, c, m)
<1>1. /\ a.start \in Addr /\ EndOf(c) \in Addr /\ c.type \in MemoryTypes /\ AddrMod \in Nat
      /\ a.start \in Nat /\ EndOf(a) \in Nat /\ c.start \in Nat /\ EndOf(c) \in Nat
      /\ a.size \in Nat /\ c.size \in Nat
      /\ EndOf(c) < AddrMod /\ c.start < AddrMod
  BY RangeFields, AddrNat
<1>2. a.size = EndOf(a) - a.start + 1
  <2>1. EndOf(a) < AddrMod - 1
    BY <1>1
  <2> QED BY <2>1, ExactSize
<1>3. c.size = EndOf(c) - c.start + 1
  <2>1. c.start > 0
    BY <1>1
  <2> QED BY <2>1, ExactSize
<1>4. EndOf(a) + 1 = c.start /\ a.type = c.type
  <2>1. a.start + a.size = EndOf(a) + 1 /\ EndOf(a) + 1 \in Addr
    BY <1>1, <1>2, AddrNat
  <2> QED BY <2>1, WrapSmall DEF Touches
<1>5. n = Wrap(EndOf(c) - a.start + 1)
  <2>1. a.size + c.size = EndOf(c) - a.start + 1 /\ c.size + a.size = EndOf(c) - a.start + 1
    BY <1>1, <1>2, <1>3, <1>4
  <2> QED BY <2>1
<1>6. m.start = a.start /\ m.type = c.type
  OBVIOUS
<1>7. m \in MemoryRange /\ EndOf(m) = EndOf(c)
  <2> DEFINE first == a.start
             last == EndOf(c)
             ty == c.type
  <2>1. first \in Addr /\ last \in Addr /\ first <= last /\ ty \in MemoryTypes
    BY <1>1
  <2>2. n = Wrap(last - first + 1) /\ m = [start |-> first, size |-> n, type |-> ty]
    BY <1>5
  <2> HIDE DEF first, last, ty
  <2>3. m \in MemoryRange /\ EndOf(m) = last
    BY <2>1, <2>2, RangeFromTo
  <2> QED BY <2>3 DEF last
<1>8. ASSUME NEW x \in Int PROVE InRange(m, x) <=> InRange(a, x) \/ InRange(c, x)
  BY <1>1, <1>4, <1>6, <1>7 DEF InRange
<1>9. m.start <= EndOf(m)
  BY <1>1, <1>6, <1>7
<1> QED BY <1>4, <1>6, <1>7, <1>8, <1>9 DEF Fused

(* merge_ranges() towards the front.                                       *)
LEMMA MergeFrontFact ==
  ASSUME NEW f, NEW r, NEW b, Around(f, r, b), NEW g, g = MergeFront(f, r)
  PROVE  /\ Around(g.front, g.range, b)
         /\ \A x \in Int : \A ty : HoldsAround(g.front, g.range, b, x, ty)
                                 <=> HoldsAround(f, r, b, x, ty)
<1>1. /\ f \in Seq(MemoryRange) /\ Apart(f) /\ AllBelow(f, r.start)
      /\ b \in Seq(MemoryRange) /\ Apart(b) /\ AllAbove(b, EndOf(r))
      /\ r \in MemoryRange /\ r.start <= EndOf(r)
  BY DEF Around
<1>2. CASE ~(f # <<>> /\ Touches(f[Len(f)], r))
  <2>1. g.front = f /\ g.range = r
    BY <1>2 DEF MergeFront
  <2> QED BY <2>1
<1>3. CASE f # <<>> /\ Touches(f[Len(f)], r)
  <2> DEFINE n == Len(f)
             a == f[n]
             z == Wrap(r.size + a.size)
             m == [start |-> a.start, size |-> z, type |-> r.type]
             h == SubSeq(f, 1, n - 1)
  <2>1. n \in 1 .. Len(f) /\ n \in Nat /\ a \in MemoryRange
    BY <1>1, <1>3
  <2>2. /\ g.front = h
        /\ g.range = [r EXCEPT !.start = a.start, !.size = Wrap(@ + a.size)]
    BY <1>3 DEF MergeFront
  <2>3. g.range = m
    BY <1>1, <2>2 DEF MemoryRange
  <2>4. a.start <= EndOf(a) /\ EndOf(a) < r.start /\ Touches(a, r)
    BY <1>1, <1>3, <2>1 DEF Apart, AllBelow
  <2> HIDE DEF a, z
  <2>5. /\ m \in MemoryRange /\ EndOf(m) = EndOf(r) /\ m.start = a.start
        /\ m.start <= EndOf(m) /\ m.type = a.type /\ a.type = r.type
        /\ \A x \in Int : InRange(m, x) <=> InRange(a, x) \/ InRange(r, x)
    <3>1. z = Wrap(r.size + a.size) /\ m = [start |-> a.start, size |-> z, type |-> r.type]
      BY DEF z
    <3> HIDE DEF m
    <3>2. Fused(a, r, m)
      BY <1>1, <2>1, <2>4, <3>1, TouchFact
    <3> QED BY <3>2 DEF Fused
  <2> HIDE DEF m
  <2>6. /\ h \in Seq(MemoryRange) /\ Len(h) = n - 1
        /\ \A j \in 1 .. n - 1 : h[j] = f[j] /\ j \in 1 .. n /\ j < n
    <3>1. n - 1 \in 1 - 1 .. Len(f) /\ 1 \in 1 .. Len(f) + 1
      BY <2>1
    <3>2. /\ h \in Seq(MemoryRange) /\ Len(h) = n - 1 - 1 + 1
          /\ \A j \in 1 .. n - 1 - 1 + 1 : h[j] = f[1 + j - 1]
      BY <1>1, <3>1, SubSeqElements
    <3> HIDE DEF h
    <3>3. n - 1 - 1 + 1 = n - 1
      BY <2>1
    <3>4. \A j \in 1 .. n - 1 : 1 + j - 1 = j /\ j \in 1 .. n /\ j < n
      BY <2>1
    <3> QED BY <3>2, <3>3, <3>4
  <2> HIDE DEF h
  <2>7. Apart(h)
    <3>1. ASSUME NEW i \in 1 .. Len(h) PROVE i \in 1 .. Len(f) /\ h[i] = f[i]
      BY <2>6
    <3> QED BY <1>1, <3>1 DEF Apart
  <2>8. AllBelow(h, m.start)
    BY <1>1, <2>1, <2>5, <2>6 DEF AllBelow, Apart, a
  <2>9. Around(g.front, g.range, b)
    BY <1>1, <2>2, <2>3, <2>5, <2>6, <2>7, <2>8 DEF Around
  <2>10. ASSUME NEW x \in Int, NEW ty
         PROVE  Holds(f, x, ty) <=> Holds(h, x, ty) \/ (InRange(a, x) /\ a.type = ty)
    <3>1. ASSUME NEW i \in 1 .. Len(f) PROVE i = n \/ i \in 1 .. n - 1
      BY <2>1
    <3> QED BY <2>1, <2>6, <3>1 DEF Holds, a
  <2>11. ASSUME NEW x \in Int, NEW ty
         PROVE  HoldsAround(g.front, g.range, b, x, ty) <=> HoldsAround(f, r, b, x, ty)
    BY <2>2, <2>3, <2>5, <2>10 DEF HoldsAround
  <2> QED BY <2>9, <2>11
<1> QED BY <1>2, <1>3

(* merge_ranges() towards the back.                                        *)
LEMMA MergeBackFact ==
  ASSUME NEW f, NEW r, NEW b, Around(f, r, b), NEW g, g = MergeBack(r, b)
  PROVE  /\ Around(f, g.range, g.back)
         /\ \A x \in Int : \A ty : HoldsAround(f, g.range, g.back, x, ty)
                                 <=> HoldsAround(f, r, b, x, ty)
<1>1. /\ f \in Seq(MemoryRange) /\ Apart(f) /\ AllBelow(f, r.start)
      /\ b \in Seq(MemoryRange) /\ Apart(b) /\ AllAbove(b, EndOf(r))
      /\ r \in MemoryRange /\ r.start <= EndOf(r)
  BY DEF Around
<1>2. CASE ~(b # <<>> /\ Touches(r, b[1]))
  <2>1. g.back = b /\ g.range = r
    BY <1>2 DEF MergeBack
  <2> QED BY <2>1
<1>3. CASE b # <<>> /\ Touches(r, b[1])
  <2> DEFINE a == b[1]
             z == Wrap(r.size + a.size)
             m == [start |-> r.start, size |-> z, type |-> r.type]
             h == Tail(b)
  <2>1. Len(b) \in Nat /\ 1 \in 1 .. Len(b) /\ a \in MemoryRange
    BY <1>1, <1>3
  <2>2. g.back = h /\ g.range = [r EXCEPT !.size = Wrap(@ + a.size)]
    BY <1>3 DEF MergeBack
  <2>3. g.range = m
    BY <1>1, <2>2 DEF MemoryRange
  <2>4. a.start <= EndOf(a) /\ EndOf(r) < a.start /\ Touches(r, a)
    <3>1. a.start \in Nat /\ EndOf(r) \in Nat /\ a.start > EndOf(r)
      BY <1>1, <2>1, RangeFields DEF AllAbove
    <3> QED BY <1>1, <1>3, <2>1, <3>1 DEF Apart
  <2> HIDE DEF a, z
  <2>5. /\ m \in MemoryRange /\ EndOf(m) = EndOf(a) /\ m.start = r.start
        /\ m.start <= EndOf(m) /\ m.type = r.type /\ a.type = r.type
        /\ \A x \in Int : InRange(m, x) <=> InRange(r, x) \/ InRange(a, x)
    <3>0. a.type = r.type
      BY <2>4 DEF Touches
    <3>1. z = Wrap(r.size + a.size) /\ m = [start |-> r.start, size |-> z, type |-> a.type]
      BY <3>0 DEF z
    <3> HIDE DEF m
    <3>2. Fused(r, a, m)
      BY <1>1, <2>1, <2>4, <3>1, TouchFact
    <3> QED BY <3>0, <3>2 DEF Fused
  <2> HIDE DEF m
  <2>6. /\ h \in Seq(MemoryRange) /\ Len(h) = Len(b) - 1
        /\ \A j \in 1 .. Len(b) - 1 : h[j] = b[j + 1] /\ j + 1 \in 1 .. Len(b)
    BY <1>1, <1>3
  <2> HIDE DEF h
  <2>7. Apart(h)
    <3>1. ASSUME NEW i \in 1 .. Len(h) PROVE h[i].start <= EndOf(h[i])
      BY <1>1, <2>6 DEF Apart
    <3>2. ASSUME NEW i \in 1 .. Len(h), NEW j \in 1 .. Len(h), i < j
          PROVE  EndOf(h[i]) < h[j].start
      <4>1. i + 1 \in 1 .. Len(b) /\ j + 1 \in 1 .. Len(b) /\ i + 1 < j + 1
            /\ h[i] = b[i + 1] /\ h[j] = b[j + 1]
        BY <2>6, <3>2
      <4> QED BY <1>1, <4>1 DEF Apart
    <3> QED BY <3>1, <3>2 DEF Apart
  <2>8. AllAbove(h, EndOf(m))
    <3>1. ASSUME NEW j \in 1 .. Len(h) PROVE h[j].start > EndOf(a)
      <4>1. j + 1 \in 1 .. Len(b) /\ 1 < j + 1 /\ h[j] = b[j + 1]
        BY <2>6
      <4>2. EndOf(b[1]) < b[j + 1].start
        BY <1>1, <2>1, <4>1 DEF Apart
      <4>3. EndOf(b[1]) \in Nat /\ b[j + 1].start \in Nat
        BY <1>1, <2>1, <4>1, ListFields
      <4> QED BY <4>1, <4>2, <4>3 DEF a
    <3> QED BY <2>5, <3>1 DEF AllAbove
  <2>9. Around(f, g.range, g.back)
    BY <1>1, <2>2, <2>3, <2>5, <2>6, <2>7, <2>8 DEF Around
  <2>10. ASSUME NEW x \in Int, NEW ty
         PROVE  Holds(b, x, ty) <=> Holds(h, x, ty) \/ (InRange(a, x) /\ a.type = ty)
    <3>1. ASSUME NEW i \in 1 .. Len(b), i # 1
          PROVE  i - 1 \in 1 .. Len(b) - 1 /\ h[i - 1] = b[i]
      <4>1. i - 1 \in 1 .. Len(b) - 1 /\ (i - 1) + 1 = i
        BY <3>1
      <4> QED BY <2>6, <4>1
    <3>2. Holds(b, x, ty) => Holds(h, x, ty) \/ (InRange(a, x) /\ a.type = ty)
      BY <2>6, <3>1 DEF Holds, a
    <3>3. Holds(h, x, ty) => Holds(b, x, ty)
      BY <2>6 DEF Holds
    <3>4. InRange(a, x) /\ a.type = ty => Holds(b, x, ty)
      BY <2>1 DEF Holds, a
    <3> QED BY <3>2, <3>3, <3>4
  <2>11. ASSUME NEW x \in Int, NEW ty
         PROVE  HoldsAround(f, g.range, g.back, x, ty) <=> HoldsAround(f, r, b, x, ty)
    BY <2>2, <2>3, <2>5, <2>10 DEF HoldsAround
  <2> QED BY <2>9, <2>11
<1> QED BY <1>2, <1>3

(* merge_ranges() changes the type of no address.                          *)
LEMMA MergeFact ==
  ASSUME NEW f, NEW r, NEW b, Around(f, r, b), NEW t, t = MergeRanges(f, r, b)
  PROVE  Joins(f, r, b, t)
<1> DEFINE g == MergeFront(f, r)
           h == MergeBack(g.range, b)
<1>1. t = g.front \o <<h.range>> \o h.back
  BY DEF MergeRanges
<1>2. /\ Around(g.front, g.range, b)
      /\ \A x \in Int : \A ty : HoldsAround(g.front, g.range, b, x, ty)
                              <=> HoldsAround(f, r, b, x, ty)
  BY MergeFrontFact
<1> HIDE DEF g
<1>3. /\ Around(g.front, h.range, h.back)
      /\ \A x \in Int : \A ty : HoldsAround(g.front, h.range, h.back, x, ty)
                              <=> HoldsAround(g.front, g.range, b, x, ty)
  BY <1>2, MergeBackFact
<1> HIDE DEF h
<1>4. Joins(g.front, h.range, h.back, t)
  BY <1>1, <1>3, JoinFact
<1> QED BY <1>2, <1>3, <1>4 DEF Joins

-----------------------------------------------------------------------------
(***************************************************************************)
(* What the operations do to the type of every address.                    *)
(***************************************************************************)

(* List t is well formed, has type at the addresses from first to last and *)
(* is s everywhere else.                                                   *)
Updated(s, t, first, last, type) ==
  /\ t \in Seq(MemoryRange) /\ Apart(t)
  /\ \A x \in Int : \A ty : Holds(t, x, ty) <=>
       IF first <= x /\ x <= last THEN ty = type ELSE Holds(s, x, ty)

LEMMA JoinsUpdate ==
  ASSUME NEW s, NEW f, NEW b, NEW r \in MemoryRange, r.start <= EndOf(r),
         Parts(s, r.start, EndOf(r), f, b)
  PROVE  /\ Around(f, r, b)
         /\ \A t : Joins(f, r, b, t) => Updated(s, t, r.start, EndOf(r), r.type)
<1>1. Around(f, r, b)
  BY DEF Parts, Around
<1>2. ASSUME NEW t, Joins(f, r, b, t) PROVE Updated(s, t, r.start, EndOf(r), r.type)
  <2> DEFINE a == r.start
             z == EndOf(r)
  <2>1. a \in Nat /\ z \in Nat /\ a <= z
    BY RangeFields
  <2>2. /\ \A x \in Int : \A ty : Holds(f, x, ty) <=> x < a /\ Holds(s, x, ty)
        /\ \A x \in Int : \A ty : Holds(b, x, ty) <=> x > z /\ Holds(s, x, ty)
    BY DEF Parts
  <2>3. t \in Seq(MemoryRange) /\ Apart(t)
    BY <1>2 DEF Joins
  <2>4. ASSUME NEW x \in Int, NEW ty
        PROVE  Holds(t, x, ty) <=> IF a <= x /\ x <= z THEN ty = r.type ELSE Holds(s, x, ty)
    <3>1. Holds(t, x, ty) <=> Holds(f, x, ty) \/ (a <= x /\ x <= z /\ r.type = ty)
                                \/ Holds(b, x, ty)
      BY <1>2 DEF Joins, HoldsAround, InRange
    <3> HIDE DEF a, z
    <3>2. x < a \/ x > z \/ (a <= x /\ x <= z)
      BY <2>1
    <3>3. (a <= x /\ x <= z) => ~(x < a) /\ ~(x > z)
      BY <2>1
    <3>4. x < a => ~(x > z) /\ ~(a <= x)
      BY <2>1
    <3>5. x > z => ~(x < a) /\ ~(x <= z)
      BY <2>1
    <3> QED BY <2>2, <3>1, <3>2, <3>3, <3>4, <3>5
  <2> QED BY <2>3, <2>4 DEF Updated
<1> QED BY <1>1, <1>2

(* Inserting at the right place, without merging: insert_region().         *)
LEMMA PlaceUpdates ==
  ASSUME NEW s \in Seq(MemoryRange), Apart(s), NEW start \in Addr, NEW size \in Addr,
         NEW end \in Addr, end = Wrap(start + size - 1), start <= end,
         NEW type \in MemoryTypes, NEW pos, RightPos(s, pos, start),
         NEW p, p = PlaceRange(s, pos, start, size, type)
  PROVE  /\ Updated(s, p.front \o <<p.range>> \o p.back, start, end, type)
         /\ Updated(s, MergeRanges(p.front, p.range, p.back), start, end, type)
         /\ Parts(s, start, end, p.front, p.back)
         /\ p.range \in MemoryRange /\ EndOf(p.range) = end
<1> DEFINE r == p.range
           f == p.front
           b == p.back
<1>1. /\ r = [start |-> start, size |-> size, type |-> type]
      /\ Parts(s, start, end, f, b)
  BY PlaceFact
<1>2. r \in MemoryRange /\ r.start = start /\ r.type = type /\ EndOf(r) = end
  BY <1>1 DEF MemoryRange, EndOf
<1> HIDE DEF r, f, b
<1>3. Around(f, r, b) /\ \A t : Joins(f, r, b, t) => Updated(s, t, start, end, type)
  <2>1. r.start <= EndOf(r) /\ Parts(s, r.start, EndOf(r), f, b)
    BY <1>1, <1>2
  <2>2. Around(f, r, b) /\ \A t : Joins(f, r, b, t) => Updated(s, t, r.start, EndOf(r), r.type)
    BY <1>2, <2>1, JoinsUpdate
  <2> QED BY <1>2, <2>2
<1>4. Joins(f, r, b, f \o <<r>> \o b)
  BY <1>3, JoinFact
<1>5. Joins(f, r, b, MergeRanges(f, r, b))
  BY <1>3, MergeFact
<1> QED BY <1>1, <1>2, <1>3, <1>4, <1>5 DEF r, f, b

(* memory_map_insert().                                                    *)
LEMMA MapInsertUpdates ==
  ASSUME NEW s \in Seq(MemoryRange), Apart(s), NEW start \in Addr, NEW size \in Addr,
         NEW end \in Addr, end = Wrap(start + size - 1), start <= end,
         NEW type \in MemoryTypes
  PROVE  Updated(s, MapInsert(s, start, size, type), start, end, type)
<1> DEFINE pos == InsertPos(s, start)
           p == PlaceRange(s, pos, start, size, type)
<1>1. RightPos(s, pos, start)
  BY InsertPosFact
<1>2. MapInsert(s, start, size, type) = MergeRanges(p.front, p.range, p.back)
  BY DEF MapInsert, InsertRange
<1> HIDE DEF pos
<1>3. Updated(s, MergeRanges(p.front, p.range, p.back), start, end, type)
  BY <1>1, PlaceUpdates
<1> QED BY <1>2, <1>3

(* memory_map_remove().                                                    *)
Cleared(s, t, first, last) ==
  /\ t \in Seq(MemoryRange) /\ Apart(t)
  /\ \A x \in Int : \A ty : Holds(t, x, ty) <=> ~(first <= x /\ x <= last) /\ Holds(s, x, ty)

LEMMA MapRemoveClears ==
  ASSUME NEW s \in Seq(MemoryRange), Apart(s), NEW start \in Addr, NEW size \in Addr,
         NEW end \in Addr, end = Wrap(start + size - 1), start <= end
  PROVE  Cleared(s, MapRemove(s, start, size), start, end)
<1> DEFINE pos == InsertPos(s, start)
           p == PlaceRange(s, pos, start, size, MEMORY_TYPE_INTERNAL)
           f == p.front
           b == p.back
           t == MapRemove(s, start, size)
<1>1. RightPos(s, pos, start)
  BY InsertPosFact
<1>2. t = f \o b
  BY DEF MapRemove, InsertRange
<1>3. Parts(s, start, end, f, b)
  <2> HIDE DEF pos
  <2> QED BY <1>1, PlaceFact
<1> HIDE DEF f, b, t
<1>4. /\ f \in Seq(MemoryRange) /\ Apart(f) /\ AllBelow(f, start)
      /\ b \in Seq(MemoryRange) /\ Apart(b) /\ AllAbove(b, end)
      /\ \A x \in Int : \A ty : Holds(f, x, ty) <=> x < start /\ Holds(s, x, ty)
      /\ \A x \in Int : \A ty : Holds(b, x, ty) <=> x > end /\ Holds(s, x, ty)
      /\ start \in Nat /\ end \in Nat
  BY <1>3, AddrNat DEF Parts
<1>5. ASSUME NEW i \in 1 .. Len(f), NEW j \in 1 .. Len(b) PROVE EndOf(f[i]) < b[j].start
  <2>1. EndOf(f[i]) < start /\ b[j].start > end /\ EndOf(f[i]) \in Nat /\ b[j].start \in Nat
    BY <1>4, ListFields DEF AllBelow, AllAbove
  <2> QED BY <1>4, <2>1
<1>6. t \in Seq(MemoryRange) /\ Apart(t)
  BY <1>2, <1>4, <1>5, ApartConcat, ConcatElements
<1>7. ASSUME NEW x \in Int, NEW ty
      PROVE  Holds(t, x, ty) <=> ~(start <= x /\ x <= end) /\ Holds(s, x, ty)
  <2>1. Holds(t, x, ty) <=> Holds(f, x, ty) \/ Holds(b, x, ty)
    BY <1>2, <1>4, HoldsConcat
  <2>2. x < start \/ x > end <=> ~(start <= x /\ x <= end)
    BY <1>4
  <2> QED BY <1>4, <2>1, <2>2
<1> QED BY <1>6, <1>7 DEF Cleared, t

(* The ranges of a list that is put together.                              *)
LEMMA JoinElements ==
  ASSUME NEW f \in Seq(MemoryRange), NEW r \in MemoryRange, NEW b \in Seq(MemoryRange),
         NEW t, t = f \o <<r>> \o b, NEW j \in 1 .. Len(t)
  PROVE  \/ \E i \in 1 .. Len(f) : t[j] = f[i]
         \/ t[j] = r
         \/ \E i \in 1 .. Len(b) : t[j] = b[i]
<1> DEFINE u == f \o <<r>>
<1>1. <<r>> \in Seq(MemoryRange) /\ Len(<<r>>) = 1 /\ <<r>>[1] = r
  OBVIOUS
<1>2. /\ u \in Seq(MemoryRange) /\ Len(u) = Len(f) + 1
      /\ \A k \in 1 .. Len(f) + 1 : u[k] = IF k <= Len(f) THEN f[k] ELSE <<r>>[k - Len(f)]
  BY <1>1, ConcatElements
<1>3. t = u \o b
  OBVIOUS
<1> HIDE DEF u
<1>4. /\ Len(t) = Len(u) + Len(b)
      /\ \A k \in 1 .. Len(u) + Len(b) : t[k] = IF k <= Len(u) THEN u[k] ELSE b[k - Len(u)]
  <2>1. u \in Seq(MemoryRange)
    BY <1>2
  <2>2. /\ Len(u \o b) = Len(u) + Len(b)
        /\ \A k \in 1 .. Len(u) + Len(b) :
             (u \o b)[k] = IF k <= Len(u) THEN u[k] ELSE b[k - Len(u)]
    BY <2>1, ConcatElements
  <2> QED BY <1>3, <2>2
<1>5. CASE j <= Len(f)
  <2>1. j \in 1 .. Len(f) /\ j \in 1 .. Len(u) + Len(b) /\ j \in 1 .. Len(f) + 1 /\ j <= Len(u)
    BY <1>2, <1>4, <1>5
  <2>2. t[j] = f[j]
    BY <1>2, <1>4, <1>5, <2>1
  <2> QED BY <2>1, <2>2
<1>6. CASE j = Len(f) + 1
  <2>1. j \in 1 .. Len(f) + 1 /\ j - Len(f) = 1 /\ ~(j <= Len(f)) /\ j <= Len(u)
    BY <1>2, <1>6
  <2>2. t[j] = u[j] /\ u[j] = <<r>>[1]
    BY <1>2, <1>4, <2>1
  <2> QED BY <2>2
<1>7. CASE j > Len(f) + 1
  <2>1. ~(j <= Len(u)) /\ j - Len(u) \in 1 .. Len(b)
    BY <1>2, <1>4, <1>7
  <2> QED BY <1>4, <2>1
<1>8. j <= Len(f) \/ j = Len(f) + 1 \/ j > Len(f) + 1
  OBVIOUS
<1> QED BY <1>5, <1>6, <1>7, <1>8

(* Where the ranges end after an insertion without merging.                *)
LEMMA JoinEnds ==
  ASSUME NEW s, NEW f, NEW b, NEW r \in MemoryRange, NEW start, NEW end,
         Parts(s, start, end, f, b), EndOf(r) = end
  PROVE  EndsAmong(f \o <<r>> \o b, s, {start - 1, end})
<1> DEFINE t == f \o <<r>> \o b
<1>1. /\ f \in Seq(MemoryRange) /\ b \in Seq(MemoryRange)
      /\ EndsAmong(f, s, {start - 1}) /\ EndsAmong(b, s, {})
  BY DEF Parts
<1>2. t = f \o <<r>> \o b
  OBVIOUS
<1> HIDE DEF t
<1>3. ASSUME NEW j \in 1 .. Len(t)
      PROVE  \/ EndOf(t[j]) \in {start - 1, end}
             \/ \E i \in 1 .. Len(s) : s[i].type = t[j].type /\ EndOf(s[i]) = EndOf(t[j])
  <2>1. \/ \E i \in 1 .. Len(f) : t[j] = f[i]
        \/ t[j] = r
        \/ \E i \in 1 .. Len(b) : t[j] = b[i]
    BY <1>1, <1>2, JoinElements
  <2> QED BY <1>1, <2>1, ZenonT(30) DEF EndsAmong
<1> QED BY <1>2, <1>3 DEF EndsAmong

-----------------------------------------------------------------------------
(***************************************************************************)
(* Merging leaves no two ranges that could be one.                         *)
(***************************************************************************)

(* What follows a range has another type.                                  *)
Clean(s) == \A i \in 1 .. Len(s) : ~Holds(s, EndOf(s[i]) + 1, s[i].type)

LEMMA TouchesMeans ==
  ASSUME NEW a \in MemoryRange, a.start <= EndOf(a), NEW c \in MemoryRange,
         EndOf(a) < c.start
  PROVE  Touches(a, c) <=> EndOf(a) + 1 = c.start /\ a.type = c.type
<1>1. /\ a.start \in Nat /\ EndOf(a) \in Nat /\ c.start \in Nat /\ a.size \in Nat
      /\ c.start < AddrMod /\ AddrMod \in Nat
  BY RangeFields, AddrNat
<1>2. a.size = EndOf(a) - a.start + 1
  <2>1. EndOf(a) < AddrMod - 1
    BY <1>1
  <2> QED BY <2>1, ExactSize
<1>3. a.start + a.size = EndOf(a) + 1 /\ EndOf(a) + 1 \in Addr
  BY <1>1, <1>2, AddrNat
<1> QED BY <1>3, WrapSmall DEF Touches

(* The ranges left in front of the merged one do not touch it.             *)
FrontShape(f, r, g) ==
  /\ g.range.type = r.type /\ EndOf(g.range) = EndOf(r)
  /\ \A j \in 1 .. Len(g.front) :
       \E i \in 1 .. Len(f) : g.front[j] = f[i] /\ ~(f[i].type = r.type /\ EndOf(f[i]) + 1 = r.start)

LEMMA MergeFrontShape ==
  ASSUME NEW f, NEW r, NEW b, Around(f, r, b), NEW g, g = MergeFront(f, r)
  PROVE  FrontShape(f, r, g)
<1>1. /\ f \in Seq(MemoryRange) /\ Apart(f) /\ AllBelow(f, r.start)
      /\ r \in MemoryRange /\ r.start <= EndOf(r)
  BY DEF Around
<1>2. ASSUME NEW j \in 1 .. Len(f), j # Len(f) PROVE EndOf(f[j]) + 1 # r.start
  <2>1. Len(f) \in 1 .. Len(f) /\ j < Len(f)
    BY <1>1, <1>2
  <2>2. /\ EndOf(f[j]) < f[Len(f)].start /\ f[Len(f)].start <= EndOf(f[Len(f)])
        /\ EndOf(f[Len(f)]) < r.start
    BY <1>1, <2>1 DEF Apart, AllBelow
  <2>3. /\ EndOf(f[j]) \in Nat /\ f[Len(f)].start \in Nat /\ EndOf(f[Len(f)]) \in Nat
        /\ r.start \in Nat
    BY <1>1, <2>1, ListFields, RangeFields
  <2> QED BY <2>2, <2>3
<1>3. CASE ~(f # <<>> /\ Touches(f[Len(f)], r))
  <2>1. g.front = f /\ g.range = r
    BY <1>3 DEF MergeFront
  <2>2. ASSUME NEW j \in 1 .. Len(f) PROVE ~(f[j].type = r.type /\ EndOf(f[j]) + 1 = r.start)
    <3>1. CASE j # Len(f)
      BY <1>2, <3>1
    <3>2. CASE j = Len(f)
      <4>1. f # <<>> /\ f[j] \in MemoryRange
        BY <1>1, <3>2
      <4>2. f[j].start <= EndOf(f[j]) /\ EndOf(f[j]) < r.start
        BY <1>1 DEF Apart, AllBelow
      <4>3. ~Touches(f[j], r)
        BY <1>3, <3>2, <4>1
      <4> QED BY <1>1, <4>1, <4>2, <4>3, TouchesMeans
    <3> QED BY <3>1, <3>2
  <2> QED BY <2>1, <2>2 DEF FrontShape
<1>4. CASE f # <<>> /\ Touches(f[Len(f)], r)
  <2> DEFINE n == Len(f)
             a == f[n]
             z == Wrap(r.size + a.size)
             m == [start |-> a.start, size |-> z, type |-> r.type]
             h == SubSeq(f, 1, n - 1)
  <2>1. n \in 1 .. Len(f) /\ n \in Nat /\ a \in MemoryRange
    BY <1>1, <1>4
  <2>2. /\ g.front = h
        /\ g.range = [r EXCEPT !.start = a.start, !.size = Wrap(@ + a.size)]
    BY <1>4 DEF MergeFront
  <2>3. g.range = m
    BY <1>1, <2>2 DEF MemoryRange
  <2>4. a.start <= EndOf(a) /\ EndOf(a) < r.start /\ Touches(a, r)
    BY <1>1, <1>4, <2>1 DEF Apart, AllBelow
  <2> HIDE DEF a, z
  <2>5. EndOf(m) = EndOf(r) /\ m.type = r.type
    <3>1. z = Wrap(r.size + a.size) /\ m = [start |-> a.start, size |-> z, type |-> r.type]
      BY DEF z
    <3> HIDE DEF m
    <3>2. Fused(a, r, m)
      BY <1>1, <2>1, <2>4, <3>1, TouchFact
    <3> QED BY <3>2 DEF Fused
  <2> HIDE DEF m
  <2>6. Len(h) = n - 1 /\ \A j \in 1 .. n - 1 : h[j] = f[j] /\ j \in 1 .. n /\ j # n
    <3>1. n - 1 \in 1 - 1 .. Len(f) /\ 1 \in 1 .. Len(f) + 1
      BY <2>1
    <3>2. /\ Len(h) = n - 1 - 1 + 1
          /\ \A j \in 1 .. n - 1 - 1 + 1 : h[j] = f[1 + j - 1]
      BY <1>1, <3>1, SubSeqElements
    <3> HIDE DEF h
    <3>3. n - 1 - 1 + 1 = n - 1
      BY <2>1
    <3>4. \A j \in 1 .. n - 1 : 1 + j - 1 = j /\ j \in 1 .. n /\ j # n
      BY <2>1
    <3> QED BY <3>2, <3>3, <3>4
  <2> HIDE DEF h
  <2> QED BY <1>2, <2>2, <2>3, <2>5, <2>6 DEF FrontShape
<1> QED BY <1>3, <1>4

(* The ranges left behind the merged one, and where that ends.             *)
EndShape(r, b, m) ==
  \/ EndOf(m) = EndOf(r) /\ \A i \in 1 .. Len(b) : ~(b[i].type = r.type /\ EndOf(r) + 1 = b[i].start)
  \/ \E i \in 1 .. Len(b) : b[i].type = r.type /\ EndOf(m) = EndOf(b[i])

BackShape(r, b, g) ==
  /\ g.range.type = r.type /\ EndShape(r, b, g.range)
  /\ \A j \in 1 .. Len(g.back) : \E i \in 1 .. Len(b) : g.back[j] = b[i]

LEMMA MergeBackShape ==
  ASSUME NEW f, NEW r, NEW b, Around(f, r, b), NEW g, g = MergeBack(r, b)
  PROVE  BackShape(r, b, g)
<1>1. /\ b \in Seq(MemoryRange) /\ Apart(b) /\ AllAbove(b, EndOf(r))
      /\ r \in MemoryRange /\ r.start <= EndOf(r)
  BY DEF Around
<1>2. CASE ~(b # <<>> /\ Touches(r, b[1]))
  <2>1. g.back = b /\ g.range = r
    BY <1>2 DEF MergeBack
  <2>2. ASSUME NEW i \in 1 .. Len(b) PROVE ~(b[i].type = r.type /\ EndOf(r) + 1 = b[i].start)
    <3>1. 1 \in 1 .. Len(b) /\ b # <<>>
      BY <1>1
    <3>2. b[1].start > EndOf(r) /\ b[1].start <= EndOf(b[1])
      BY <1>1, <3>1 DEF AllAbove, Apart
    <3>3. EndOf(r) \in Nat /\ b[1].start \in Nat /\ EndOf(b[1]) \in Nat /\ b[i].start \in Nat
          /\ b[1] \in MemoryRange
      BY <1>1, <3>1, ListFields, RangeFields
    <3>4. CASE i = 1
      <4>1. ~Touches(r, b[1]) /\ EndOf(r) < b[1].start
        BY <1>2, <3>1, <3>2, <3>3
      <4>2. Touches(r, b[1]) <=> EndOf(r) + 1 = b[1].start /\ r.type = b[1].type
        BY <1>1, <3>3, <4>1, TouchesMeans
      <4> QED BY <3>4, <4>1, <4>2
    <3>5. CASE i # 1
      <4>1. 1 < i
        BY <3>5
      <4>2. EndOf(b[1]) < b[i].start
        BY <1>1, <3>1, <4>1 DEF Apart
      <4> QED BY <3>2, <3>3, <4>2
    <3> QED BY <3>4, <3>5
  <2> QED BY <2>1, <2>2 DEF BackShape, EndShape
<1>3. CASE b # <<>> /\ Touches(r, b[1])
  <2> DEFINE a == b[1]
             z == Wrap(r.size + a.size)
             m == [start |-> r.start, size |-> z, type |-> r.type]
             h == Tail(b)
  <2>1. Len(b) \in Nat /\ 1 \in 1 .. Len(b) /\ a \in MemoryRange
    BY <1>1, <1>3
  <2>2. g.back = h /\ g.range = [r EXCEPT !.size = Wrap(@ + a.size)]
    BY <1>3 DEF MergeBack
  <2>3. g.range = m
    BY <1>1, <2>2 DEF MemoryRange
  <2>4. a.start <= EndOf(a) /\ EndOf(r) < a.start /\ Touches(r, a)
    <3>1. a.start \in Nat /\ EndOf(r) \in Nat /\ a.start > EndOf(r)
      BY <1>1, <2>1, RangeFields DEF AllAbove
    <3> QED BY <1>1, <1>3, <2>1, <3>1 DEF Apart
  <2>5. \A j \in 1 .. Len(h) : h[j] = b[j + 1] /\ j + 1 \in 1 .. Len(b)
    BY <1>1, <1>3
  <2> HIDE DEF a, z, h
  <2>6. EndOf(m) = EndOf(a) /\ m.type = r.type /\ a.type = r.type
    <3>1. a.type = r.type
      BY <2>4 DEF Touches
    <3>2. z = Wrap(r.size + a.size) /\ m = [start |-> r.start, size |-> z, type |-> a.type]
      BY <3>1 DEF z
    <3> HIDE DEF m
    <3>3. Fused(r, a, m)
      BY <1>1, <2>1, <2>4, <3>2, TouchFact
    <3> QED BY <3>1, <3>3 DEF Fused
  <2> HIDE DEF m
  <2> QED BY <2>1, <2>2, <2>3, <2>5, <2>6 DEF BackShape, EndShape, a
<1> QED BY <1>2, <1>3

LEMMA MergeClean ==
  ASSUME NEW f, NEW r, NEW b, Around(f, r, b), Clean(f), Clean(b),
         NEW t, t = MergeRanges(f, r, b)
  PROVE  Clean(t)
<1> DEFINE g == MergeFront(f, r)
           h == MergeBack(g.range, b)
<1>1. /\ f \in Seq(MemoryRange) /\ Apart(f) /\ AllBelow(f, r.start)
      /\ b \in Seq(MemoryRange) /\ Apart(b) /\ AllAbove(b, EndOf(r))
      /\ r \in MemoryRange /\ r.start <= EndOf(r)
      /\ r.start \in Nat /\ EndOf(r) \in Nat
  BY RangeFields DEF Around
<1>2. t = g.front \o <<h.range>> \o h.back
  BY DEF MergeRanges
<1>3. FrontShape(f, r, g) /\ Around(g.front, g.range, b)
  BY MergeFrontShape, MergeFrontFact
<1> HIDE DEF g
<1>4. BackShape(g.range, b, h) /\ Around(g.front, h.range, h.back)
  BY <1>3, MergeBackShape, MergeBackFact
<1> HIDE DEF h
<1>5. Joins(f, r, b, t)
  BY MergeFact
<1> SUFFICES ASSUME NEW j \in 1 .. Len(t) PROVE ~Holds(t, EndOf(t[j]) + 1, t[j].type)
  BY DEF Clean
<1> DEFINE e == EndOf(t[j])
           ty == t[j].type
<1>6. e \in Nat
  BY <1>5, ListFields DEF Joins
<1>7. Holds(t, e + 1, ty) <=> HoldsAround(f, r, b, e + 1, ty)
  <2> HIDE DEF e, ty
  <2> QED BY <1>5, <1>6 DEF Joins
<1>8. /\ \A i \in 1 .. Len(f) : EndOf(f[i]) < r.start /\ EndOf(f[i]) \in Nat
      /\ \A i \in 1 .. Len(b) : /\ b[i].start > EndOf(r) /\ b[i].start <= EndOf(b[i])
                                /\ b[i].start \in Nat /\ EndOf(b[i]) \in Nat
  BY <1>1, ListFields DEF AllBelow, AllAbove, Apart
<1>9. \/ \E i \in 1 .. Len(g.front) : t[j] = g.front[i]
      \/ t[j] = h.range
      \/ \E i \in 1 .. Len(h.back) : t[j] = h.back[i]
  <2>1. g.front \in Seq(MemoryRange) /\ h.range \in MemoryRange /\ h.back \in Seq(MemoryRange)
    BY <1>4 DEF Around
  <2> DEFINE u == g.front
             v == h.range
             w == h.back
  <2>2. u \in Seq(MemoryRange) /\ v \in MemoryRange /\ w \in Seq(MemoryRange) /\ t = u \o <<v>> \o w
    BY <1>2, <2>1
  <2> HIDE DEF u, v, w
  <2>3. \/ \E i \in 1 .. Len(u) : t[j] = u[i]
        \/ t[j] = v
        \/ \E i \in 1 .. Len(w) : t[j] = w[i]
    BY <2>2, JoinElements
  <2> QED BY <2>3 DEF u, v, w
<1>10. \/ \E i \in 1 .. Len(f) : t[j] = f[i] /\ ~(f[i].type = r.type /\ EndOf(f[i]) + 1 = r.start)
       \/ ty = r.type /\ EndShape(r, b, t[j])
       \/ \E i \in 1 .. Len(b) : t[j] = b[i]
  BY <1>3, <1>4, <1>9 DEF FrontShape, BackShape, EndShape
<1>11. CASE \E i \in 1 .. Len(f) :
              t[j] = f[i] /\ ~(f[i].type = r.type /\ EndOf(f[i]) + 1 = r.start)
  <2>1. PICK i \in 1 .. Len(f) :
          t[j] = f[i] /\ ~(f[i].type = r.type /\ EndOf(f[i]) + 1 = r.start)
    BY <1>11
  <2>2. ~Holds(f, e + 1, ty)
    BY <2>1 DEF Clean
  <2>3. ty = f[i].type /\ e = EndOf(f[i]) /\ e < r.start
    BY <1>8, <2>1
  <2> HIDE DEF e, ty
  <2>4. ~(InRange(r, e + 1) /\ r.type = ty)
    BY <1>1, <1>6, <2>1, <2>3 DEF InRange
  <2>5. ~Holds(b, e + 1, ty)
    BY <1>1, <1>6, <1>8, <2>3 DEF Holds, InRange
  <2> QED BY <1>7, <2>2, <2>4, <2>5 DEF HoldsAround, e, ty
<1>12. CASE \E i \in 1 .. Len(b) : EndOf(t[j]) = EndOf(b[i]) /\ t[j].type = b[i].type
  <2>1. PICK i \in 1 .. Len(b) : e = EndOf(b[i]) /\ ty = b[i].type
    BY <1>12
  <2> HIDE DEF e, ty
  <2>2. ~Holds(b, e + 1, ty)
    BY <2>1 DEF Clean
  <2>3. e > EndOf(r) /\ EndOf(r) >= r.start
    BY <1>1, <1>8, <2>1
  <2>4. ~InRange(r, e + 1)
    BY <1>1, <1>6, <2>3 DEF InRange
  <2>5. ~Holds(f, e + 1, ty)
    BY <1>1, <1>6, <1>8, <2>3 DEF Holds, InRange
  <2> QED BY <1>7, <2>2, <2>4, <2>5 DEF HoldsAround, e, ty
<1>13. CASE /\ ty = r.type /\ EndOf(t[j]) = EndOf(r)
            /\ \A i \in 1 .. Len(b) : ~(b[i].type = r.type /\ EndOf(r) + 1 = b[i].start)
  <2>1. e = EndOf(r) /\ ty = r.type
    BY <1>13
  <2> HIDE DEF e, ty
  <2>2. ~InRange(r, e + 1)
    BY <1>1, <2>1 DEF InRange
  <2>3. ~Holds(f, e + 1, ty)
    BY <1>1, <1>8, <2>1 DEF Holds, InRange
  <2>4. ~Holds(b, e + 1, ty)
    <3> SUFFICES ASSUME NEW i \in 1 .. Len(b), b[i].start <= e + 1, b[i].type = ty
                 PROVE  FALSE
      BY DEF Holds, InRange
    <3>1. EndOf(r) + 1 = b[i].start
      BY <1>1, <1>8, <2>1
    <3> QED BY <1>13, <2>1, <3>1
  <2> QED BY <1>7, <2>2, <2>3, <2>4 DEF HoldsAround, e, ty
<1> QED BY <1>10, <1>11, <1>12, <1>13 DEF EndShape

(* The parts of a clean list are clean.                                    *)
LEMMA PartsClean ==
  ASSUME NEW s, NEW start \in Nat, NEW end \in Nat, NEW f, NEW b,
         Parts(s, start, end, f, b), Clean(s)
  PROVE  Clean(f) /\ Clean(b)
<1>1. /\ f \in Seq(MemoryRange) /\ b \in Seq(MemoryRange)
      /\ \A x \in Int : \A ty : Holds(f, x, ty) <=> x < start /\ Holds(s, x, ty)
      /\ \A x \in Int : \A ty : Holds(b, x, ty) <=> x > end /\ Holds(s, x, ty)
      /\ EndsAmong(f, s, {start - 1}) /\ EndsAmong(b, s, {})
  BY DEF Parts
<1>2. ASSUME NEW j \in 1 .. Len(f) PROVE ~Holds(f, EndOf(f[j]) + 1, f[j].type)
  <2> DEFINE e == EndOf(f[j])
             ty == f[j].type
  <2>1. e \in Nat
    BY <1>1, ListFields
  <2>2. e = start - 1 \/ \E i \in 1 .. Len(s) : s[i].type = ty /\ EndOf(s[i]) = e
    BY <1>1 DEF EndsAmong
  <2> HIDE DEF e, ty
  <2>3. CASE e = start - 1
    <3>1. e + 1 \in Int /\ ~(e + 1 < start)
      BY <2>1, <2>3
    <3>2. ~Holds(f, e + 1, ty)
      BY <1>1, <3>1
    <3> QED BY <3>2 DEF e, ty
  <2>4. CASE \E i \in 1 .. Len(s) : s[i].type = ty /\ EndOf(s[i]) = e
    <3>1. ~Holds(s, e + 1, ty) /\ e + 1 \in Int
      BY <2>1, <2>4 DEF Clean
    <3>2. ~Holds(f, e + 1, ty)
      BY <1>1, <3>1
    <3> QED BY <3>2 DEF e, ty
  <2> QED BY <2>2, <2>3, <2>4
<1>3. ASSUME NEW j \in 1 .. Len(b) PROVE ~Holds(b, EndOf(b[j]) + 1, b[j].type)
  <2> DEFINE e == EndOf(b[j])
             ty == b[j].type
  <2>1. e \in Nat
    BY <1>1, ListFields
  <2>2. \E i \in 1 .. Len(s) : s[i].type = ty /\ EndOf(s[i]) = e
    BY <1>1 DEF EndsAmong
  <2> HIDE DEF e, ty
  <2>3. ~Holds(s, e + 1, ty) /\ e + 1 \in Int
    BY <2>1, <2>2 DEF Clean
  <2>4. ~Holds(b, e + 1, ty)
    BY <1>1, <2>3
  <2> QED BY <2>4 DEF e, ty
<1> QED BY <1>2, <1>3 DEF Clean

(* memory_map_insert() and memory_map_remove() keep a list clean.          *)
LEMMA MapInsertClean ==
  ASSUME NEW s \in Seq(MemoryRange), Apart(s), Clean(s),
         NEW start \in Addr, NEW size \in Addr,
         NEW end \in Addr, end = Wrap(start + size - 1), start <= end,
         NEW type \in MemoryTypes
  PROVE  Clean(MapInsert(s, start, size, type))
<1> DEFINE pos == InsertPos(s, start)
           p == PlaceRange(s, pos, start, size, type)
           f == p.front
           r == p.range
           b == p.back
<1>1. RightPos(s, pos, start)
  BY InsertPosFact
<1>2. MapInsert(s, start, size, type) = MergeRanges(f, r, b)
  BY DEF MapInsert, InsertRange
<1> HIDE DEF pos
<1>3. /\ r = [start |-> start, size |-> size, type |-> type]
      /\ Parts(s, start, end, f, b)
  BY <1>1, PlaceFact
<1>4. r \in MemoryRange /\ r.start = start /\ EndOf(r) = end
  BY <1>3 DEF MemoryRange, EndOf
<1> HIDE DEF f, r, b
<1>5. Around(f, r, b)
  <2>1. r.start <= EndOf(r) /\ Parts(s, r.start, EndOf(r), f, b)
    BY <1>3, <1>4
  <2> QED BY <1>4, <2>1, JoinsUpdate
<1>6. Clean(f) /\ Clean(b)
  BY <1>3, AddrNat, PartsClean
<1>7. Clean(MergeRanges(f, r, b))
  BY <1>5, <1>6, MergeClean
<1> QED BY <1>2, <1>7

LEMMA MapRemoveClean ==
  ASSUME NEW s \in Seq(MemoryRange), Apart(s), Clean(s),
         NEW start \in Addr, NEW size \in Addr,
         NEW end \in Addr, end = Wrap(start + size - 1), start <= end
  PROVE  Clean(MapRemove(s, start, size))
<1> DEFINE pos == InsertPos(s, start)
           p == PlaceRange(s, pos, start, size, MEMORY_TYPE_INTERNAL)
           f == p.front
           b == p.back
           t == f \o b
<1>1. RightPos(s, pos, start)
  BY InsertPosFact
<1>2. MapRemove(s, start, size) = t
  BY DEF MapRemove, InsertRange
<1> HIDE DEF pos
<1>3. Parts(s, start, end, f, b)
  BY <1>1, PlaceFact
<1> HIDE DEF f, b
<1>4. /\ f \in Seq(MemoryRange) /\ Apart(f) /\ AllBelow(f, start)
      /\ b \in Seq(MemoryRange) /\ Apart(b) /\ AllAbove(b, end)
      /\ start \in Nat /\ end \in Nat
  BY <1>3, AddrNat DEF Parts
<1>5. Clean(f) /\ Clean(b)
  BY <1>3, <1>4, PartsClean
<1>6. /\ Len(t) = Len(f) + Len(b)
      /\ \A j \in 1 .. Len(f) + Len(b) : t[j] = IF j <= Len(f) THEN f[j] ELSE b[j - Len(f)]
  BY <1>4, ConcatElements
<1>7. \A x \in Int : \A ty : Holds(t, x, ty) <=> Holds(f, x, ty) \/ Holds(b, x, ty)
  BY <1>4, HoldsConcat
<1> HIDE DEF t
<1>8. /\ \A i \in 1 .. Len(f) : EndOf(f[i]) < start /\ EndOf(f[i]) \in Nat
      /\ \A i \in 1 .. Len(b) : /\ b[i].start > end /\ b[i].start <= EndOf(b[i])
                                /\ b[i].start \in Nat /\ EndOf(b[i]) \in Nat
  BY <1>4, ListFields DEF AllBelow, AllAbove, Apart
<1>9. ASSUME NEW j \in 1 .. Len(t) PROVE ~Holds(t, EndOf(t[j]) + 1, t[j].type)
  <2> DEFINE e == EndOf(t[j])
             ty == t[j].type
  <2>1. CASE j <= Len(f)
    <3>1. j \in 1 .. Len(f) /\ t[j] = f[j]
      BY <1>4, <1>6, <2>1
    <3>2. ~Holds(f, e + 1, ty) /\ e < start /\ e \in Nat
      BY <1>5, <1>8, <3>1 DEF Clean
    <3> HIDE DEF e, ty
    <3>3. ~Holds(b, e + 1, ty)
      BY <1>4, <1>8, <3>2 DEF Holds, InRange
    <3>4. e + 1 \in Int
      BY <3>2
    <3> QED BY <1>7, <3>2, <3>3, <3>4 DEF e, ty
  <2>2. CASE ~(j <= Len(f))
    <3>1. j - Len(f) \in 1 .. Len(b) /\ t[j] = b[j - Len(f)]
      BY <1>4, <1>6, <2>2
    <3>2. ~Holds(b, e + 1, ty) /\ e > end /\ e \in Nat
      <4>1. ~Holds(b, e + 1, ty)
        BY <1>5, <3>1 DEF Clean
      <4>2. b[j - Len(f)].start > end /\ b[j - Len(f)].start <= e /\ b[j - Len(f)].start \in Nat /\ e \in Nat
        BY <1>8, <3>1
      <4> HIDE DEF e
      <4> QED BY <1>4, <4>1, <4>2, SMTT(30)
    <3> HIDE DEF e, ty
    <3>3. ~Holds(f, e + 1, ty)
      BY <1>4, <1>8, <3>2 DEF Holds, InRange
    <3>4. e + 1 \in Int
      BY <3>2
    <3> QED BY <1>7, <3>2, <3>3, <3>4 DEF e, ty
  <2> QED BY <2>1, <2>2
<1> QED BY <1>2, <1>9 DEF Clean

(* Changing the type of one range and merging it with its neighbours.      *)
LEMMA SplitParts ==
  ASSUME NEW s \in Seq(MemoryRange), Apart(s), NEW i \in 1 .. Len(s),
         NEW f, f = SubSeq(s, 1, i - 1), NEW b, b = SubSeq(s, i + 1, Len(s))
  PROVE  Parts(s, s[i].start, EndOf(s[i]), f, b)
<1> DEFINE a == s[i].start
           z == EndOf(s[i])
<1>1. /\ \A j \in 1 .. Len(s) : s[j].start \in Nat /\ EndOf(s[j]) \in Nat
      /\ \A j \in 1 .. Len(s) : s[j].start <= EndOf(s[j])
      /\ \A j, k \in 1 .. Len(s) : j < k => EndOf(s[j]) < s[k].start
  BY ListFields DEF Apart
<1>2. /\ f \in Seq(MemoryRange) /\ Len(f) = i - 1
      /\ \A j \in 1 .. i - 1 : f[j] = s[j] /\ j \in 1 .. Len(s) /\ j < i
  <2>1. i - 1 \in 1 - 1 .. Len(s) /\ 1 \in 1 .. Len(s) + 1
    OBVIOUS
  <2>2. /\ SubSeq(s, 1, i - 1) \in Seq(MemoryRange) /\ Len(SubSeq(s, 1, i - 1)) = i - 1 - 1 + 1
        /\ \A j \in 1 .. i - 1 - 1 + 1 : SubSeq(s, 1, i - 1)[j] = s[1 + j - 1]
    BY <2>1, SubSeqElements
  <2>3. i - 1 - 1 + 1 = i - 1 /\ \A j \in 1 .. i - 1 : 1 + j - 1 = j /\ j \in 1 .. Len(s) /\ j < i
    OBVIOUS
  <2> QED BY <2>2, <2>3
<1>3. /\ b \in Seq(MemoryRange) /\ Len(b) = Len(s) - i
      /\ \A j \in 1 .. Len(s) - i : b[j] = s[i + j] /\ i + j \in 1 .. Len(s) /\ i < i + j
  <2>1. i + 1 \in 1 .. Len(s) + 1 /\ Len(s) \in (i + 1) - 1 .. Len(s)
    OBVIOUS
  <2>2. /\ SubSeq(s, i + 1, Len(s)) \in Seq(MemoryRange)
        /\ Len(SubSeq(s, i + 1, Len(s))) = Len(s) - (i + 1) + 1
        /\ \A j \in 1 .. Len(s) - (i + 1) + 1 : SubSeq(s, i + 1, Len(s))[j] = s[(i + 1) + j - 1]
    BY <2>1, SubSeqElements
  <2>3. /\ Len(s) - (i + 1) + 1 = Len(s) - i
        /\ \A j \in 1 .. Len(s) - i : (i + 1) + j - 1 = i + j /\ i + j \in 1 .. Len(s) /\ i < i + j
    OBVIOUS
  <2> QED BY <2>2, <2>3
<1>4. Apart(f) /\ AllBelow(f, a)
  <2>1. \A j \in 1 .. Len(f) : j \in 1 .. Len(s) /\ j < i /\ f[j] = s[j]
    BY <1>2
  <2> QED BY <1>1, <2>1 DEF Apart, AllBelow
<1>5. Apart(b) /\ AllAbove(b, z)
  <2>1. \A j \in 1 .. Len(b) : i + j \in 1 .. Len(s) /\ i < i + j /\ b[j] = s[i + j]
    BY <1>3
  <2>2. \A j, k \in 1 .. Len(b) : j < k => i + j < i + k
    BY <1>3
  <2>3. ASSUME NEW j \in 1 .. Len(b) PROVE b[j].start > z /\ b[j].start <= EndOf(b[j])
    <3>1. i + j \in 1 .. Len(s) /\ i < i + j /\ b[j] = s[i + j]
      BY <2>1
    <3>2. z < s[i + j].start /\ z \in Nat /\ s[i + j].start \in Nat /\ s[i + j].start <= EndOf(s[i + j])
      BY <1>1, <3>1
    <3> QED BY <3>1, <3>2
  <2>4. ASSUME NEW j \in 1 .. Len(b), NEW k \in 1 .. Len(b), j < k PROVE EndOf(b[j]) < b[k].start
    BY <1>1, <2>1, <2>2, <2>4
  <2> QED BY <2>3, <2>4 DEF Apart, AllAbove
<1>6. ASSUME NEW x \in Int, NEW ty PROVE Holds(f, x, ty) <=> x < a /\ Holds(s, x, ty)
  <2>1. ASSUME Holds(f, x, ty) PROVE x < a /\ Holds(s, x, ty)
    <3>1. PICK j \in 1 .. Len(f) : InRange(f[j], x) /\ f[j].type = ty
      BY <2>1 DEF Holds
    <3>2. f[j] = s[j] /\ j \in 1 .. Len(s) /\ j < i
      BY <1>2
    <3>3. EndOf(s[j]) < a /\ EndOf(s[j]) \in Nat /\ a \in Nat
      BY <1>1, <3>2
    <3> QED BY <3>1, <3>2, <3>3 DEF Holds, InRange
  <2>2. ASSUME x < a, Holds(s, x, ty) PROVE Holds(f, x, ty)
    <3>1. PICK j \in 1 .. Len(s) : s[j].start <= x /\ x <= EndOf(s[j]) /\ s[j].type = ty
      BY <2>2 DEF Holds, InRange
    <3>2. j < i
      <4>1. CASE i < j
        <5>1. z < s[j].start /\ a <= z /\ a \in Nat /\ z \in Nat /\ s[j].start \in Nat
          BY <1>1, <4>1
        <5> QED BY <2>2, <3>1, <5>1
      <4>2. CASE i = j
        <5>1. a \in Nat /\ a = s[j].start
          BY <1>1, <4>2
        <5> QED BY <2>2, <3>1, <5>1
      <4> QED BY <4>1, <4>2
    <3>3. j \in 1 .. Len(f) /\ f[j] = s[j]
      BY <1>2, <3>2
    <3> QED BY <3>1, <3>3 DEF Holds, InRange
  <2> QED BY <2>1, <2>2
<1>7. ASSUME NEW x \in Int, NEW ty PROVE Holds(b, x, ty) <=> x > z /\ Holds(s, x, ty)
  <2>1. ASSUME Holds(b, x, ty) PROVE x > z /\ Holds(s, x, ty)
    <3>1. PICK j \in 1 .. Len(b) : InRange(b[j], x) /\ b[j].type = ty
      BY <2>1 DEF Holds
    <3>2. b[j] = s[i + j] /\ i + j \in 1 .. Len(s) /\ i < i + j
      BY <1>3
    <3>3. z < s[i + j].start /\ s[i + j].start \in Nat /\ z \in Nat
      BY <1>1, <3>2
    <3>4. s[i + j].start <= x /\ x <= EndOf(s[i + j]) /\ s[i + j].type = ty
      BY <3>1, <3>2 DEF InRange
    <3>5. x > z
      <4> HIDE DEF z
      <4> QED BY <3>3, <3>4
    <3> QED BY <3>2, <3>4, <3>5 DEF Holds, InRange
  <2>2. ASSUME x > z, Holds(s, x, ty) PROVE Holds(b, x, ty)
    <3>1. PICK j \in 1 .. Len(s) : s[j].start <= x /\ x <= EndOf(s[j]) /\ s[j].type = ty
      BY <2>2 DEF Holds, InRange
    <3>2. i < j
      <4>1. CASE j < i
        <5>1. EndOf(s[j]) < a /\ a <= z /\ a \in Nat /\ z \in Nat /\ EndOf(s[j]) \in Nat
          BY <1>1, <4>1
        <5> QED BY <2>2, <3>1, <5>1
      <4>2. CASE i = j
        <5>1. z \in Nat /\ z = EndOf(s[j])
          BY <1>1, <4>2
        <5> QED BY <2>2, <3>1, <5>1
      <4> QED BY <4>1, <4>2
    <3>3. j - i \in 1 .. Len(b) /\ i + (j - i) = j
      BY <1>3, <3>2
    <3>4. b[j - i] = s[j]
      BY <1>3, <3>3
    <3> QED BY <3>1, <3>3, <3>4 DEF Holds, InRange
  <2> QED BY <2>1, <2>2
<1>8. EndsAmong(f, s, {a - 1}) /\ EndsAmong(b, s, {})
  BY <1>2, <1>3 DEF EndsAmong
<1> QED BY <1>2, <1>3, <1>4, <1>5, <1>6, <1>7, <1>8 DEF Parts

LEMMA RetypeFact ==
  ASSUME NEW s \in Seq(MemoryRange), Apart(s), Clean(s), NEW i \in 1 .. Len(s),
         NEW ty \in MemoryTypes, NEW f, f = SubSeq(s, 1, i - 1),
         NEW b, b = SubSeq(s, i + 1, Len(s)),
         NEW r, r = [s[i] EXCEPT !.type = ty], NEW t, t = MergeRanges(f, r, b)
  PROVE  Updated(s, t, s[i].start, EndOf(s[i]), ty) /\ Clean(t)
<1>1. Parts(s, s[i].start, EndOf(s[i]), f, b)
  BY SplitParts
<1>2. s[i] \in MemoryRange /\ s[i].start <= EndOf(s[i]) /\ s[i].start \in Nat /\ EndOf(s[i]) \in Nat
  BY ListFields DEF Apart
<1>3. r \in MemoryRange /\ r.start = s[i].start /\ r.type = ty /\ EndOf(r) = EndOf(s[i])
  BY <1>2 DEF MemoryRange, EndOf
<1>4. Around(f, r, b) /\ \A u : Joins(f, r, b, u) => Updated(s, u, r.start, EndOf(r), r.type)
  <2>1. r.start <= EndOf(r) /\ Parts(s, r.start, EndOf(r), f, b)
    BY <1>1, <1>2, <1>3
  <2> QED BY <1>3, <2>1, JoinsUpdate
<1>5. Joins(f, r, b, t)
  BY <1>4, MergeFact
<1>6. Clean(f) /\ Clean(b)
  <2> DEFINE a == s[i].start
             z == EndOf(s[i])
  <2>1. Parts(s, a, z, f, b) /\ a \in Nat /\ z \in Nat
    BY <1>1, <1>2
  <2> HIDE DEF a, z
  <2> QED BY <2>1, PartsClean
<1>7. Clean(t)
  BY <1>4, <1>6, MergeClean
<1> QED BY <1>3, <1>4, <1>5, <1>7

(* The first and the last address of a range have its type.               *)
LEMMA HoldsEnds ==
  ASSUME NEW s \in Seq(MemoryRange), Apart(s), NEW i \in 1 .. Len(s)
  PROVE  /\ Holds(s, s[i].start, s[i].type) /\ Holds(s, EndOf(s[i]), s[i].type)
         /\ s[i].start \in Nat /\ EndOf(s[i]) \in Nat
<1>1. s[i].start \in Nat /\ EndOf(s[i]) \in Nat /\ s[i].start <= EndOf(s[i])
  BY ListFields DEF Apart
<1>2. InRange(s[i], s[i].start) /\ InRange(s[i], EndOf(s[i]))
  BY <1>1 DEF InRange
<1> QED BY <1>1, <1>2 DEF Holds

-----------------------------------------------------------------------------
(***************************************************************************)
(* Rounding up to an alignment.                                            *)
(***************************************************************************)
LEMMA NextMultiple ==
  ASSUME NEW a \in Nat \ {0}, NEW k \in Nat, NEW q \in Nat, a * k < a * q + a
  PROVE  a * k <= a * q
<1>1. k <= q \/ k >= q + 1
  OBVIOUS
<1>2. CASE k <= q
  BY <1>2
<1>3. CASE k >= q + 1
  <2>1. PICK d \in Nat : k = q + 1 + d
    <3>1. k - (q + 1) \in Nat /\ k = q + 1 + (k - (q + 1))
      BY <1>3
    <3> QED BY <3>1
  <2>2. a * k = a * q + a + a * d
    BY <2>1
  <2>3. a * d >= 0 /\ a * d \in Nat /\ a * q \in Nat
    OBVIOUS
  <2> QED BY <2>2, <2>3
<1> QED BY <1>1, <1>2, <1>3

(* round_up() gives the first multiple that is not below the value.        *)
LEMMA RoundUpFact ==
  ASSUME NEW v \in Nat, NEW a \in Nat \ {0}, v + a <= AddrMod,
         NEW r, r = round_up(v, a)
  PROVE  /\ r \in Nat /\ v <= r /\ r < v + a
         /\ \A m \in Nat : v <= m /\ m % a = 0 => r <= m
<1> DEFINE q == v \div a
           w == v % a
<1>1. q \in Nat /\ w \in Nat /\ w < a /\ v = a * q + w /\ a * q \in Nat
  BY DivMod
<1>2. CASE w = 0
  BY <1>2 DEF round_up
<1>3. CASE w # 0
  <2>1. r = Wrap(v - w + a)
    BY <1>3 DEF round_up, round_down
  <2> HIDE DEF q, w
  <2>2. v - w + a \in Nat /\ v - w + a < AddrMod
    BY <1>1, <1>3, AddrNat
  <2>3. r = v - w + a /\ r = a * q + a
    BY <1>1, <2>1, <2>2, AddrNat, WrapSmall
  <2>4. ASSUME NEW m \in Nat, v <= m, m % a = 0 PROVE r <= m
    <3>1. m \div a \in Nat /\ m = a * (m \div a)
      BY <2>4, DivMod
    <3>2. CASE m < a * q + a
      <4>1. m <= a * q
        BY <1>1, <3>1, <3>2, NextMultiple
      <4> QED BY <1>1, <1>3, <2>4, <4>1
    <3>3. CASE ~(m < a * q + a)
      BY <1>1, <2>3, <3>3
    <3> QED BY <3>2, <3>3
  <2> QED BY <1>1, <1>3, <2>3, <2>4
<1> QED BY <1>2, <1>3
=============================================================================
