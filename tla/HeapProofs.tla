----------------------------- MODULE HeapProofs -----------------------------
(***************************************************************************)
(* Proofs about the heap, for every heap size, header size, alignment and  *)
(* set of requests allowed by the assumptions of module Heap.              *)
(*                                                                         *)
(* The invariant is HeapInv of module Heap: the chunks tile the array, they *)
(* are in address order, no two free ones are neighbours, and the          *)
(* allocated ones are the callers' blocks.  The three list updates the     *)
(* code makes (take a chunk, merge two neighbours, free a chunk) are shown *)
(* to preserve it one by one; the actions then follow.                     *)
(***************************************************************************)
EXTENDS Heap, ListLemmas

(* What malloc() adds to a size is never negative. *)
LEMMA RoundUpFact ==
  ASSUME NEW v \in Nat
  PROVE  RoundUp(v) \in Nat /\ RoundUp(v) >= v
<1>1. v % ALIGN \in 0 .. ALIGN - 1
  BY HeapAssumption
<1>2. ALIGN \in Nat /\ ALIGN > v % ALIGN
  BY <1>1, HeapAssumption
<1>3. v - (v % ALIGN) \in Int /\ (v % ALIGN = 0 => RoundUp(v) = v)
  BY <1>1 DEF RoundUp
<1>4. v % ALIGN # 0 => RoundUp(v) = (v - (v % ALIGN)) + ALIGN
  BY DEF RoundUp
<1> QED BY <1>1, <1>2, <1>3, <1>4

(* Setting a chunk's flag or size changes nothing else of it. *)
LEMMA ChunkFlag ==
  ASSUME NEW c \in Chunk, NEW v \in BOOLEAN
  PROVE  /\ [c EXCEPT !.allocated = v] =
              [addr |-> c.addr, size |-> c.size, allocated |-> v]
         /\ [c EXCEPT !.allocated = v] \in Chunk
BY DEF Chunk

LEMMA ChunkSize ==
  ASSUME NEW c \in Chunk, NEW n \in Nat
  PROVE  /\ [c EXCEPT !.size = @ + n] =
              [addr |-> c.addr, size |-> c.size + n, allocated |-> c.allocated]
         /\ [c EXCEPT !.size = @ + n] \in Chunk
BY DEF Chunk

(* In a well-formed list every chunk lies inside the heap array, and no two *)
(* chunks start at the same address.                                       *)
LEMMA ChunkBounds ==
  ASSUME NEW s \in Seq(Chunk), Tiled(s), Ordered(s)
  PROVE  /\ \A i \in 1 .. Len(s) :
              /\ s[i].addr \in Nat /\ s[i].size \in Nat
              /\ s[i].size >= HEADER
              /\ s[i].addr + s[i].size <= HEAP_SIZE
         /\ \A i, j \in 1 .. Len(s) : s[i].addr = s[j].addr => i = j
<1>1. HEADER \in Nat /\ HEADER > 0 /\ HEAP_SIZE \in Nat
  BY HeapAssumption
<1>2. \A i \in 1 .. Len(s) : s[i].addr \in Nat /\ s[i].size \in Nat /\ s[i].size >= HEADER
  <2> TAKE i \in 1 .. Len(s)
  <2>1. s[i] \in Chunk /\ s # <<>>
    OBVIOUS
  <2>2. s[i].addr \in Nat /\ s[i].size \in Nat
    BY <2>1 DEF Chunk
  <2>3. s[i].size >= HEADER
    BY <2>1 DEF Tiled
  <2> QED BY <2>2, <2>3
<1>3. ASSUME NEW i \in 1 .. Len(s)
      PROVE  s[i].addr + s[i].size <= HEAP_SIZE
  <2>1. CASE i = Len(s)
    BY <2>1, <1>1, <1>2 DEF Tiled
  <2>2. CASE i < Len(s)
    <3>1. Len(s) \in 1 .. Len(s) /\ s # <<>>
      OBVIOUS
    <3>2. s[Len(s)].addr + s[Len(s)].size = HEAP_SIZE
      BY <3>1 DEF Tiled
    <3>3. s[i].addr + s[i].size <= s[Len(s)].addr
      BY <2>2, <3>1 DEF Ordered
    <3> QED BY <3>1, <3>2, <3>3, <1>1, <1>2, SMTT(30)
  <2> QED BY <2>1, <2>2
<1>4. ASSUME NEW i \in 1 .. Len(s), NEW j \in 1 .. Len(s), s[i].addr = s[j].addr
      PROVE  i = j
  <2>1. i < j => s[i].addr + s[i].size <= s[j].addr
    BY DEF Ordered
  <2>2. j < i => s[j].addr + s[j].size <= s[i].addr
    BY DEF Ordered
  <2> QED BY <2>1, <2>2, <1>1, <1>2, <1>4
<1> QED BY <1>2, <1>3, <1>4

(* The chunk malloc() finds is free and large enough. *)
LEMMA FindChunkFact ==
  ASSUME NEW s \in Seq(Chunk), NEW total \in Nat,
         FindChunk(s, total) # 0, s = <<>> => total <= HEAP_SIZE
  PROVE  /\ FindChunk(s, total) \in 1 .. Len(Segments(s))
         /\ ~Segments(s)[FindChunk(s, total)].allocated
         /\ Segments(s)[FindChunk(s, total)].size >= total
<1>1. CASE s = <<>>
  BY <1>1, HeapAssumption DEF FindChunk, Segments, InitialChunk
<1>2. CASE s # <<>>
  <2> DEFINE I == {i \in 1 .. Len(s) : ~s[i].allocated /\ s[i].size >= total}
  <2>1. FindChunk(s, total) = IF I # {} THEN Min(I) ELSE 0
    BY <1>2 DEF FindChunk, SelectInSeq
  <2>2. I \subseteq Nat /\ I # {}
    BY <2>1
  <2>3. Min(I) \in I
    <3> HIDE DEF I
    <3> QED BY <2>2, MinElement
  <2> QED BY <1>2, <2>1, <2>2, <2>3 DEF Segments
<1> QED BY <1>1, <1>2

(* The chunk list malloc() starts from is well formed. *)
LEMMA SegmentsFact ==
  ASSUME NEW s \in Seq(Chunk), Tiled(s), Ordered(s), Coalesced(s)
  PROVE  /\ Segments(s) \in Seq(Chunk) /\ Segments(s) # <<>>
         /\ Tiled(Segments(s)) /\ Ordered(Segments(s)) /\ Coalesced(Segments(s))
<1>1. CASE s # <<>>
  BY <1>1 DEF Segments
<1>2. CASE s = <<>>
  <2>1. Segments(s) = <<InitialChunk>> /\ InitialChunk \in Chunk
    BY <1>2, HeapAssumption DEF Segments, InitialChunk, Chunk
  <2>2. /\ <<InitialChunk>> \in Seq(Chunk) /\ Len(<<InitialChunk>>) = 1
        /\ <<InitialChunk>>[1] = InitialChunk
    BY <2>1
  <2> QED BY <2>1, <2>2, HeapAssumption DEF Tiled, Ordered, Coalesced, InitialChunk
<1> QED BY <1>1, <1>2

-----------------------------------------------------------------------------
(***************************************************************************)
(* malloc() takes a chunk.                                                 *)
(***************************************************************************)

(* The chunk e is s[i] with its flag set to v, and takes its place in t. *)
FlagShape(s, i, v, e, t) ==
  /\ e \in Chunk /\ e.addr = s[i].addr /\ e.size = s[i].size /\ e.allocated = v
  /\ t \in Seq(Chunk) /\ Replaced(t, s, i, e)

(* Changing a chunk's flag has that shape. *)
LEMMA FlagIsShape ==
  ASSUME NEW s \in Seq(Chunk), NEW i \in 1 .. Len(s), NEW v \in BOOLEAN
  PROVE  FlagShape(s, i, v, [s[i] EXCEPT !.allocated = v],
                   ReplaceAt(s, i, [s[i] EXCEPT !.allocated = v]))
<1> DEFINE e == [s[i] EXCEPT !.allocated = v]
<1>1. s[i] \in Chunk
  OBVIOUS
<1>2. e = [addr |-> s[i].addr, size |-> s[i].size, allocated |-> v] /\ e \in Chunk
  BY <1>1, ChunkFlag
<1> HIDE DEF e
<1>3. e.addr = s[i].addr /\ e.size = s[i].size /\ e.allocated = v
  BY <1>2
<1>4. ReplaceAt(s, i, e) \in Seq(Chunk) /\ Replaced(ReplaceAt(s, i, e), s, i, e)
  BY <1>2, ReplaceAtElements
<1>5. FlagShape(s, i, v, e, ReplaceAt(s, i, e))
  BY <1>2, <1>3, <1>4 DEF FlagShape
<1> QED BY <1>5 DEF e

(* It leaves the list tiled and ordered. *)
LEMMA SetFlag ==
  ASSUME NEW s \in Seq(Chunk), Tiled(s), Ordered(s),
         NEW i \in 1 .. Len(s), NEW v, NEW e, NEW t, FlagShape(s, i, v, e, t)
  PROVE  Tiled(t) /\ Ordered(t)
<1>2. e \in Chunk /\ e.addr = s[i].addr /\ e.size = s[i].size
  BY DEF FlagShape
<1>3. /\ t \in Seq(Chunk) /\ Len(t) = Len(s)
      /\ \A j \in 1 .. Len(s) : t[j] = IF j = i THEN e ELSE s[j]
  BY DEF FlagShape, Replaced
<1>4. \A j \in 1 .. Len(s) : t[j].addr = s[j].addr /\ t[j].size = s[j].size
  BY <1>2, <1>3
<1>5. s # <<>> /\ t # <<>> /\ 1 \in 1 .. Len(s)
  BY <1>3
<1>6. Tiled(t)
  <2>1. t[1].addr = 0
    BY <1>4, <1>5 DEF Tiled
  <2>2. ASSUME NEW j \in 1 .. Len(t)
        PROVE  /\ t[j].size >= HEADER
               /\ t[j].addr + t[j].size =
                    IF j = Len(t) THEN HEAP_SIZE ELSE t[j + 1].addr
    <3>1. j # Len(t) => j + 1 \in 1 .. Len(s)
      BY <1>3
    <3>2. j \in 1 .. Len(s)
      BY <1>3
    <3> QED BY <1>3, <1>4, <1>5, <3>1, <3>2 DEF Tiled
  <2> QED BY <2>1, <2>2 DEF Tiled
<1>7. Ordered(t)
  BY <1>3, <1>4 DEF Ordered
<1> QED BY <1>6, <1>7

(* The shape of a list after a split: t has one element more than s, the   *)
(* elements a and f in the place of s[i].                                  *)
SplitShape(s, i, a, f, t) ==
  /\ t \in Seq(Chunk) /\ Len(t) = Len(s) + 1
  /\ \A j \in 1 .. Len(s) + 1 :
       t[j] = IF j < i THEN s[j] ELSE IF j = i THEN a
              ELSE IF j = i + 1 THEN f ELSE s[j - 1]

(* Cutting a chunk in two keeps the list tiled and ordered. *)
LEMMA SplitTiles ==
  ASSUME NEW s \in Seq(Chunk), Tiled(s), Ordered(s), NEW i \in 1 .. Len(s),
         NEW a \in Chunk, NEW f \in Chunk, NEW t, SplitShape(s, i, a, f, t),
         a.addr = s[i].addr, f.addr = a.addr + a.size,
         f.size = s[i].size - a.size, a.size >= HEADER, f.size >= HEADER
  PROVE  Tiled(t) /\ Ordered(t)
<1>1. /\ HEADER \in Nat /\ HEADER > 0 /\ HEAP_SIZE \in Nat
      /\ Len(s) \in Nat /\ i \in Int /\ s # <<>>
      /\ a.addr \in Nat /\ a.size \in Nat /\ f.addr \in Nat /\ f.size \in Nat
  BY HeapAssumption, SMTT(30) DEF Chunk
<1>2. \A j \in 1 .. Len(s) :
        /\ s[j].addr \in Nat /\ s[j].size \in Nat
        /\ s[j].size >= HEADER
  BY ChunkBounds
<1>8. s[i].addr \in Nat /\ s[i].size \in Nat /\ f.addr + f.size = s[i].addr + s[i].size
  BY <1>1, <1>2
<1>3. /\ t \in Seq(Chunk) /\ Len(t) = Len(s) + 1 /\ t # <<>>
      /\ \A j \in 1 .. Len(s) + 1 :
           /\ j < i => t[j] = s[j]
           /\ j = i => t[j] = a
           /\ j = i + 1 => t[j] = f
           /\ j > i + 1 => t[j] = s[j - 1]
  BY <1>1 DEF SplitShape
<1>4. /\ s[1].addr = 0 /\ s[Len(s)].addr + s[Len(s)].size = HEAP_SIZE
      /\ \A j \in 1 .. Len(s) : j # Len(s) => s[j].addr + s[j].size = s[j + 1].addr
  BY <1>1, SMTT(30) DEF Tiled
<1>5. \A x, y \in 1 .. Len(s) : x < y => s[x].addr + s[x].size <= s[y].addr
  BY DEF Ordered
<1>6. Tiled(t)
  <2>1. t[1].addr = 0
    BY <1>1, <1>3, <1>4
  <2>2. ASSUME NEW j \in 1 .. Len(t)
        PROVE  /\ t[j].size >= HEADER
               /\ j = Len(t) => t[j].addr + t[j].size = HEAP_SIZE
               /\ j # Len(t) => t[j].addr + t[j].size = t[j + 1].addr
    <3>0. j \in Int /\ (j < i - 1 \/ j = i - 1 \/ j = i \/ j = i + 1 \/ j > i + 1)
      BY <1>1
    <3>1. CASE j < i - 1
      <4>1. j \in 1 .. Len(s) /\ j # Len(s) /\ j # Len(t) /\ j + 1 \in 1 .. Len(s) + 1
        BY <3>0, <3>1, <1>1, <1>3
      <4>2. t[j] = s[j] /\ t[j + 1] = s[j + 1]
        BY <4>1, <3>0, <3>1, <1>1, <1>3
      <4> QED BY <4>1, <4>2, <1>2, <1>4
    <3>2. CASE j = i - 1
      <4>1. j \in 1 .. Len(s) /\ j # Len(s) /\ j # Len(t) /\ j + 1 = i
        BY <3>0, <3>2, <1>1, <1>3
      <4>2. t[j] = s[j] /\ t[j + 1] = a
        BY <4>1, <3>0, <3>2, <1>1, <1>3
      <4> QED BY <4>1, <4>2, <1>2, <1>4
    <3>3. CASE j = i
      <4>1. j # Len(t) /\ j + 1 \in 1 .. Len(s) + 1 /\ j + 1 = i + 1
        BY <3>3, <1>1, <1>3
      <4>2. t[j] = a /\ t[j + 1] = f
        BY <4>1, <3>3, <1>1, <1>3
      <4> QED BY <4>1, <4>2
    <3>4. CASE j = i + 1
      <4>1. t[j] = f /\ (j # Len(t) => t[j + 1] = s[i + 1])
        BY <3>4, <1>1, <1>3
      <4>2. f.addr + f.size = s[i].addr + s[i].size
        BY <1>1, <1>2, SMTT(30)
      <4>3. j = Len(t) <=> i = Len(s)
        BY <3>4, <1>1, <1>3
      <4> QED BY <4>1, <4>2, <4>3, <1>4
    <3>5. CASE j > i + 1
      <4>1. j - 1 \in 1 .. Len(s) /\ t[j] = s[j - 1]
        BY <3>5, <1>1, <1>3
      <4>2. j # Len(t) => t[j + 1] = s[(j - 1) + 1]
        <5> HAVE j # Len(t)
        <5>0. Len(t) = Len(s) + 1 /\ j \in 1 .. Len(s) + 1 /\ j # Len(s) + 1
          BY <1>3
        <5>1. j + 1 \in 1 .. Len(s) + 1 /\ j + 1 > i + 1 /\ (j + 1) - 1 = (j - 1) + 1
          BY <5>0, <3>0, <3>5, <1>1, SMTT(30)
        <5> QED BY <5>1, <1>3
      <4>3. j = Len(t) <=> j - 1 = Len(s)
        BY <1>1, <1>3
      <4> QED BY <4>1, <4>2, <4>3, <1>2, <1>4
    <3> QED BY <3>0, <3>1, <3>2, <3>3, <3>4, <3>5
  <2> QED BY <2>1, <2>2 DEF Tiled
<1>7. Ordered(t)
  <2> SUFFICES ASSUME NEW j \in 1 .. Len(t), NEW k \in 1 .. Len(t), j < k
               PROVE  t[j].addr + t[j].size <= t[k].addr
    BY DEF Ordered
  <2>1. j \in Int /\ k \in Int
    OBVIOUS
  <2>2. CASE k <= i
    <3>1. t[j] = s[j] /\ j \in 1 .. Len(s) /\ s[j].addr + s[j].size <= s[k].addr
      BY <2>1, <2>2, <1>1, <1>3, <1>5
    <3>2. t[k].addr = s[k].addr
      BY <2>1, <2>2, <1>1, <1>3
    <3> QED BY <3>1, <3>2
  <2>3. CASE k > i /\ j < i
    <3>0. j \in 1 .. Len(s) /\ s[j].addr + s[j].size <= s[i].addr
      BY <2>1, <2>3, <1>1, <1>3, <1>5
    <3>1. t[j] = s[j] /\ s[j].addr + s[j].size <= s[i].addr /\ j \in 1 .. Len(s)
      BY <3>0, <2>1, <2>3, <1>1, <1>3
    <3>2. t[k] = f \/ (t[k] = s[k - 1] /\ k - 1 \in 1 .. Len(s) /\ j < k - 1)
      <4>1. k = i + 1 \/ (k > i + 1 /\ k - 1 \in 1 .. Len(s) /\ j < k - 1)
        BY <2>1, <2>3, <1>1, <1>3
      <4> QED BY <4>1, <1>3
    <3>3. f.addr >= s[i].addr
      BY <1>1
    <3>4. CASE t[k] = f
      <4>1. s[j].addr \in Nat /\ s[j].size \in Nat
        BY <3>1, <1>2
      <4>2. s[j].addr + s[j].size <= f.addr
        <5>1. s[j].addr + s[j].size \in Int
          BY <3>0, <4>1
        <5>2. s[i].addr \in Int /\ f.addr \in Int /\ s[i].addr <= f.addr
          BY <3>3, <1>8, <1>1
        <5> QED BY <3>0, <5>1, <5>2, LeqTransitive, Zenon
      <4> QED BY <4>2, <3>1, <3>4
    <3>5. CASE t[k] = s[k - 1] /\ k - 1 \in 1 .. Len(s) /\ j < k - 1
      BY <3>1, <3>5, <1>5
    <3> QED BY <3>2, <3>4, <3>5
  <2>4. CASE j = i
    <3>1. t[j] = a /\ a.addr + a.size <= s[i].addr + s[i].size
      BY <2>4, <1>1, <1>2, <1>3
    <3>2. t[k] = f \/ (t[k] = s[k - 1] /\ k - 1 \in 1 .. Len(s) /\ i < k - 1)
      <4>1. k = i + 1 \/ (k > i + 1 /\ k - 1 \in 1 .. Len(s) /\ i < k - 1)
        BY <2>1, <2>4, <1>1, <1>3
      <4> QED BY <4>1, <1>3
    <3>3. CASE t[k] = f
      BY <3>1, <3>3, <1>1
    <3>4. CASE t[k] = s[k - 1] /\ k - 1 \in 1 .. Len(s) /\ i < k - 1
      <4>1. s[i].addr + s[i].size <= s[k - 1].addr
        BY <3>4, <1>5
      <4>2. s[k - 1].addr \in Nat
        BY <3>4, <1>2
      <4>3. a.addr + a.size <= s[k - 1].addr
        <5>1. a.addr + a.size \in Int
          BY <1>1, SMTT(30)
        <5>2. s[i].addr + s[i].size \in Int
          BY <1>8, SMTT(30)
        <5>3. s[k - 1].addr \in Int
          BY <4>2
        <5> QED BY <5>1, <5>2, <5>3, <4>1, <3>1, LeqTransitive, Zenon
      <4> QED BY <4>3, <3>1, <3>4
    <3> QED BY <3>2, <3>3, <3>4
  <2>5. CASE j = i + 1
    <3>1. t[j] = f /\ f.addr + f.size = s[i].addr + s[i].size
      BY <2>5, <1>1, <1>8, <1>3
    <3>2. t[k] = s[k - 1] /\ k - 1 \in 1 .. Len(s) /\ i < k - 1
      <4>1. k > i + 1 /\ k - 1 \in 1 .. Len(s) /\ i < k - 1
        BY <2>1, <2>5, <1>1, <1>3
      <4> QED BY <4>1, <1>3
    <3>3. s[i].addr + s[i].size <= s[k - 1].addr
      BY <3>2, <1>5
    <3> QED BY <3>1, <3>2, <3>3
  <2>6. CASE j > i + 1
    <3>1. /\ t[j] = s[j - 1] /\ t[k] = s[k - 1] /\ j - 1 < k - 1
          /\ j - 1 \in 1 .. Len(s) /\ k - 1 \in 1 .. Len(s)
      <4>1. /\ j - 1 < k - 1 /\ k > i + 1
            /\ j - 1 \in 1 .. Len(s) /\ k - 1 \in 1 .. Len(s)
        BY <2>1, <2>6, <1>1, <1>3
      <4> QED BY <4>1, <2>6, <1>3
    <3> QED BY <3>1, <1>5
  <2>7. k <= i \/ (k > i /\ j < i) \/ j = i \/ j = i + 1 \/ j > i + 1
    BY <2>1, <1>1
  <2> QED BY <2>2, <2>3, <2>4, <2>5, <2>6, <2>7
<1> QED BY <1>6, <1>7

(* Splitting a free chunk keeps the list coalesced when the first part is  *)
(* taken: the chunk behind it was in use.                                  *)
LEMMA SplitCoalesces ==
  ASSUME NEW s \in Seq(Chunk), Coalesced(s), NEW i \in 1 .. Len(s),
         ~s[i].allocated, NEW a, NEW f, NEW t, SplitShape(s, i, a, f, t),
         a.allocated
  PROVE  Coalesced(t)
<1> SUFFICES ASSUME NEW j \in 1 .. Len(t) - 1
             PROVE  t[j].allocated \/ t[j + 1].allocated
  BY DEF Coalesced
<1>1. /\ Len(s) \in Nat /\ i \in Int /\ j \in Int /\ Len(t) = Len(s) + 1
      /\ \A k \in 1 .. Len(s) + 1 :
           /\ k < i => t[k] = s[k]
           /\ k = i => t[k] = a
           /\ k > i + 1 => t[k] = s[k - 1]
  BY DEF SplitShape
<1>2. \A x \in 1 .. Len(s) - 1 : s[x].allocated \/ s[x + 1].allocated
  BY DEF Coalesced
<1>3. CASE j < i - 1
  BY <1>1, <1>2, <1>3
<1>4. CASE j = i - 1 \/ j = i
  BY <1>1, <1>4
<1>5. CASE j > i
  <2>1. t[j + 1] = s[j] /\ j \in 1 .. Len(s)
    BY <1>1, <1>5
  <2>2. CASE j = i + 1
    <3>1. i \in 1 .. Len(s) - 1 /\ s[i + 1].allocated
      BY <1>1, <1>2, <2>2
    <3> QED BY <2>1, <2>2, <3>1
  <2>3. CASE j > i + 1
    <3>1. t[j] = s[j - 1] /\ j - 1 \in 1 .. Len(s) - 1 /\ (j - 1) + 1 = j
      BY <1>1, <2>3
    <3> QED BY <2>1, <3>1, <1>2
  <2> QED BY <1>1, <1>5, <2>2, <2>3
<1> QED BY <1>1, <1>3, <1>4, <1>5

(* The list malloc() splits has that shape. *)
LEMMA SplitIsShape ==
  ASSUME NEW s \in Seq(Chunk), NEW i \in 1 .. Len(s),
         NEW a \in Chunk, NEW f \in Chunk
  PROVE  SplitShape(s, i, a, f, InsertAt(ReplaceAt(s, i, a), i + 1, f))
<1> DEFINE r == ReplaceAt(s, i, a)
           p == i + 1
           t == InsertAt(r, p, f)
<1>1. r \in Seq(Chunk) /\ Replaced(r, s, i, a)
  BY ReplaceAtElements
<1> HIDE DEF r
<1>2. p \in 1 .. Len(r) + 1
  BY <1>1 DEF Replaced
<1> HIDE DEF p
<1>3. t \in Seq(Chunk) /\ Inserted(t, r, p, f)
  BY <1>1, <1>2, InsertAtElements
<1> HIDE DEF t
<1>4. ASSUME NEW j \in 1 .. Len(s) + 1
      PROVE  t[j] = IF j < i THEN s[j] ELSE IF j = i THEN a
                    ELSE IF j = i + 1 THEN f ELSE s[j - 1]
  <2>1. /\ j \in Int /\ i \in Int /\ Len(s) \in Nat /\ j \in 1 .. Len(r) + 1
        /\ Len(r) = Len(s)
        /\ \A k \in 1 .. Len(s) : r[k] = IF k = i THEN a ELSE s[k]
    BY <1>1 DEF Replaced
  <2>0. t[j] = IF j < i + 1 THEN r[j] ELSE IF j = i + 1 THEN f ELSE r[j - 1]
    BY <2>1, <1>3 DEF Inserted, p
  <2>2. CASE j < i + 1
    BY <2>0, <2>1, <2>2
  <2>3. CASE j = i + 1
    BY <2>0, <2>1, <2>3
  <2>4. CASE j > i + 1
    <3>1. j - 1 \in 1 .. Len(s) /\ j - 1 # i
      BY <2>1, <2>4
    <3>2. t[j] = r[j - 1]
      BY <2>0, <2>1, <2>4
    <3> QED BY <2>1, <2>4, <3>1, <3>2
  <2> QED BY <2>1, <2>2, <2>3, <2>4
<1>5. Len(t) = Len(s) + 1
  BY <1>1, <1>3 DEF Replaced, Inserted
<1>6. SplitShape(s, i, a, f, t)
  BY <1>3, <1>4, <1>5 DEF SplitShape
<1> QED BY <1>6 DEF t, r, p

(* The chunk malloc() hands out. *)
Taken(chunk, total) ==
  [addr |-> chunk.addr,
   size |-> IF Splits(chunk, total) THEN total ELSE chunk.size,
   allocated |-> TRUE]

(* TakeChunk keeps the list well formed; its allocated chunks are those of *)
(* before and the one handed out.                                          *)
LEMMA TakeFact ==
  ASSUME NEW s \in Seq(Chunk), Tiled(s), Ordered(s), Coalesced(s),
         NEW i \in 1 .. Len(s), ~s[i].allocated,
         NEW total \in Nat, total >= HEADER, s[i].size >= total,
         NEW t, t = TakeChunk(s, i, total)
  PROVE  /\ t \in Seq(Chunk)
         /\ Tiled(t) /\ Ordered(t) /\ Coalesced(t)
         /\ \A j \in 1 .. Len(t) : t[j].allocated =>
              t[j] = Taken(s[i], total) \/ \E k \in 1 .. Len(s) : s[k] = t[j]
         /\ \A k \in 1 .. Len(s) : s[k].allocated => \E j \in 1 .. Len(t) : t[j] = s[k]
         /\ \E j \in 1 .. Len(t) : t[j] = Taken(s[i], total)
<1>0. s[i] \in Chunk
  OBVIOUS
<1>1. s[i] \in Chunk /\ s[i].addr \in Nat /\ s[i].size \in Nat /\ HEADER \in Nat
  BY <1>0, HeapAssumption DEF Chunk
<1>2. CASE ~Splits(s[i], total)
  <2> DEFINE e == [s[i] EXCEPT !.allocated = TRUE]
  <2>1. t = ReplaceAt(s, i, e)
    BY <1>2 DEF TakeChunk
  <2>2. e = Taken(s[i], total)
    <3>1. Taken(s[i], total) = [addr |-> s[i].addr, size |-> s[i].size, allocated |-> TRUE]
      BY <1>2 DEF Taken
    <3> QED BY <3>1, <1>0, ChunkFlag
  <2> HIDE DEF e
  <2>3. /\ t \in Seq(Chunk) /\ Len(t) = Len(s) /\ e.allocated
        /\ \A j \in 1 .. Len(s) : t[j] = IF j = i THEN e ELSE s[j]
        /\ Tiled(t) /\ Ordered(t)
    <3>1. FlagShape(s, i, TRUE, e, t)
      BY <2>1, FlagIsShape DEF e
    <3>2. Tiled(t) /\ Ordered(t)
      BY <3>1, SetFlag
    <3> QED BY <3>1, <3>2 DEF FlagShape, Replaced
  <2>7. Coalesced(t)
    <3> SUFFICES ASSUME NEW j \in 1 .. Len(t) - 1
                 PROVE  t[j].allocated \/ t[j + 1].allocated
      BY DEF Coalesced
    <3>1. j \in 1 .. Len(s) /\ j + 1 \in 1 .. Len(s) /\ j \in 1 .. Len(s) - 1
      BY <2>3
    <3>2. s[j].allocated \/ s[j + 1].allocated
      BY <3>1 DEF Coalesced
    <3> QED BY <2>3, <3>1, <3>2
  <2>4. \A j \in 1 .. Len(t) : t[j] = e \/ \E k \in 1 .. Len(s) : s[k] = t[j]
    BY <2>3
  <2>5. ASSUME NEW k \in 1 .. Len(s), s[k].allocated
        PROVE  \E j \in 1 .. Len(t) : t[j] = s[k]
    BY <2>3, <2>5
  <2>6. \E j \in 1 .. Len(t) : t[j] = e
    BY <2>3
  <2> QED BY <2>2, <2>3, <2>4, <2>5, <2>6, <2>7
<1>3. CASE Splits(s[i], total)
  <2> DEFINE a == [addr |-> s[i].addr, size |-> total, allocated |-> TRUE]
             f == [addr |-> s[i].addr + total, size |-> s[i].size - total,
                   allocated |-> FALSE]
  <2>1. t = InsertAt(ReplaceAt(s, i, a), i + 1, f)
    BY <1>3 DEF TakeChunk
  <2>2. a = Taken(s[i], total) /\ s[i].size >= total + HEADER
    BY <1>3 DEF Taken, Splits
  <2>3. /\ a \in Chunk /\ f \in Chunk
        /\ a.addr = s[i].addr /\ a.size = total /\ a.allocated
        /\ f.addr = a.addr + a.size /\ f.size = s[i].size - a.size
        /\ f.size >= HEADER /\ ~f.allocated
    BY <1>1, <2>2, SMTT(30) DEF Chunk
  <2> HIDE DEF a, f
  <2>4. SplitShape(s, i, a, f, t)
    BY <2>1, <2>3, SplitIsShape
  <2>5. Tiled(t) /\ Ordered(t)
    BY <2>3, <2>4, SplitTiles
  <2>6. Coalesced(t)
    BY <2>3, <2>4, SplitCoalesces
  <2>7. /\ t \in Seq(Chunk) /\ Len(t) = Len(s) + 1
        /\ Len(s) \in Nat /\ i \in Int
        /\ \A j \in 1 .. Len(s) + 1 :
             t[j] = IF j < i THEN s[j] ELSE IF j = i THEN a
                    ELSE IF j = i + 1 THEN f ELSE s[j - 1]
    BY <2>4 DEF SplitShape
  <2>8. ASSUME NEW j \in 1 .. Len(t), t[j].allocated
        PROVE  t[j] = a \/ \E k \in 1 .. Len(s) : s[k] = t[j]
    <3>1. CASE j < i
      BY <3>1, <2>7
    <3>2. CASE j = i \/ j = i + 1
      BY <3>2, <2>3, <2>7, <2>8
    <3>3. CASE j > i + 1
      <4>1. j - 1 \in 1 .. Len(s) /\ t[j] = s[j - 1]
        BY <3>3, <2>7
      <4> QED BY <4>1
    <3>4. j < i \/ (j = i \/ j = i + 1) \/ j > i + 1
      BY <2>7
    <3> QED BY <3>1, <3>2, <3>3, <3>4
  <2>9. ASSUME NEW k \in 1 .. Len(s), s[k].allocated
        PROVE  \E j \in 1 .. Len(t) : t[j] = s[k]
    <3>1. CASE k < i
      BY <3>1, <2>7
    <3>2. CASE k > i
      <4>1. k + 1 \in 1 .. Len(s) + 1 /\ k + 1 > i + 1 /\ (k + 1) - 1 = k
        BY <3>2, <2>7
      <4>2. t[k + 1] = s[k]
        BY <4>1, <2>7
      <4> QED BY <4>1, <4>2, <2>7
    <3>3. k < i \/ k > i
      BY <2>7, <2>9
    <3> QED BY <3>1, <3>2, <3>3
  <2>10. \E j \in 1 .. Len(t) : t[j] = a
    BY <2>7
  <2> QED BY <2>2, <2>5, <2>6, <2>7, <2>8, <2>9, <2>10
<1> QED BY <1>2, <1>3

-----------------------------------------------------------------------------
(***************************************************************************)
(* free() merges neighbours.                                               *)
(***************************************************************************)

(* The shape of a list after s[k] swallowed s[k + 1] and became m. *)
MergeShape(s, k, m, t) ==
  /\ t \in Seq(Chunk) /\ Len(t) = Len(s) - 1
  /\ \A j \in 1 .. Len(s) - 1 :
       /\ j < k => t[j] = s[j]
       /\ j = k => t[j] = m
       /\ j > k => t[j] = s[j + 1]

(* The list free() produces has that shape. *)
LEMMA MergeIsShape ==
  ASSUME NEW s \in Seq(Chunk), NEW k \in 1 .. Len(s) - 1, NEW m \in Chunk
  PROVE  MergeShape(s, k, m, RemoveAt(ReplaceAt(s, k, m), k + 1))
<1> DEFINE r == ReplaceAt(s, k, m)
           p == k + 1
           t == RemoveAt(r, p)
<1>0. k \in 1 .. Len(s) /\ Len(s) \in Nat /\ k \in Int
  OBVIOUS
<1>1. r \in Seq(Chunk) /\ Replaced(r, s, k, m)
  BY <1>0, ReplaceAtElements
<1> HIDE DEF r
<1>2. p \in 1 .. Len(r)
  BY <1>1 DEF Replaced
<1> HIDE DEF p
<1>3. t \in Seq(Chunk) /\ Removed(t, r, p)
  BY <1>1, <1>2, RemoveAtElements
<1> HIDE DEF t
<1>4. ASSUME NEW j \in 1 .. Len(s) - 1
      PROVE  /\ j < k => t[j] = s[j]
             /\ j = k => t[j] = m
             /\ j > k => t[j] = s[j + 1]
  <2>1. /\ j \in Int /\ j \in 1 .. Len(r) - 1 /\ Len(r) = Len(s)
        /\ \A x \in 1 .. Len(s) : r[x] = IF x = k THEN m ELSE s[x]
    BY <1>0, <1>1 DEF Replaced
  <2>2. t[j] = IF j < k + 1 THEN r[j] ELSE r[j + 1]
    BY <2>1, <1>3 DEF Removed, p
  <2>3. CASE j <= k
    BY <1>0, <2>1, <2>2, <2>3
  <2>4. CASE j > k
    <3>1. j + 1 \in 1 .. Len(s) /\ j + 1 # k /\ t[j] = r[j + 1]
      BY <1>0, <2>1, <2>2, <2>4
    <3> QED BY <1>0, <2>1, <2>4, <3>1
  <2> QED BY <1>0, <2>1, <2>3, <2>4
<1>5. Len(t) = Len(s) - 1
  BY <1>1, <1>3 DEF Replaced, Removed
<1>6. MergeShape(s, k, m, t)
  BY <1>3, <1>4, <1>5 DEF MergeShape
<1> QED BY <1>6 DEF t, r, p

(* Merging neighbours keeps the list tiled and ordered. *)
LEMMA MergeTiles ==
  ASSUME NEW s \in Seq(Chunk), Tiled(s), Ordered(s), NEW k \in 1 .. Len(s) - 1,
         NEW m \in Chunk, NEW t, MergeShape(s, k, m, t),
         m.addr = s[k].addr, m.size = s[k].size + s[k + 1].size
  PROVE  Tiled(t) /\ Ordered(t)
<1>1. /\ HEADER \in Nat /\ HEADER > 0 /\ HEAP_SIZE \in Nat
      /\ Len(s) \in Nat /\ k \in Int /\ s # <<>> /\ Len(s) >= 2
      /\ k \in 1 .. Len(s) /\ k + 1 \in 1 .. Len(s)
  BY HeapAssumption
<1>2. \A j \in 1 .. Len(s) :
        /\ s[j].addr \in Nat /\ s[j].size \in Nat
        /\ s[j].size >= HEADER
  BY ChunkBounds
<1>3. /\ t \in Seq(Chunk) /\ Len(t) = Len(s) - 1 /\ t # <<>>
      /\ \A j \in 1 .. Len(s) - 1 :
           /\ j < k => t[j] = s[j]
           /\ j = k => t[j] = m
           /\ j > k => t[j] = s[j + 1]
  BY <1>1 DEF MergeShape
<1>4. /\ s[1].addr = 0 /\ s[Len(s)].addr + s[Len(s)].size = HEAP_SIZE
      /\ \A j \in 1 .. Len(s) : j # Len(s) => s[j].addr + s[j].size = s[j + 1].addr
  BY <1>1 DEF Tiled
<1>5. \A x, y \in 1 .. Len(s) : x < y => s[x].addr + s[x].size <= s[y].addr
  BY DEF Ordered
<1>6. /\ s[k].addr \in Nat /\ s[k].size \in Nat /\ s[k].size >= HEADER
      /\ s[k + 1].addr \in Nat /\ s[k + 1].size \in Nat
      /\ s[k].addr + s[k].size = s[k + 1].addr
  BY <1>1, <1>2, <1>4
<1>7. /\ m.addr \in Nat /\ m.size \in Nat /\ m.size >= HEADER
      /\ m.addr + m.size = s[k + 1].addr + s[k + 1].size
  BY <1>1, <1>6
<1>8. Tiled(t)
  <2>1. t[1].addr = 0
    BY <1>1, <1>3, <1>4
  <2>2. ASSUME NEW j \in 1 .. Len(t)
        PROVE  /\ t[j].size >= HEADER
               /\ j = Len(t) => t[j].addr + t[j].size = HEAP_SIZE
               /\ j # Len(t) => t[j].addr + t[j].size = t[j + 1].addr
    <3>0. j \in Int /\ j \in 1 .. Len(s) - 1 /\ j \in 1 .. Len(s) /\ j # Len(s)
      BY <1>1, <1>3
    <3>1. CASE j < k
      <4>1. j # Len(t) /\ j + 1 \in 1 .. Len(s) - 1 /\ j + 1 <= k
        BY <3>0, <3>1, <1>1, <1>3
      <4>2. t[j] = s[j] /\ t[j + 1].addr = s[j + 1].addr
        BY <4>1, <3>0, <3>1, <1>1, <1>3
      <4> QED BY <4>1, <4>2, <3>0, <1>2, <1>4
    <3>2. CASE j = k
      <4>1. t[j] = m /\ (j = Len(t) <=> k + 1 = Len(s))
        BY <3>0, <3>2, <1>1, <1>3
      <4>2. j # Len(t) => t[j + 1] = s[(k + 1) + 1]
        <5> HAVE j # Len(t)
        <5>1. j + 1 \in 1 .. Len(s) - 1 /\ j + 1 > k /\ (j + 1) + 1 = (k + 1) + 1
          BY <3>0, <3>2, <1>1, <1>3
        <5> QED BY <5>1, <1>3
      <4> QED BY <4>1, <4>2, <1>1, <1>4, <1>7
    <3>3. CASE j > k
      <4>1. t[j] = s[j + 1] /\ j + 1 \in 1 .. Len(s) /\ (j = Len(t) <=> j + 1 = Len(s))
        BY <3>0, <3>3, <1>1, <1>3
      <4>2. j # Len(t) => t[j + 1] = s[(j + 1) + 1]
        <5> HAVE j # Len(t)
        <5>1. j + 1 \in 1 .. Len(s) - 1 /\ j + 1 > k
          BY <3>0, <3>3, <1>1, <1>3
        <5> QED BY <5>1, <1>3
      <4> QED BY <4>1, <4>2, <1>2, <1>4
    <3> QED BY <3>0, <3>1, <3>2, <3>3, <1>1
  <2> QED BY <2>1, <2>2 DEF Tiled
<1>9. Ordered(t)
  <2> SUFFICES ASSUME NEW j \in 1 .. Len(t), NEW l \in 1 .. Len(t), j < l
               PROVE  t[j].addr + t[j].size <= t[l].addr
    BY DEF Ordered
  <2>1. /\ j \in Int /\ l \in Int /\ j \in 1 .. Len(s) - 1 /\ l \in 1 .. Len(s) - 1
        /\ j \in 1 .. Len(s) /\ l \in 1 .. Len(s)
        /\ j + 1 \in 1 .. Len(s) /\ l + 1 \in 1 .. Len(s)
    BY <1>1, <1>3
  <2>2. CASE j < k
    <3>1. t[j] = s[j]
      BY <2>1, <2>2, <1>3
    <3>2. CASE l <= k
      <4>1. t[l].addr = s[l].addr
        BY <2>1, <3>2, <1>1, <1>3
      <4> QED BY <3>1, <4>1, <2>1, <1>5
    <3>3. CASE l > k
      <4>1. t[l] = s[l + 1] /\ j < l + 1
        BY <2>1, <3>3, <1>1, <1>3
      <4> QED BY <3>1, <4>1, <2>1, <1>5
    <3> QED BY <3>2, <3>3, <2>1, <1>1
  <2>3. CASE j = k
    <3>1. t[j] = m /\ t[l] = s[l + 1] /\ k + 1 < l + 1
      BY <2>1, <2>3, <1>1, <1>3
    <3>2. s[k + 1].addr + s[k + 1].size <= s[l + 1].addr
      BY <3>1, <2>1, <1>1, <1>5
    <3>3. m.addr + m.size <= s[l + 1].addr
      BY <3>2, <1>7
    <3> QED BY <3>1, <3>3
  <2>4. CASE j > k
    <3>1. t[j] = s[j + 1] /\ t[l] = s[l + 1] /\ j + 1 < l + 1
      BY <2>1, <2>4, <1>1, <1>3
    <3> QED BY <3>1, <2>1, <1>5
  <2> QED BY <2>1, <2>2, <2>3, <2>4, <1>1
<1> QED BY <1>8, <1>9

(* Two neighbours are not both free, except perhaps at position x. *)
CoalescedBut(s, x) ==
  \A j \in 1 .. Len(s) - 1 : j # x => s[j].allocated \/ s[j + 1].allocated

(* Merging the free chunks s[k] and s[k + 1] leaves no other free pair     *)
(* than the one in front of them that is still to be looked at; the        *)
(* allocated chunks stay.                                                  *)
LEMMA MergeFlags ==
  ASSUME NEW s \in Seq(Chunk), NEW k \in 1 .. Len(s) - 1, NEW m, NEW t,
         MergeShape(s, k, m, t), NEW x \in Int, x < k,
         ~s[k].allocated, ~s[k + 1].allocated, ~m.allocated,
         \A j \in 1 .. Len(s) - 1 :
           j # k /\ j # x => s[j].allocated \/ s[j + 1].allocated
  PROVE  /\ CoalescedBut(t, x)
         /\ \A j \in 1 .. Len(t) : t[j].allocated =>
              \E y \in 1 .. Len(s) : s[y] = t[j]
         /\ \A y \in 1 .. Len(s) : s[y].allocated =>
              \E j \in 1 .. Len(t) : t[j] = s[y]
<1>1. /\ Len(s) \in Nat /\ k \in Int /\ Len(t) = Len(s) - 1
      /\ \A j \in 1 .. Len(s) - 1 :
           /\ j < k => t[j] = s[j]
           /\ j = k => t[j] = m
           /\ j > k => t[j] = s[j + 1]
  BY DEF MergeShape
<1>2. ASSUME NEW j \in 1 .. Len(t) - 1, j # x
      PROVE  t[j].allocated \/ t[j + 1].allocated
  <2>1. j \in Int /\ j \in 1 .. Len(s) - 1 /\ j + 1 \in 1 .. Len(s) - 1
    BY <1>1
  <2>2. CASE j < k - 1
    <3>1. t[j] = s[j] /\ t[j + 1] = s[j + 1] /\ j # k
      BY <2>1, <2>2, <1>1
    <3> QED BY <3>1, <2>1, <1>2
  <2>3. CASE j = k - 1
    <3>1. t[j] = s[j] /\ j # k /\ j + 1 = k
      BY <2>1, <2>3, <1>1
    <3> QED BY <3>1, <2>1, <1>2
  <2>4. CASE j >= k
    <3>1. /\ t[j + 1] = s[(j + 1) + 1] /\ j + 1 # k /\ j + 1 # x
          /\ (j > k => t[j] = s[j + 1])
      BY <2>1, <2>4, <1>1, SMTT(30)
    <3>2. s[j + 1].allocated \/ s[(j + 1) + 1].allocated
      BY <3>1, <2>1
    <3>3. CASE j = k
      BY <3>1, <3>2, <3>3
    <3>4. CASE j > k
      BY <3>1, <3>2, <3>4
    <3> QED BY <2>1, <2>4, <3>3, <3>4, <1>1
  <2> QED BY <2>1, <2>2, <2>3, <2>4, <1>1
<1>3. ASSUME NEW j \in 1 .. Len(t), t[j].allocated
      PROVE  \E y \in 1 .. Len(s) : s[y] = t[j]
  <2>1. /\ j \in Int /\ j \in 1 .. Len(s) - 1 /\ j \in 1 .. Len(s)
        /\ j + 1 \in 1 .. Len(s)
    BY <1>1
  <2>2. j < k \/ j > k
    BY <2>1, <1>1, <1>3
  <2> QED BY <2>1, <2>2, <1>1
<1>4. ASSUME NEW y \in 1 .. Len(s), s[y].allocated
      PROVE  \E j \in 1 .. Len(t) : t[j] = s[y]
  <2>1. y < k \/ y > k + 1
    BY <1>1, <1>4
  <2>2. CASE y < k
    BY <2>2, <1>1
  <2>3. CASE y > k + 1
    <3>1. y - 1 \in 1 .. Len(s) - 1 /\ y - 1 > k /\ (y - 1) + 1 = y
      BY <2>3, <1>1
    <3>2. t[y - 1] = s[y]
      BY <3>1, <1>1
    <3> QED BY <3>1, <3>2, <1>1
  <2> QED BY <2>1, <2>2, <2>3
<1> QED BY <1>2, <1>3, <1>4 DEF CoalescedBut

(* The allocated chunks of t are those of s. *)
SameAllocated(s, t) ==
  /\ \A j \in 1 .. Len(t) : t[j].allocated => \E y \in 1 .. Len(s) : s[y] = t[j]
  /\ \A y \in 1 .. Len(s) : s[y].allocated => \E j \in 1 .. Len(t) : t[j] = s[y]

(* The first merge of free(): a free chunk swallows a free successor. *)
LEMMA MergeNextFact ==
  ASSUME NEW s \in Seq(Chunk), Tiled(s), Ordered(s),
         NEW i \in 1 .. Len(s), ~s[i].allocated,
         \A j \in 1 .. Len(s) - 1 :
           j # i /\ j # i - 1 => s[j].allocated \/ s[j + 1].allocated,
         NEW t, t = MergeNext(s, i)
  PROVE  /\ t \in Seq(Chunk) /\ Tiled(t) /\ Ordered(t)
         /\ i \in 1 .. Len(t) /\ ~t[i].allocated /\ t[i].addr = s[i].addr
         /\ i # 1 => t[i - 1] = s[i - 1]
         /\ CoalescedBut(t, i - 1)
         /\ SameAllocated(s, t)
<1>0. i \in Int /\ Len(s) \in Nat /\ s[i] \in Chunk
  OBVIOUS
<1>1. CASE i # Len(s) /\ ~s[i + 1].allocated
  <2> DEFINE m == [s[i] EXCEPT !.size = @ + s[i + 1].size]
  <2>1. i \in 1 .. Len(s) - 1 /\ i + 1 \in 1 .. Len(s) /\ i - 1 \in Int /\ i - 1 < i
    BY <1>0, <1>1
  <2>2. s[i + 1] \in Chunk /\ s[i + 1].size \in Nat
    <3>1. s[i + 1] \in Chunk
      BY <2>1
    <3> QED BY <3>1 DEF Chunk
  <2>3. /\ m = [addr |-> s[i].addr, size |-> s[i].size + s[i + 1].size,
                allocated |-> s[i].allocated]
        /\ m \in Chunk
    BY <1>0, <2>2, ChunkSize
  <2>4. t = RemoveAt(ReplaceAt(s, i, m), i + 1)
    BY <1>1 DEF MergeNext
  <2> HIDE DEF m
  <2>5. /\ m.addr = s[i].addr /\ m.size = s[i].size + s[i + 1].size
        /\ m.allocated = s[i].allocated /\ ~m.allocated /\ m \in Chunk
    BY <2>3
  <2>6. MergeShape(s, i, m, t)
    BY <2>1, <2>4, <2>5, MergeIsShape
  <2>7. Tiled(t) /\ Ordered(t)
    BY <2>1, <2>5, <2>6, MergeTiles
  <2>8. CoalescedBut(t, i - 1) /\ SameAllocated(s, t)
    <3> DEFINE x == i - 1
    <3>1. x \in Int /\ x < i
      BY <2>1
    <3>2. \A j \in 1 .. Len(s) - 1 :
            j # i /\ j # x => s[j].allocated \/ s[j + 1].allocated
      OBVIOUS
    <3> HIDE DEF x
    <3>3. CoalescedBut(t, x) /\ SameAllocated(s, t)
      BY <1>1, <2>1, <2>5, <2>6, <3>1, <3>2, MergeFlags, SMTT(30) DEF SameAllocated
    <3> QED BY <3>3 DEF x
  <2>9. t \in Seq(Chunk) /\ i \in 1 .. Len(t) /\ t[i] = m
    BY <2>1, <2>6 DEF MergeShape
  <2>10. i # 1 => t[i - 1] = s[i - 1]
    BY <2>1, <2>6 DEF MergeShape
  <2> QED BY <2>5, <2>7, <2>8, <2>9, <2>10
<1>2. CASE ~(i # Len(s) /\ ~s[i + 1].allocated)
  <2>1. t = s
    BY <1>2 DEF MergeNext
  <2>2. CoalescedBut(s, i - 1)
    BY <1>0, <1>2 DEF CoalescedBut
  <2>3. SameAllocated(s, s)
    BY DEF SameAllocated
  <2> QED BY <2>1, <2>2, <2>3
<1> QED BY <1>1, <1>2

(* The second merge: a free chunk is swallowed by a free predecessor. *)
LEMMA MergePrevFact ==
  ASSUME NEW s \in Seq(Chunk), Tiled(s), Ordered(s),
         NEW i \in 1 .. Len(s), ~s[i].allocated, CoalescedBut(s, i - 1),
         NEW t, t = MergePrev(s, i)
  PROVE  /\ t \in Seq(Chunk) /\ Tiled(t) /\ Ordered(t) /\ Coalesced(t)
         /\ SameAllocated(s, t)
<1>0. i \in Int /\ Len(s) \in Nat /\ s[i] \in Chunk
  OBVIOUS
<1>1. CASE i # 1 /\ ~s[i - 1].allocated
  <2> DEFINE k == i - 1
             m == [s[k] EXCEPT !.size = @ + s[i].size]
  <2>1. k \in 1 .. Len(s) - 1 /\ k \in 1 .. Len(s) /\ k + 1 = i /\ 0 \in Int /\ 0 < k
    BY <1>0, <1>1
  <2>2. s[k] \in Chunk /\ s[i].size \in Nat
    <3>1. s[k] \in Chunk
      BY <2>1
    <3> QED BY <1>0, <3>1 DEF Chunk
  <2>3. t = RemoveAt(ReplaceAt(s, k, m), i)
    BY <1>1 DEF MergePrev
  <2>4. CoalescedBut(s, k) /\ ~s[k].allocated
    BY <1>1
  <2> HIDE DEF k
  <2>5. /\ m = [addr |-> s[k].addr, size |-> s[k].size + s[i].size,
                allocated |-> s[k].allocated]
        /\ m \in Chunk
    BY <2>2, ChunkSize
  <2> HIDE DEF m
  <2>6. /\ m.addr = s[k].addr /\ m.size = s[k].size + s[k + 1].size
        /\ m.allocated = s[k].allocated /\ ~m.allocated /\ m \in Chunk
    BY <2>1, <2>4, <2>5
  <2>7. MergeShape(s, k, m, t)
    BY <2>1, <2>3, <2>6, MergeIsShape
  <2>8. Tiled(t) /\ Ordered(t)
    BY <2>1, <2>6, <2>7, MergeTiles
  <2>9. \A j \in 1 .. Len(s) - 1 :
          j # k /\ j # 0 => s[j].allocated \/ s[j + 1].allocated
    BY <2>4 DEF CoalescedBut
  <2>10. ~s[k + 1].allocated
    BY <2>1
  <2>11. CoalescedBut(t, 0) /\ SameAllocated(s, t)
    BY <2>1, <2>4, <2>6, <2>7, <2>9, <2>10, MergeFlags, SMTT(30) DEF SameAllocated
  <2>12. t \in Seq(Chunk)
    BY <2>7 DEF MergeShape
  <2>13. Coalesced(t)
    BY <2>11, <2>12 DEF Coalesced, CoalescedBut
  <2> QED BY <2>8, <2>11, <2>12, <2>13
<1>2. CASE ~(i # 1 /\ ~s[i - 1].allocated)
  <2>1. t = s
    BY <1>2 DEF MergePrev
  <2>2. Coalesced(s)
    BY <1>0, <1>2 DEF CoalescedBut, Coalesced
  <2>3. SameAllocated(s, s)
    BY DEF SameAllocated
  <2> QED BY <2>1, <2>2, <2>3
<1> QED BY <1>1, <1>2

(* What free() of s[i] makes of the list: u is s with the flag reset, t the *)
(* list after the merges.                                                  *)
FreedFrom(s, i, u, t) ==
  /\ t \in Seq(Chunk) /\ Tiled(t) /\ Ordered(t) /\ Coalesced(t)
  /\ MergeAsserts(u, i)
  /\ \A j \in 1 .. Len(t) : t[j].allocated =>
       \E y \in 1 .. Len(s) : y # i /\ s[y] = t[j]
  /\ \A y \in 1 .. Len(s) : s[y].allocated /\ y # i =>
       \E j \in 1 .. Len(t) : t[j] = s[y]

(* free() of an allocated chunk keeps the list well formed and coalesced,  *)
(* its assertions hold, and the other allocated chunks stay as they are.   *)
LEMMA FreeFact ==
  ASSUME NEW s \in Seq(Chunk), Tiled(s), Ordered(s), Coalesced(s),
         NEW i \in 1 .. Len(s), NEW e, NEW u, FlagShape(s, i, FALSE, e, u),
         NEW t, t = MergePrev(MergeNext(u, i), i)
  PROVE  FreedFrom(s, i, u, t)
<1> DEFINE v == MergeNext(u, i)
<1>0. i \in Int /\ Len(s) \in Nat
  OBVIOUS
<1>1. /\ u \in Seq(Chunk) /\ Len(u) = Len(s) /\ e.allocated = FALSE
      /\ \A j \in 1 .. Len(s) : u[j] = IF j = i THEN e ELSE s[j]
      /\ Tiled(u) /\ Ordered(u)
  <2>1. Tiled(u) /\ Ordered(u)
    BY SetFlag
  <2> QED BY <2>1 DEF FlagShape, Replaced
<1>2. i \in 1 .. Len(u) /\ ~u[i].allocated
  BY <1>1
<1>3. ASSUME NEW j \in 1 .. Len(u) - 1, j # i, j # i - 1
      PROVE  u[j].allocated \/ u[j + 1].allocated
  <2>1. /\ j \in 1 .. Len(s) - 1 /\ j \in 1 .. Len(s) /\ j + 1 \in 1 .. Len(s)
        /\ j + 1 # i
    BY <1>0, <1>1, <1>3
  <2>2. u[j] = s[j] /\ u[j + 1] = s[j + 1]
    BY <1>1, <1>3, <2>1
  <2> QED BY <2>1, <2>2 DEF Coalesced
<1>4. /\ v \in Seq(Chunk) /\ Tiled(v) /\ Ordered(v)
      /\ i \in 1 .. Len(v) /\ ~v[i].allocated /\ v[i].addr = u[i].addr
      /\ i # 1 => v[i - 1] = u[i - 1]
      /\ CoalescedBut(v, i - 1)
      /\ SameAllocated(u, v)
  <2> HIDE DEF v
  <2>1. v = MergeNext(u, i)
    BY DEF v
  <2>2. \A j \in 1 .. Len(u) - 1 :
          j # i /\ j # i - 1 => u[j].allocated \/ u[j + 1].allocated
    BY <1>3
  <2>3. u \in Seq(Chunk) /\ Tiled(u) /\ Ordered(u)
    BY <1>1
  <2> QED BY <1>2, <2>1, <2>2, <2>3, MergeNextFact
<1>5. t = MergePrev(v, i)
  OBVIOUS
<1>6. MergeAsserts(u, i)
  <2>1. /\ \A j \in 1 .. Len(u) : j # Len(u) => u[j].addr + u[j].size = u[j + 1].addr
        /\ \A j \in 1 .. Len(u) : u[j] \in Chunk
    <3>1. u # <<>> /\ u \in Seq(Chunk) /\ Tiled(u)
      BY <1>1, <1>2
    <3> QED BY <3>1 DEF Tiled
  <2>2. i # Len(u) => u[i + 1].addr = u[i].addr + u[i].size
    BY <1>2, <2>1
  <2>3. i # 1 => v[i].addr = u[i - 1].addr + u[i - 1].size
    <3> HAVE i # 1
    <3>1. i - 1 \in 1 .. Len(u) /\ i - 1 # Len(u) /\ (i - 1) + 1 = i
      BY <1>0, <1>1
    <3>2. u[i - 1].addr + u[i - 1].size = u[i].addr
      BY <2>1, <3>1
    <3> QED BY <3>2, <1>4
  <2> QED BY <2>2, <2>3 DEF MergeAsserts
<1> HIDE DEF v
<1>7. /\ t \in Seq(Chunk) /\ Tiled(t) /\ Ordered(t) /\ Coalesced(t)
      /\ SameAllocated(v, t)
  BY <1>4, <1>5, MergePrevFact
<1>8. ASSUME NEW j \in 1 .. Len(t), t[j].allocated
      PROVE  \E y \in 1 .. Len(s) : y # i /\ s[y] = t[j]
  <2>1. PICK x \in 1 .. Len(v) : v[x] = t[j]
    BY <1>7, <1>8 DEF SameAllocated
  <2>2. PICK y \in 1 .. Len(u) : u[y] = v[x]
    BY <1>4, <1>8, <2>1 DEF SameAllocated
  <2>3. y # i
    BY <1>2, <1>8, <2>1, <2>2
  <2>4. y \in 1 .. Len(s) /\ u[y] = s[y]
    BY <1>1, <2>3
  <2> QED BY <2>1, <2>2, <2>3, <2>4
<1>9. ASSUME NEW y \in 1 .. Len(s), s[y].allocated, y # i
      PROVE  \E j \in 1 .. Len(t) : t[j] = s[y]
  <2>1. y \in 1 .. Len(u) /\ u[y] = s[y]
    BY <1>1, <1>9
  <2>2. PICK x \in 1 .. Len(v) : v[x] = u[y]
    BY <1>4, <1>9, <2>1 DEF SameAllocated
  <2>3. PICK j \in 1 .. Len(t) : t[j] = v[x]
    BY <1>7, <1>9, <2>1, <2>2 DEF SameAllocated
  <2> QED BY <2>1, <2>2, <2>3
<1> QED BY <1>6, <1>7, <1>8, <1>9 DEF FreedFrom

(* A live block's chunk is found through its pointer. *)
LEMMA ChunkAtFact ==
  ASSUME NEW s \in Seq(Chunk), NEW h, NEW b \in h, Owned(s, h),
         Tiled(s), Ordered(s), b.addr \in Nat
  PROVE  /\ ChunkAt(s, b.addr) \in 1 .. Len(s)
         /\ s[ChunkAt(s, b.addr)].allocated
         /\ b.addr = s[ChunkAt(s, b.addr)].addr + HEADER
         /\ b.size <= s[ChunkAt(s, b.addr)].size - HEADER
<1> DEFINE I == {i \in 1 .. Len(s) : s[i].addr = b.addr - HEADER}
<1>1. PICK i \in 1 .. Len(s) :
        /\ s[i].allocated /\ b.addr = s[i].addr + HEADER
        /\ b.size <= s[i].size - HEADER
  BY DEF Owned
<1>2. \A j \in 1 .. Len(s) : s[j].addr \in Nat
  BY ChunkBounds
<1>3. HEADER \in Nat
  BY HeapAssumption
<1>4. i \in I
  BY <1>1, <1>2, <1>3
<1>5. I \subseteq Nat /\ I # {}
  BY <1>4
<1>6. ChunkAt(s, b.addr) = Min(I)
  BY <1>5 DEF ChunkAt, SelectInSeq
<1>7. Min(I) \in I
  <2> HIDE DEF I
  <2> QED BY <1>5, MinElement
<1>8. Min(I) \in 1 .. Len(s) /\ s[Min(I)].addr = s[i].addr
  BY <1>1, <1>2, <1>3, <1>7
<1>9. Min(I) = i
  <2> HIDE DEF I
  <2> QED BY <1>8, ChunkBounds
<1> QED BY <1>1, <1>6, <1>9

-----------------------------------------------------------------------------
(***************************************************************************)
(* The callers' blocks.                                                    *)
(***************************************************************************)

(* A new block for a chunk that was free. *)
LEMMA OwnedTake ==
  ASSUME NEW s \in Seq(Chunk), Tiled(s), Ordered(s), Coalesced(s),
         NEW h, Owned(s, h),
         NEW i \in 1 .. Len(s), ~s[i].allocated,
         NEW total \in Nat, total >= HEADER, s[i].size >= total,
         NEW t, t = TakeChunk(s, i, total),
         NEW n, n.addr = s[i].addr + HEADER, n.size \in Nat,
         n.size <= total - HEADER
  PROVE  Owned(t, h \cup {n}) /\ n \notin h /\ \A b \in h : b.addr # n.addr
<1> DEFINE c == Taken(s[i], total)
<1>1. /\ HEADER \in Nat /\ s[i].addr \in Nat /\ s[i].size \in Nat
      /\ \A j, k \in 1 .. Len(s) : s[j].addr = s[k].addr => j = k
      /\ \A j \in 1 .. Len(s) : s[j].addr \in Nat
  BY HeapAssumption, ChunkBounds
<1>2. /\ t \in Seq(Chunk)
      /\ \A j \in 1 .. Len(t) : t[j].allocated =>
           t[j] = c \/ \E k \in 1 .. Len(s) : s[k] = t[j]
      /\ \A k \in 1 .. Len(s) : s[k].allocated => \E j \in 1 .. Len(t) : t[j] = s[k]
      /\ \E j \in 1 .. Len(t) : t[j] = c
  BY TakeFact, SMTT(30)
<1>3. c.addr = s[i].addr /\ c.allocated /\ c.size \in Nat /\ c.size >= total
  BY <1>1 DEF Taken
<1> HIDE DEF c
<1>4. ASSUME NEW b \in h
      PROVE  b.addr # n.addr
  <2> SUFFICES ASSUME b.addr = n.addr PROVE FALSE
    OBVIOUS
  <2>1. PICK k \in 1 .. Len(s) : s[k].allocated /\ b.addr = s[k].addr + HEADER
    BY DEF Owned
  <2>2. s[k].addr = s[i].addr
    BY <2>1, <1>1
  <2> QED BY <1>1, <2>1, <2>2
<1>5. ASSUME NEW b \in h \cup {n}
      PROVE  \E j \in 1 .. Len(t) :
               /\ t[j].allocated
               /\ b.addr = t[j].addr + HEADER
               /\ b.size <= t[j].size - HEADER
  <2>1. CASE b \in h
    <3>1. PICK k \in 1 .. Len(s) :
            /\ s[k].allocated /\ b.addr = s[k].addr + HEADER
            /\ b.size <= s[k].size - HEADER
      BY <2>1 DEF Owned
    <3>2. PICK j \in 1 .. Len(t) : t[j] = s[k]
      BY <1>2, <3>1
    <3> QED BY <3>1, <3>2
  <2>2. CASE b = n
    <3>1. PICK j \in 1 .. Len(t) : t[j] = c
      BY <1>2
    <3>2. n.size <= c.size - HEADER
      BY <1>1, <1>3
    <3> QED BY <2>2, <3>1, <3>2, <1>3
  <2> QED BY <2>1, <2>2
<1>6. ASSUME NEW j \in 1 .. Len(t), t[j].allocated
      PROVE  \E b \in h \cup {n} : b.addr = t[j].addr + HEADER
  <2>1. CASE t[j] = c
    BY <2>1, <1>3
  <2>2. CASE \E k \in 1 .. Len(s) : s[k] = t[j]
    BY <1>6, <2>2 DEF Owned
  <2> QED BY <1>2, <1>6, <2>1, <2>2
<1>7. \A b1, b2 \in h \cup {n} : b1.addr = b2.addr => b1 = b2
  BY <1>4 DEF Owned
<1> QED BY <1>4, <1>5, <1>6, <1>7 DEF Owned

(* A block given back. *)
LEMMA OwnedFree ==
  ASSUME NEW s \in Seq(Chunk), Tiled(s), Ordered(s), Coalesced(s),
         NEW h, Owned(s, h), NEW b \in h,
         NEW i \in 1 .. Len(s), b.addr = s[i].addr + HEADER,
         NEW t, t = FreeChunk(s, i)
  PROVE  /\ t \in Seq(Chunk) /\ Tiled(t) /\ Ordered(t) /\ Coalesced(t)
         /\ Owned(t, h \ {b})
         /\ MergeAsserts(ReplaceAt(s, i, [s[i] EXCEPT !.allocated = FALSE]), i)
<1> DEFINE e == [s[i] EXCEPT !.allocated = FALSE]
           u == ReplaceAt(s, i, e)
<1>1. i \in 1 .. Len(s) /\ b.addr = s[i].addr + HEADER
  OBVIOUS
<1>2. FlagShape(s, i, FALSE, e, u)
  BY <1>1, FlagIsShape
<1>3. t = MergePrev(MergeNext(u, i), i)
  BY DEF FreeChunk
<1> HIDE DEF e, u
<1>4. /\ t \in Seq(Chunk) /\ Tiled(t) /\ Ordered(t) /\ Coalesced(t)
      /\ MergeAsserts(u, i)
      /\ \A j \in 1 .. Len(t) : t[j].allocated =>
           \E y \in 1 .. Len(s) : y # i /\ s[y] = t[j]
      /\ \A y \in 1 .. Len(s) : s[y].allocated /\ y # i =>
           \E j \in 1 .. Len(t) : t[j] = s[y]
  <2>1. FreedFrom(s, i, u, t)
    BY <1>2, <1>3, FreeFact
  <2> QED BY <2>1 DEF FreedFrom
<1>5. /\ HEADER \in Nat
      /\ \A j, k \in 1 .. Len(s) : s[j].addr = s[k].addr => j = k
      /\ \A j \in 1 .. Len(s) : s[j].addr \in Nat
  BY HeapAssumption, ChunkBounds
<1>6. ASSUME NEW d \in h \ {b}
      PROVE  \E j \in 1 .. Len(t) :
               /\ t[j].allocated
               /\ d.addr = t[j].addr + HEADER
               /\ d.size <= t[j].size - HEADER
  <2>1. PICK y \in 1 .. Len(s) :
          /\ s[y].allocated /\ d.addr = s[y].addr + HEADER
          /\ d.size <= s[y].size - HEADER
    BY DEF Owned
  <2>2. y # i
    <3>1. d.addr # b.addr
      BY DEF Owned
    <3> QED BY <1>1, <2>1, <3>1
  <2>3. PICK j \in 1 .. Len(t) : t[j] = s[y]
    BY <1>4, <2>1, <2>2
  <2> QED BY <2>1, <2>3
<1>7. ASSUME NEW j \in 1 .. Len(t), t[j].allocated
      PROVE  \E d \in h \ {b} : d.addr = t[j].addr + HEADER
  <2>1. PICK y \in 1 .. Len(s) : y # i /\ s[y] = t[j]
    BY <1>4, <1>7
  <2>2. PICK d \in h : d.addr = s[y].addr + HEADER
    BY <1>7, <2>1 DEF Owned
  <2>3. s[y].addr # s[i].addr
    BY <1>1, <1>5, <2>1
  <2>4. d # b
    <3>1. s[y].addr \in Nat /\ s[i].addr \in Nat /\ HEADER \in Nat
      BY <1>5
    <3>2. s[y].addr + HEADER # s[i].addr + HEADER
      BY <2>3, <3>1, SMTT(30)
    <3> QED BY <1>1, <2>2, <3>2
  <2> QED BY <2>1, <2>2, <2>4
<1>8. \A b1, b2 \in h \ {b} : b1.addr = b2.addr => b1 = b2
  BY DEF Owned
<1>9. Owned(t, h \ {b})
  BY <1>6, <1>7, <1>8 DEF Owned
<1> QED BY <1>4, <1>9 DEF u, e

(* Writing to the heap array keeps its type. *)
LEMMA FillType ==
  ASSUME NEW V, NEW m \in [Bytes -> V], NEW r, NEW v \in V
  PROVE  Fill(m, r, v) \in [Bytes -> V]
BY DEF Fill

(* A block inside a chunk starts inside the array. *)
LEMMA BlockAddr ==
  ASSUME NEW s \in Seq(Chunk), Tiled(s), Ordered(s), NEW i \in 1 .. Len(s),
         NEW n \in Nat \ {0}, n <= s[i].size - HEADER
  PROVE  s[i].addr + HEADER \in Bytes
<1>1. /\ s[i].addr \in Nat /\ s[i].size \in Nat
      /\ s[i].addr + s[i].size <= HEAP_SIZE
  BY ChunkBounds
<1>2. HEADER \in Nat /\ HEAP_SIZE \in Nat
  BY HeapAssumption
<1>3. s[i].addr + HEADER \in Nat /\ s[i].addr + HEADER < HEAP_SIZE
  BY <1>1, <1>2
<1> QED BY <1>2, <1>3 DEF Bytes

-----------------------------------------------------------------------------
(***************************************************************************)
(* The actions preserve the invariant.                                     *)
(***************************************************************************)

(* A malloc() that finds a chunk. *)
LEMMA MallocStep ==
  ASSUME HeapInv, NEW size \in Requests, NEW own \in Owners, Malloc(size, own)
  PROVE  HeapInv'
<1> DEFINE total == RoundUp(size) + HEADER
           k     == FindChunk(heap_chunks, total)
           segs  == Segments(heap_chunks)
           data  == segs[k].addr + HEADER
           n     == [addr |-> data, size |-> size, owner |-> own]
<1>1. /\ size # 0 /\ k # 0 /\ status = "ok"
      /\ heap_chunks' = TakeChunk(segs, k, total)
      /\ blocks' = blocks \cup {n}
      /\ mem' = Fill(WriteHeaders(mem, segs[k], total), Span(data, size), own)
      /\ UNCHANGED <<status, want>>
  BY DEF Malloc
<1>2. /\ size \in Nat \ {0} /\ HEADER \in Nat /\ HEADER > 0
      /\ RoundUp(size) \in Nat /\ RoundUp(size) >= size /\ total <= HEAP_SIZE
      /\ HEAP_SIZE \in Nat
  BY <1>1, HeapAssumption, RequestsAssumption, RoundUpFact
<1>3. total \in Nat /\ total >= HEADER /\ size <= total - HEADER
  BY <1>2
<1>4. /\ heap_chunks \in Seq(Chunk) /\ Tiled(heap_chunks) /\ Ordered(heap_chunks)
      /\ Coalesced(heap_chunks) /\ Owned(heap_chunks, blocks)
  BY DEF HeapInv, TypeOK, ChunksTileHeap, FullyCoalesced, BlocksAreChunks
<1> HIDE DEF total
<1>5. /\ segs \in Seq(Chunk) /\ segs # <<>>
      /\ Tiled(segs) /\ Ordered(segs) /\ Coalesced(segs)
  BY <1>4, SegmentsFact
<1>6. k \in 1 .. Len(segs) /\ ~segs[k].allocated /\ segs[k].size >= total
  BY <1>1, <1>2, <1>3, <1>4, FindChunkFact DEF total
<1>7. Owned(segs, blocks)
  <2>1. CASE heap_chunks = <<>>
    <3>1. blocks = {}
      BY <1>4, <2>1 DEF Owned
    <3>2. Len(segs) = 1 /\ ~segs[1].allocated
      BY <2>1 DEF Segments, InitialChunk
    <3> QED BY <3>1, <3>2 DEF Owned
  <2>2. CASE heap_chunks # <<>>
    BY <1>4, <2>2 DEF Segments
  <2> QED BY <2>1, <2>2
<1> HIDE DEF k, segs
<1>8. /\ heap_chunks' \in Seq(Chunk) /\ Tiled(heap_chunks')
      /\ Ordered(heap_chunks') /\ Coalesced(heap_chunks')
  BY <1>1, <1>3, <1>5, <1>6, TakeFact
<1>9. n.addr = segs[k].addr + HEADER /\ n.size = size /\ n.owner = own
  OBVIOUS
<1>10. data \in Bytes
  <2>1. size <= segs[k].size - HEADER
    <3>1. segs[k].size \in Nat
      BY <1>5, <1>6, ChunkBounds
    <3> QED BY <1>2, <1>3, <1>6, <3>1
  <2> QED BY <1>2, <1>5, <1>6, <2>1, BlockAddr
<1>11. n \in [addr : Bytes, size : Nat, owner : Owners]
  BY <1>2, <1>10
<1> HIDE DEF n
<1>12. Owned(heap_chunks', blocks')
  <2>1. n.size \in Nat /\ n.size <= total - HEADER
    BY <1>2, <1>3, <1>9
  <2> QED BY <1>1, <1>3, <1>5, <1>6, <1>7, <1>9, <2>1, OwnedTake
<1>13. mem' \in [Bytes -> Owners \cup {HeaderByte, Unused}]
  <2> DEFINE V == Owners \cup {HeaderByte, Unused}
  <2>1. mem \in [Bytes -> V] /\ own \in V /\ HeaderByte \in V
    BY DEF HeapInv, TypeOK
  <2> HIDE DEF V
  <2>2. WriteHeaders(mem, segs[k], total) \in [Bytes -> V]
    BY <2>1, FillType DEF WriteHeaders
  <2>3. mem' \in [Bytes -> V]
    BY <1>1, <2>1, <2>2, FillType
  <2> QED BY <2>3 DEF V
<1>14. TypeOK'
  BY <1>1, <1>8, <1>11, <1>13 DEF HeapInv, TypeOK
<1>15. AssertsHold'
  BY <1>1 DEF HeapInv, AssertsHold
<1> QED BY <1>8, <1>12, <1>14, <1>15
        DEF HeapInv, ChunksTileHeap, FullyCoalesced, BlocksAreChunks

(* A free() of a live block. *)
LEMMA FreeStep ==
  ASSUME HeapInv, NEW b \in blocks, Free(b)
  PROVE  HeapInv'
<1> DEFINE k == ChunkAt(heap_chunks, b.addr)
           u == ReplaceAt(heap_chunks, k, [heap_chunks[k] EXCEPT !.allocated = FALSE])
<1>1. /\ blocks' = blocks \ {b}
      /\ heap_chunks' = FreeChunk(heap_chunks, k)
      /\ status' = IF MergeAsserts(u, k) THEN "ok" ELSE "assertion"
      /\ mem' = Fill(mem, Span(b.addr, heap_chunks[k].size - HEADER), Unused)
      /\ UNCHANGED want
  BY DEF Free
<1>2. /\ heap_chunks \in Seq(Chunk) /\ Tiled(heap_chunks) /\ Ordered(heap_chunks)
      /\ Coalesced(heap_chunks) /\ Owned(heap_chunks, blocks)
  BY DEF HeapInv, TypeOK, ChunksTileHeap, FullyCoalesced, BlocksAreChunks
<1>3. b.addr \in Nat
  BY HeapAssumption DEF HeapInv, TypeOK, Bytes
<1>4. k \in 1 .. Len(heap_chunks) /\ b.addr = heap_chunks[k].addr + HEADER
  BY <1>2, <1>3, ChunkAtFact
<1> HIDE DEF k
<1>5. /\ heap_chunks' \in Seq(Chunk) /\ Tiled(heap_chunks')
      /\ Ordered(heap_chunks') /\ Coalesced(heap_chunks')
      /\ Owned(heap_chunks', blocks')
      /\ MergeAsserts(u, k)
  BY <1>1, <1>2, <1>4, OwnedFree
<1>6. status' = "ok"
  BY <1>1, <1>5
<1>7. mem' \in [Bytes -> Owners \cup {HeaderByte, Unused}]
  BY <1>1, FillType DEF HeapInv, TypeOK
<1>8. TypeOK'
  BY <1>1, <1>5, <1>6, <1>7 DEF HeapInv, TypeOK
<1> QED BY <1>5, <1>6, <1>8
        DEF HeapInv, ChunksTileHeap, FullyCoalesced, BlocksAreChunks, AssertsHold

(* A realloc() that keeps the block where it is. *)
LEMMA ReallocInPlaceStep ==
  ASSUME HeapInv, NEW b \in blocks, NEW size \in Requests, ReallocInPlace(b, size)
  PROVE  HeapInv'
<1> DEFINE k == ChunkAt(heap_chunks, b.addr)
           n == [b EXCEPT !.size = size]
<1>1. /\ size # 0 /\ heap_chunks[k].size - HEADER = RoundUp(size)
      /\ blocks' = (blocks \ {b}) \cup {n}
      /\ mem' = Fill(mem, Span(b.addr, size), b.owner)
      /\ UNCHANGED <<heap_chunks, status, want>>
  BY DEF ReallocInPlace
<1>2. /\ heap_chunks \in Seq(Chunk) /\ Tiled(heap_chunks) /\ Ordered(heap_chunks)
      /\ Coalesced(heap_chunks) /\ Owned(heap_chunks, blocks)
  BY DEF HeapInv, TypeOK, ChunksTileHeap, FullyCoalesced, BlocksAreChunks
<1>3. b \in [addr : Bytes, size : Nat, owner : Owners] /\ size \in Nat
  BY RequestsAssumption DEF HeapInv, TypeOK
<1>4. b.addr \in Nat /\ b.owner \in Owners
  BY <1>3, HeapAssumption DEF Bytes
<1>5. /\ k \in 1 .. Len(heap_chunks) /\ heap_chunks[k].allocated
      /\ b.addr = heap_chunks[k].addr + HEADER
  BY <1>2, <1>4, ChunkAtFact
<1>6. /\ n \in [addr : Bytes, size : Nat, owner : Owners]
      /\ n.addr = b.addr /\ n.size = size
  BY <1>3
<1> HIDE DEF k, n
<1>7. size <= heap_chunks[k].size - HEADER
  BY <1>1, <1>3, RoundUpFact
<1>8. Owned(heap_chunks, blocks')
  <2>1. ASSUME NEW d \in blocks'
        PROVE  \E i \in 1 .. Len(heap_chunks) :
                 /\ heap_chunks[i].allocated
                 /\ d.addr = heap_chunks[i].addr + HEADER
                 /\ d.size <= heap_chunks[i].size - HEADER
    <3>1. CASE d = n
      BY <3>1, <1>5, <1>6, <1>7
    <3>2. CASE d \in blocks
      BY <3>2, <1>2 DEF Owned
    <3> QED BY <1>1, <3>1, <3>2
  <2>2. ASSUME NEW i \in 1 .. Len(heap_chunks), heap_chunks[i].allocated
        PROVE  \E d \in blocks' : d.addr = heap_chunks[i].addr + HEADER
    <3>1. PICK d \in blocks : d.addr = heap_chunks[i].addr + HEADER
      BY <1>2, <2>2 DEF Owned
    <3>2. CASE d = b
      BY <3>1, <3>2, <1>1, <1>6
    <3>3. CASE d # b
      BY <3>1, <3>3, <1>1
    <3> QED BY <3>2, <3>3
  <2>3. \A b1, b2 \in blocks' : b1.addr = b2.addr => b1 = b2
    <3>1. \A b1, b2 \in blocks : b1.addr = b2.addr => b1 = b2
      BY <1>2 DEF Owned
    <3> QED BY <3>1, <1>1, <1>6
  <2> QED BY <2>1, <2>2, <2>3 DEF Owned
<1>9. mem' \in [Bytes -> Owners \cup {HeaderByte, Unused}]
  BY <1>1, <1>4, FillType DEF HeapInv, TypeOK
<1>10. TypeOK'
  BY <1>1, <1>6, <1>9 DEF HeapInv, TypeOK
<1> QED BY <1>1, <1>2, <1>8, <1>10
        DEF HeapInv, ChunksTileHeap, FullyCoalesced, BlocksAreChunks, AssertsHold

(* A realloc() that moves the block: the new chunk is taken while the old  *)
(* one is still allocated, and the old one is then freed.                  *)
LEMMA ReallocMoveStep ==
  ASSUME HeapInv, NEW b \in blocks, NEW size \in Requests, ReallocMove(b, size)
  PROVE  HeapInv'
<1> DEFINE s     == heap_chunks
           total == RoundUp(RoundUp(size)) + HEADER
           i     == FindChunk(s, total)
           taken == TakeChunk(s, i, total)
           data  == s[i].addr + HEADER
           n     == [addr |-> data, size |-> size, owner |-> b.owner]
           j     == ChunkAt(taken, b.addr)
           u     == ReplaceAt(taken, j, [taken[j] EXCEPT !.allocated = FALSE])
<1>1. /\ size # 0 /\ i # 0
      /\ heap_chunks' = FreeChunk(taken, j)
      /\ status' = IF MergeAsserts(u, j) THEN "ok" ELSE "assertion"
      /\ blocks' = (blocks \ {b}) \cup {n}
      /\ UNCHANGED want
  BY DEF ReallocMove
<1>2. /\ s \in Seq(Chunk) /\ Tiled(s) /\ Ordered(s)
      /\ Coalesced(s) /\ Owned(s, blocks)
  BY DEF HeapInv, TypeOK, ChunksTileHeap, FullyCoalesced, BlocksAreChunks
<1>3. b \in [addr : Bytes, size : Nat, owner : Owners] /\ size \in Nat
  BY RequestsAssumption DEF HeapInv, TypeOK
<1>4. b.addr \in Nat /\ b.owner \in Owners
  BY <1>3, HeapAssumption DEF Bytes
<1>5. HEADER \in Nat /\ HEAP_SIZE \in Nat
  BY HeapAssumption
<1>6. total \in Nat /\ total >= HEADER /\ size <= total - HEADER
  <2>1. RoundUp(size) \in Nat /\ RoundUp(size) >= size
    BY <1>3, RoundUpFact
  <2>2. RoundUp(RoundUp(size)) \in Nat /\ RoundUp(RoundUp(size)) >= RoundUp(size)
    BY <2>1, RoundUpFact
  <2> QED BY <1>3, <1>5, <2>1, <2>2
<1> HIDE DEF total
<1>7. s # <<>>
  BY <1>2 DEF Owned
<1>8. i \in 1 .. Len(s) /\ ~s[i].allocated /\ s[i].size >= total
  BY <1>1, <1>2, <1>6, <1>7, FindChunkFact DEF Segments
<1> HIDE DEF i
<1>9. taken \in Seq(Chunk) /\ Tiled(taken) /\ Ordered(taken) /\ Coalesced(taken)
  BY <1>2, <1>6, <1>8, TakeFact
<1>10. n.addr = s[i].addr + HEADER /\ n.size = size
  OBVIOUS
<1>11. data \in Bytes
  <2>1. s[i].size \in Nat
    BY <1>2, <1>8, ChunkBounds
  <2>2. size <= s[i].size - HEADER /\ size \in Nat \ {0}
    BY <1>1, <1>3, <1>5, <1>6, <1>8, <2>1
  <2> QED BY <1>2, <1>8, <2>2, BlockAddr
<1>12. n \in [addr : Bytes, size : Nat, owner : Owners]
  BY <1>3, <1>4, <1>11
<1> HIDE DEF n, taken
<1>13. /\ Owned(taken, blocks \cup {n}) /\ n \notin blocks
  BY <1>2, <1>3, <1>6, <1>8, <1>10, OwnedTake DEF taken
<1>14. b \in blocks \cup {n} /\ (blocks \cup {n}) \ {b} = blocks'
  BY <1>1, <1>13
<1>15. j \in 1 .. Len(taken) /\ b.addr = taken[j].addr + HEADER
  BY <1>4, <1>9, <1>13, <1>14, ChunkAtFact
<1> HIDE DEF j
<1>16. /\ heap_chunks' \in Seq(Chunk) /\ Tiled(heap_chunks')
       /\ Ordered(heap_chunks') /\ Coalesced(heap_chunks')
       /\ Owned(heap_chunks', (blocks \cup {n}) \ {b})
       /\ MergeAsserts(u, j)
  BY <1>1, <1>9, <1>13, <1>14, <1>15, OwnedFree
<1>17. status' = "ok"
  BY <1>1, <1>16
<1>18. mem' \in [Bytes -> Owners \cup {HeaderByte, Unused}]
  <2> DEFINE V       == Owners \cup {HeaderByte, Unused}
             old     == s[ChunkAt(s, b.addr)]
             copy    == CopySize(old.size - HEADER, RoundUp(size))
             headers == WriteHeaders(mem, s[i], total)
             copied  == [x \in Bytes |-> IF x \in Span(data, copy)
                                         THEN headers[b.addr + (x - data)]
                                         ELSE headers[x]]
             moved   == {x - b.addr + data :
                           x \in (b.addr + b.size) .. (b.addr + size - 1)}
             freed   == Fill(copied, Span(b.addr, old.size - HEADER), Unused)
  <2>1. mem' = Fill(freed, moved, b.owner)
    BY DEF ReallocMove, s, i, total
  <2>2. mem \in [Bytes -> V] /\ b.owner \in V /\ HeaderByte \in V /\ Unused \in V
    BY <1>4 DEF HeapInv, TypeOK
  <2> HIDE DEF V
  <2>3. headers \in [Bytes -> V]
    BY <2>2, FillType DEF WriteHeaders
  <2> HIDE DEF headers
  <2>4. /\ old.addr \in Nat /\ old.size \in Nat /\ b.addr = old.addr + HEADER
        /\ old.addr + old.size <= HEAP_SIZE
    <3> DEFINE o == ChunkAt(s, b.addr)
    <3>1. o \in 1 .. Len(s) /\ b.addr = s[o].addr + HEADER
      BY <1>2, <1>4, ChunkAtFact
    <3> HIDE DEF o
    <3>2. s[o].addr \in Nat /\ s[o].size \in Nat /\ s[o].addr + s[o].size <= HEAP_SIZE
      BY <1>2, <3>1, ChunkBounds
    <3> QED BY <3>1, <3>2 DEF o
  <2> HIDE DEF old
  <2>5. copy \in Int /\ copy <= old.size - HEADER
    <3>1. RoundUp(size) \in Nat
      BY <1>3, RoundUpFact
    <3> QED BY <1>5, <2>4, <3>1 DEF CopySize
  <2> HIDE DEF copy
  <2>6. data \in Nat
    BY <1>5, <1>11 DEF Bytes
  <2> HIDE DEF data
  <2>7. ASSUME NEW x \in Bytes, x \in Span(data, copy)
        PROVE  b.addr + (x - data) \in Bytes
    <3>1. x \in Int /\ x >= data /\ x <= data + copy - 1
      BY <2>5, <2>6, <2>7 DEF Span
    <3>2. b.addr + (x - data) >= 0 /\ b.addr + (x - data) <= HEAP_SIZE - 1
      BY <1>4, <1>5, <2>4, <2>5, <2>6, <3>1
    <3> QED BY <1>4, <1>5, <2>6, <3>1, <3>2 DEF Bytes
  <2>8. copied \in [Bytes -> V]
    BY <2>3, <2>7
  <2> HIDE DEF copied
  <2>9. freed \in [Bytes -> V]
    BY <2>2, <2>8, FillType
  <2> HIDE DEF freed
  <2>10. mem' \in [Bytes -> V]
    BY <2>1, <2>2, <2>9, FillType
  <2> QED BY <2>10 DEF V
<1>19. TypeOK'
  BY <1>1, <1>12, <1>16, <1>17, <1>18 DEF HeapInv, TypeOK
<1> QED BY <1>14, <1>16, <1>17, <1>19
        DEF HeapInv, ChunksTileHeap, FullyCoalesced, BlocksAreChunks, AssertsHold

(* The loader stops with an internal error: the heap stays as it is. *)
LEMMA ErrorStep ==
  ASSUME HeapInv, NEW what \in {"zero_sized", "exhausted", "double_free"},
         InternalError(what), want' \in Nat
  PROVE  HeapInv'
BY DEF HeapInv, TypeOK, ChunksTileHeap, FullyCoalesced, BlocksAreChunks,
       AssertsHold, InternalError

-----------------------------------------------------------------------------
(***************************************************************************)
(* The theorems.                                                           *)
(***************************************************************************)

(* The heap starts empty and every step of malloc(), realloc() and free()  *)
(* preserves the invariant: it holds in every state, for every heap,       *)
(* header, alignment and request size.                                     *)
THEOREM HeapInvariant == Spec => []HeapInv
<1>1. Init => HeapInv
  <2> SUFFICES ASSUME Init PROVE HeapInv
    OBVIOUS
  <2>1. heap_chunks = <<>> /\ blocks = {} /\ status = "ok" /\ want = 0
    BY DEF Init
  <2>2. mem \in [Bytes -> Owners \cup {HeaderByte, Unused}]
    BY DEF Init
  <2>3. TypeOK
    BY <2>1, <2>2 DEF TypeOK
  <2>4. /\ Tiled(<<>>) /\ Ordered(<<>>) /\ Coalesced(<<>>) /\ Owned(<<>>, {})
    BY DEF Tiled, Ordered, Coalesced, Owned
  <2> QED BY <2>1, <2>3, <2>4
          DEF HeapInv, ChunksTileHeap, FullyCoalesced, BlocksAreChunks, AssertsHold
<1>2. HeapInv /\ [Next]_vars => HeapInv'
  <2> SUFFICES ASSUME HeapInv, [Next]_vars PROVE HeapInv'
    OBVIOUS
  <2>0. want \in Nat
    BY DEF HeapInv, TypeOK
  <2>1. ASSUME NEW size \in Requests, MallocZero(size) PROVE HeapInv'
    BY <2>0, <2>1, ErrorStep DEF MallocZero
  <2>2. ASSUME NEW size \in Requests, MallocExhausted(size) PROVE HeapInv'
    <3>1. RoundUp(size) \in Nat /\ HEADER \in Nat
      BY HeapAssumption, RequestsAssumption, RoundUpFact
    <3>2. want' \in Nat
      BY <2>2, <3>1 DEF MallocExhausted
    <3> QED BY <2>2, <3>2, ErrorStep DEF MallocExhausted
  <2>3. ASSUME NEW size \in Requests, NEW own \in Owners, Malloc(size, own)
        PROVE  HeapInv'
    BY <2>3, MallocStep
  <2>4. ASSUME NEW b \in blocks, Free(b) PROVE HeapInv'
    BY <2>4, FreeStep
  <2>5. ASSUME NEW b \in blocks, NEW size \in Requests, ReallocInPlace(b, size)
        PROVE  HeapInv'
    BY <2>5, ReallocInPlaceStep
  <2>6. ASSUME NEW b \in blocks, NEW size \in Requests, ReallocMove(b, size)
        PROVE  HeapInv'
    BY <2>6, ReallocMoveStep
  <2>7. ASSUME NEW b \in blocks, NEW size \in Requests, ReallocExhausted(b, size)
        PROVE  HeapInv'
    BY <2>2, <2>7 DEF ReallocExhausted
  <2>8. ASSUME NEW i \in 1 .. Len(heap_chunks), FreeTwice(i) PROVE HeapInv'
    BY <2>0, <2>8, ErrorStep DEF FreeTwice
  <2>9. CASE UNCHANGED vars
    BY <2>9 DEF vars, HeapInv, TypeOK, ChunksTileHeap, FullyCoalesced,
                BlocksAreChunks, AssertsHold
  <2> QED BY <2>1, <2>2, <2>3, <2>4, <2>5, <2>6, <2>7, <2>8, <2>9 DEF Next
<1> QED BY <1>1, <1>2, PTL DEF Spec

(* Type correctness of the heap. *)
THEOREM HeapTypeOK == Spec => []TypeOK
<1>1. HeapInv => TypeOK
  BY DEF HeapInv
<1> QED BY <1>1, HeapInvariant, PTL

(* Splitting and merging neither lose nor invent memory: at every moment   *)
(* the chunks cover the whole array, each byte exactly once.               *)
THEOREM HeapTiled == Spec => []ChunksTileHeap
<1>1. HeapInv => ChunksTileHeap
  BY DEF HeapInv
<1> QED BY <1>1, HeapInvariant, PTL

(* free() leaves no two free neighbours, whatever the order of the calls.  *)
THEOREM HeapCoalesced == Spec => []FullyCoalesced
<1>1. HeapInv => FullyCoalesced
  BY DEF HeapInv
<1> QED BY <1>1, HeapInvariant, PTL

(* No sequence of malloc(), realloc() and free() leaks a chunk, hands one  *)
(* out twice or hands out one that is too small.                           *)
THEOREM HeapOwned == Spec => []BlocksAreChunks
<1>1. HeapInv => BlocksAreChunks
  BY DEF HeapInv
<1> QED BY <1>1, HeapInvariant, PTL

(* The assertions of free() never fire. *)
THEOREM HeapAsserts == Spec => []AssertsHold
<1>1. HeapInv => AssertsHold
  BY DEF HeapInv
<1> QED BY <1>1, HeapInvariant, PTL

-----------------------------------------------------------------------------
(***************************************************************************)
(* What the heap means to its callers, proved from the invariant above:    *)
(* what they store stays theirs (DataIntact), and malloc() reports an      *)
(* exhausted heap only when it is (NoFalseExhaustion).                     *)
(*                                                                         *)
(* Both rest on the chunks being apart.  malloc() writes only inside the   *)
(* free chunk it takes, free() only inside the payload of the chunk it     *)
(* frees; realloc() does one after the other.                              *)
(***************************************************************************)

(* The bytes of a chunk. *)
ChunkBytes(c) == Span(c.addr, c.size)

-----------------------------------------------------------------------------
(* Every byte of the array belongs to a chunk.                             *)
LEMMA ByteHasChunk ==
  ASSUME NEW s \in Seq(Chunk), s # <<>>, Tiled(s), Ordered(s),
         NEW x \in Nat, x < HEAP_SIZE
  PROVE  \E i \in 1 .. Len(s) : s[i].addr <= x /\ x < s[i].addr + s[i].size
<1> DEFINE J == {j \in 1 .. Len(s) : x < s[j].addr + s[j].size}
           i == Min(J)
<1>1. /\ Len(s) \in 1 .. Len(s) /\ 1 \in 1 .. Len(s)
      /\ \A j \in 1 .. Len(s) : s[j].addr \in Nat /\ s[j].size \in Nat
  BY ChunkBounds
<1>2. Len(s) \in J
  BY <1>1 DEF Tiled
<1>3. i \in J /\ \A j \in J : i <= j
  <2>1. J \subseteq Nat /\ J # {}
    BY <1>2
  <2> HIDE DEF J
  <2> QED BY <2>1, MinElement
<1> HIDE DEF i
<1>4. s[i].addr <= x
  <2>1. CASE i = 1
    BY <2>1, <1>1 DEF Tiled
  <2>2. CASE i # 1
    <3>1. i - 1 \in 1 .. Len(s) /\ i - 1 # Len(s) /\ (i - 1) + 1 = i
      BY <1>3, <2>2
    <3>2. s[i - 1].addr + s[i - 1].size = s[i].addr
      BY <3>1 DEF Tiled
    <3>3. ~(x < s[i - 1].addr + s[i - 1].size)
      BY <1>3, <3>1
    <3> QED BY <1>1, <1>3, <3>1, <3>2, <3>3
  <2> QED BY <2>1, <2>2
<1> QED BY <1>3, <1>4

(* In a coalesced list whose free chunks are all smaller than w, every run *)
(* of w bytes meets an allocated chunk.                                    *)
LEMMA RunMeetsAllocated ==
  ASSUME NEW s \in Seq(Chunk), s # <<>>, Tiled(s), Ordered(s), Coalesced(s),
         NEW w \in Nat \ {0}, NEW x \in Nat, x + w <= HEAP_SIZE,
         \A i \in 1 .. Len(s) : s[i].allocated \/ s[i].size < w
  PROVE  \E i \in 1 .. Len(s) :
           s[i].allocated /\ Span(s[i].addr, s[i].size) \cap Span(x, w) # {}
<1>0. HEAP_SIZE \in Nat /\ HEADER \in Nat /\ HEADER > 0
  BY HeapAssumption
<1>1. \A j \in 1 .. Len(s) : s[j].addr \in Nat /\ s[j].size \in Nat /\ s[j].size >= HEADER
  BY ChunkBounds
<1>2. PICK i \in 1 .. Len(s) : s[i].addr <= x /\ x < s[i].addr + s[i].size
  <2>1. x < HEAP_SIZE
    BY <1>0
  <2> QED BY <2>1, ByteHasChunk
<1>3. CASE s[i].allocated
  <2>1. x \in Span(s[i].addr, s[i].size) /\ x \in Span(x, w)
    BY <1>1, <1>2 DEF Span
  <2> QED BY <1>3, <2>1
<1>4. CASE ~s[i].allocated
  <2>1. s[i].size < w
    BY <1>4
  <2>2. i # Len(s)
    <3> SUFFICES ASSUME i = Len(s) PROVE FALSE
      OBVIOUS
    <3>1. s[i].addr + s[i].size = HEAP_SIZE
      BY DEF Tiled
    <3> QED BY <1>0, <1>1, <1>2, <2>1, <3>1
  <2>3. i \in 1 .. Len(s) - 1 /\ i + 1 \in 1 .. Len(s)
    BY <2>2
  <2>4. s[i + 1].allocated
    BY <1>4, <2>3 DEF Coalesced
  <2>5. s[i].addr + s[i].size = s[i + 1].addr
    BY <2>2 DEF Tiled
  <2> DEFINE y == s[i + 1].addr
  <2>6. y \in Nat /\ s[i + 1].size \in Nat /\ s[i + 1].size > 0
    BY <1>0, <1>1, <2>3
  <2>7. x <= y /\ y <= x + w - 1
    BY <1>1, <1>2, <2>1, <2>5, <2>6, SMTT(30)
  <2>8. y \in Span(y, s[i + 1].size) /\ y \in Span(x, w)
    BY <2>6, <2>7 DEF Span
  <2> QED BY <2>3, <2>4, <2>8
<1> QED BY <1>3, <1>4

(* When malloc() finds nothing, all free chunks are too small.             *)
LEMMA NothingFits ==
  ASSUME NEW s \in Seq(Chunk), NEW total \in Nat, FindChunk(s, total) = 0
  PROVE  s # <<>> /\ \A i \in 1 .. Len(s) : s[i].allocated \/ s[i].size < total
<1>1. s # <<>>
  BY DEF FindChunk
<1> DEFINE I == {i \in 1 .. Len(s) : ~s[i].allocated /\ s[i].size >= total}
<1>2. FindChunk(s, total) = IF I # {} THEN Min(I) ELSE 0
  BY <1>1 DEF FindChunk, SelectInSeq
<1>3. I = {}
  <2> SUFFICES ASSUME I # {} PROVE FALSE
    OBVIOUS
  <2>1. I \subseteq Nat /\ 0 \notin I
    OBVIOUS
  <2> HIDE DEF I
  <2>2. Min(I) \in I
    BY <2>1, MinElement
  <2> QED BY <1>2, <2>1, <2>2
<1>4. ASSUME NEW i \in 1 .. Len(s) PROVE s[i].size \in Nat
  <2>1. s[i] \in Chunk
    OBVIOUS
  <2> QED BY <2>1 DEF Chunk
<1> QED BY <1>1, <1>3, <1>4

(* The step that reports an exhausted heap.                                *)
LEMMA ExhaustedStep ==
  ASSUME HeapInv, NEW size \in Requests, MallocExhausted(size)
  PROVE  NoFalseExhaustion'
<1>1. /\ RoundUp(size) \in Nat /\ HEADER \in Nat \ {0} /\ HEAP_SIZE \in Nat
      /\ RoundUp(size) + HEADER <= HEAP_SIZE
  BY HeapAssumption, RequestsAssumption, RoundUpFact
<1>2. want' \in Nat \ {0} /\ want' <= HEAP_SIZE
  BY <1>1 DEF MallocExhausted
<1>3. heap_chunks' = heap_chunks /\ FindChunk(heap_chunks, want') = 0
  BY DEF MallocExhausted, InternalError
<1>4. /\ heap_chunks \in Seq(Chunk) /\ Tiled(heap_chunks) /\ Ordered(heap_chunks)
      /\ Coalesced(heap_chunks)
  BY DEF HeapInv, TypeOK, ChunksTileHeap, FullyCoalesced
<1> DEFINE w == want'
<1>5. /\ heap_chunks # <<>>
      /\ \A i \in 1 .. Len(heap_chunks) : heap_chunks[i].allocated \/ heap_chunks[i].size < w
  BY <1>2, <1>3, <1>4, NothingFits
<1>6. w \in Nat \ {0} /\ w <= HEAP_SIZE
  BY <1>2
<1> HIDE DEF w
<1>7. ASSUME NEW x \in 0 .. HEAP_SIZE - w
      PROVE  \E i \in 1 .. Len(heap_chunks) :
               /\ heap_chunks[i].allocated
               /\ Span(heap_chunks[i].addr, heap_chunks[i].size) \cap Span(x, w) # {}
  <2>1. x \in Nat /\ x + w <= HEAP_SIZE
    BY <1>1, <1>6
  <2> QED BY <1>4, <1>5, <1>6, <2>1, RunMeetsAllocated
<1> QED BY <1>3, <1>7 DEF NoFalseExhaustion, w

-----------------------------------------------------------------------------
(***************************************************************************)
(* What the callers store.                                                 *)
(***************************************************************************)

(* Two chunks have no byte in common.                                      *)
LEMMA ChunksApart ==
  ASSUME NEW s \in Seq(Chunk), Tiled(s), Ordered(s),
         NEW i \in 1 .. Len(s), NEW j \in 1 .. Len(s), i # j
  PROVE  ChunkBytes(s[i]) \cap ChunkBytes(s[j]) = {}
<1> DEFINE a == s[i].addr
           n == s[i].size
           c == s[j].addr
           m == s[j].size
<1>1. a \in Nat /\ n \in Nat /\ c \in Nat /\ m \in Nat
  BY ChunkBounds
<1>2. a + n <= c \/ c + m <= a
  <2>1. CASE i < j
    BY <2>1 DEF Ordered
  <2>2. CASE j < i
    BY <2>2 DEF Ordered
  <2> QED BY <2>1, <2>2
<1>3. ChunkBytes(s[i]) = a .. (a + n - 1) /\ ChunkBytes(s[j]) = c .. (c + m - 1)
  BY DEF ChunkBytes, Span
<1> HIDE DEF a, n, c, m
<1>4. (a .. (a + n - 1)) \cap (c .. (c + m - 1)) = {}
  BY <1>1, <1>2
<1> QED BY <1>3, <1>4

(* The bytes of a block and of a header lie in their chunk.                *)
LEMMA InsideChunk ==
  ASSUME NEW s \in Seq(Chunk), Tiled(s), Ordered(s), NEW i \in 1 .. Len(s)
  PROVE  /\ Span(s[i].addr, HEADER) \subseteq ChunkBytes(s[i])
         /\ ChunkBytes(s[i]) \subseteq Bytes
         /\ \A n \in Nat : n <= s[i].size - HEADER =>
              /\ Span(s[i].addr + HEADER, n) \subseteq ChunkBytes(s[i])
              /\ Span(s[i].addr + HEADER, n) \cap Span(s[i].addr, HEADER) = {}
<1>1. /\ s[i].addr \in Nat /\ s[i].size \in Nat /\ s[i].size >= HEADER
      /\ s[i].addr + s[i].size <= HEAP_SIZE
  BY ChunkBounds
<1>2. HEADER \in Nat /\ HEAP_SIZE \in Nat
  BY HeapAssumption
<1> DEFINE a == s[i].addr
           z == s[i].size
<1>3. a \in Nat /\ z \in Nat /\ z >= HEADER /\ a + z <= HEAP_SIZE
  BY <1>1
<1> HIDE DEF a, z
<1>4. Span(a, HEADER) \subseteq Span(a, z) /\ Span(a, z) \subseteq Bytes
  BY <1>2, <1>3 DEF Span, Bytes
<1>5. ASSUME NEW n \in Nat, n <= z - HEADER
      PROVE  /\ Span(a + HEADER, n) \subseteq Span(a, z)
             /\ Span(a + HEADER, n) \cap Span(a, HEADER) = {}
  BY <1>2, <1>3, <1>5 DEF Span
<1> QED BY <1>4, <1>5 DEF ChunkBytes, a, z

(* Where the chunks of the list start after malloc() has taken s[i].       *)
LEMMA TakeAddrs ==
  ASSUME NEW s \in Seq(Chunk), NEW i \in 1 .. Len(s),
         NEW total \in Nat, s[i].size >= total,
         NEW t, t = TakeChunk(s, i, total), NEW j \in 1 .. Len(t)
  PROVE  \/ \E k \in 1 .. Len(s) : k # i /\ t[j].addr = s[k].addr
         \/ t[j].addr = s[i].addr
         \/ Splits(s[i], total) /\ t[j].addr = s[i].addr + total
<1>0. s[i] \in Chunk
  OBVIOUS
<1>1. s[i].addr \in Nat /\ s[i].size \in Nat /\ HEADER \in Nat
  BY <1>0, HeapAssumption DEF Chunk
<1>2. CASE ~Splits(s[i], total)
  <2> DEFINE e == [s[i] EXCEPT !.allocated = TRUE]
  <2>1. FlagShape(s, i, TRUE, e, t)
    BY <1>2, FlagIsShape DEF TakeChunk
  <2>2. e.addr = s[i].addr /\ Len(t) = Len(s) /\ t[j] = IF j = i THEN e ELSE s[j]
    BY <2>1 DEF FlagShape, Replaced
  <2> QED BY <2>2
<1>3. CASE Splits(s[i], total)
  <2> DEFINE a == [addr |-> s[i].addr, size |-> total, allocated |-> TRUE]
             f == [addr |-> s[i].addr + total, size |-> s[i].size - total,
                   allocated |-> FALSE]
  <2>1. a \in Chunk /\ f \in Chunk /\ a.addr = s[i].addr /\ f.addr = s[i].addr + total
    <3>1. s[i].addr + total \in Nat /\ s[i].size - total \in Nat
      BY <1>1
    <3> QED BY <1>1, <3>1 DEF Chunk
  <2>2. t = InsertAt(ReplaceAt(s, i, a), i + 1, f)
    BY <1>3 DEF TakeChunk
  <2> HIDE DEF a, f
  <2>3. SplitShape(s, i, a, f, t)
    BY <2>1, <2>2, SplitIsShape
  <2>4. /\ j \in 1 .. Len(s) + 1
        /\ t[j] = IF j < i THEN s[j] ELSE IF j = i THEN a
                  ELSE IF j = i + 1 THEN f ELSE s[j - 1]
    BY <2>3 DEF SplitShape
  <2>5. CASE j < i
    BY <2>4, <2>5
  <2>6. CASE j > i + 1
    <3>1. j - 1 \in 1 .. Len(s) /\ j - 1 # i /\ t[j] = s[j - 1]
      BY <2>4, <2>6
    <3> QED BY <3>1
  <2>7. CASE j = i \/ j = i + 1
    BY <1>3, <2>1, <2>4, <2>7
  <2> QED BY <2>4, <2>5, <2>6, <2>7
<1> QED BY <1>2, <1>3

(* A merge makes no chunk start at a new address.                          *)
LEMMA MergeAddrs ==
  ASSUME NEW s \in Seq(Chunk), NEW k \in 1 .. Len(s) - 1, NEW m, NEW t,
         MergeShape(s, k, m, t), m.addr = s[k].addr, NEW j \in 1 .. Len(t)
  PROVE  \E y \in 1 .. Len(s) : t[j].addr = s[y].addr
<1>1. /\ j \in 1 .. Len(s) - 1 /\ j \in 1 .. Len(s) /\ j + 1 \in 1 .. Len(s)
      /\ k \in 1 .. Len(s)
      /\ j < k => t[j] = s[j]
      /\ j = k => t[j] = m
      /\ j > k => t[j] = s[j + 1]
  BY DEF MergeShape
<1> QED BY <1>1

(* Neither does free().                                                    *)
LEMMA FreeAddrs ==
  ASSUME NEW s \in Seq(Chunk), Tiled(s), Ordered(s), Coalesced(s), NEW i \in 1 .. Len(s),
         NEW t, t = FreeChunk(s, i), NEW j \in 1 .. Len(t)
  PROVE  \E y \in 1 .. Len(s) : t[j].addr = s[y].addr
<1> DEFINE e == [s[i] EXCEPT !.allocated = FALSE]
           u == ReplaceAt(s, i, e)
           v == MergeNext(u, i)
<1>1. FlagShape(s, i, FALSE, e, u)
  BY FlagIsShape
<1>2. t = MergePrev(v, i)
  BY DEF FreeChunk
<1> HIDE DEF u, e
<1>3. /\ u \in Seq(Chunk) /\ Len(u) = Len(s)
      /\ \A y \in 1 .. Len(s) : u[y].addr = s[y].addr
  BY <1>1 DEF FlagShape, Replaced
<1>4. \A k \in 1 .. Len(u) : u[k] \in Chunk
  BY <1>3
<1>5. /\ v \in Seq(Chunk) /\ i \in 1 .. Len(v)
      /\ \A y \in 1 .. Len(v) : \E z \in 1 .. Len(u) : v[y].addr = u[z].addr
  <2>1. CASE i # Len(u) /\ ~u[i + 1].allocated
    <3> DEFINE m == [u[i] EXCEPT !.size = @ + u[i + 1].size]
    <3>1. i \in 1 .. Len(u) - 1 /\ i + 1 \in 1 .. Len(u)
      BY <1>3, <2>1
    <3>2. u[i] \in Chunk /\ u[i + 1] \in Chunk
      BY <1>4, <3>1
    <3>3. u[i + 1].size \in Nat
      BY <3>2 DEF Chunk
    <3>4. m \in Chunk /\ m.addr = u[i].addr
      <4>1. /\ m = [addr |-> u[i].addr, size |-> u[i].size + u[i + 1].size,
                    allocated |-> u[i].allocated]
            /\ m \in Chunk
        BY <3>2, <3>3, ChunkSize
      <4> HIDE DEF m
      <4> QED BY <4>1
    <3>5. v = RemoveAt(ReplaceAt(u, i, m), i + 1)
      BY <2>1 DEF MergeNext
    <3> HIDE DEF m, v
    <3>6. MergeShape(u, i, m, v)
      BY <1>3, <3>1, <3>4, <3>5, MergeIsShape
    <3>7. v \in Seq(Chunk) /\ i \in 1 .. Len(v)
      BY <3>1, <3>6 DEF MergeShape
    <3> QED BY <1>3, <3>1, <3>4, <3>6, <3>7, MergeAddrs
  <2>2. CASE ~(i # Len(u) /\ ~u[i + 1].allocated)
    <3>1. v = u
      BY <2>2 DEF MergeNext
    <3> QED BY <1>3, <3>1
  <2> QED BY <2>1, <2>2
<1> HIDE DEF v
<1>6. \E z \in 1 .. Len(v) : t[j].addr = v[z].addr
  <2>1. CASE i # 1 /\ ~v[i - 1].allocated
    <3> DEFINE k == i - 1
               m == [v[k] EXCEPT !.size = @ + v[i].size]
    <3>1. k \in 1 .. Len(v) - 1 /\ k \in 1 .. Len(v) /\ k + 1 = i
      BY <1>5, <2>1
    <3>2. v[k] \in Chunk /\ v[i] \in Chunk
      BY <1>5, <3>1
    <3>3. v[i].size \in Nat
      BY <3>2 DEF Chunk
    <3>5. t = RemoveAt(ReplaceAt(v, k, m), k + 1)
      BY <1>2, <2>1, <3>1 DEF MergePrev
    <3> HIDE DEF k
    <3>4. /\ m = [addr |-> v[k].addr, size |-> v[k].size + v[i].size,
                  allocated |-> v[k].allocated]
          /\ m \in Chunk
      BY <3>2, <3>3, ChunkSize
    <3> HIDE DEF m
    <3>7. m.addr = v[k].addr
      BY <3>4
    <3>6. MergeShape(v, k, m, t)
      BY <1>5, <3>1, <3>4, <3>5, MergeIsShape
    <3>8. /\ j \in 1 .. Len(v) /\ j + 1 \in 1 .. Len(v)
          /\ t[j] = v[j] \/ t[j] = m \/ t[j] = v[j + 1]
      BY <3>1, <3>6 DEF MergeShape
    <3> QED BY <3>1, <3>7, <3>8
  <2>2. CASE ~(i # 1 /\ ~v[i - 1].allocated)
    <3>1. t = v
      BY <1>2, <2>2 DEF MergePrev
    <3> QED BY <3>1
  <2> QED BY <2>1, <2>2
<1> QED BY <1>3, <1>5, <1>6

(* Memory m2 differs from m only inside chunk c, and holds there the       *)
(* headers malloc() writes when it takes total bytes of it.                *)
MemTaken(c, total, m, m2) ==
  /\ \A x \in Bytes : x \notin ChunkBytes(c) => m2[x] = m[x]
  /\ \A x \in Span(c.addr, HEADER) : m2[x] = HeaderByte
  /\ Splits(c, total) => \A x \in Span(c.addr + total, HEADER) : m2[x] = HeaderByte

(* The bytes of the blocks in held, and the headers of all chunks but i.   *)
BlocksIntact(held, m) == \A b \in held : \A x \in Span(b.addr, b.size) : m[x] = b.owner
HeadersIntactBut(s, i, m) ==
  \A k \in 1 .. Len(s) : k # i => \A x \in Span(s[k].addr, HEADER) : m[x] = HeaderByte

(* Memory that is written only inside the free chunk s[i], with the        *)
(* headers and the caller's bytes malloc() leaves there, is intact for the *)
(* list and the blocks after the call.                                     *)
LEMMA TakeKeepsData ==
  ASSUME NEW s \in Seq(Chunk), Tiled(s), Ordered(s), NEW h, Owned(s, h),
         \A b \in h : b.size \in Nat,
         NEW i \in 1 .. Len(s), ~s[i].allocated,
         NEW total \in Nat, total >= HEADER, s[i].size >= total,
         NEW t, t = TakeChunk(s, i, total),
         NEW n, NEW m, NEW m2,
         BlocksIntact(h, m), HeadersIntactBut(s, i, m),
         MemTaken(s[i], total, m, m2), BlocksIntact({n}, m2)
  PROVE  Intact(t, h \cup {n}, m2)
<1> USE DEF BlocksIntact, HeadersIntactBut, MemTaken
<1>1. ASSUME NEW k \in 1 .. Len(s), k # i, NEW x \in ChunkBytes(s[k])
      PROVE  m2[x] = m[x]
  <2>1. x \in Bytes
    BY InsideChunk
  <2>2. x \notin ChunkBytes(s[i])
    BY <1>1, ChunksApart
  <2> QED BY <2>1, <2>2
<1>2. ASSUME NEW b \in h, NEW x \in Span(b.addr, b.size)
      PROVE  m2[x] = b.owner
  <2>1. PICK k \in 1 .. Len(s) : /\ s[k].allocated
                                 /\ b.addr = s[k].addr + HEADER
                                 /\ b.size <= s[k].size - HEADER
    BY DEF Owned
  <2>2. k # i /\ x \in ChunkBytes(s[k])
    BY <1>2, <2>1, InsideChunk
  <2> QED BY <1>1, <1>2, <2>2
<1>3. ASSUME NEW j \in 1 .. Len(t), NEW x \in Span(t[j].addr, HEADER)
      PROVE  m2[x] = HeaderByte
  <2>1. CASE \E k \in 1 .. Len(s) : k # i /\ t[j].addr = s[k].addr
    <3>1. PICK k \in 1 .. Len(s) : k # i /\ t[j].addr = s[k].addr
      BY <2>1
    <3>2. x \in Span(s[k].addr, HEADER) /\ x \in ChunkBytes(s[k])
      BY <1>3, <3>1, InsideChunk
    <3> QED BY <1>1, <3>1, <3>2
  <2>2. CASE t[j].addr = s[i].addr
    BY <1>3, <2>2
  <2>3. CASE Splits(s[i], total) /\ t[j].addr = s[i].addr + total
    BY <1>3, <2>3
  <2> QED BY <2>1, <2>2, <2>3, TakeAddrs
<1> QED BY <1>2, <1>3 DEF Intact

(* Memory that is written only inside the payload of the chunk of b is     *)
(* intact for the list and the blocks after free() of b.                   *)
LEMMA FreeKeepsData ==
  ASSUME NEW s \in Seq(Chunk), Tiled(s), Ordered(s), Coalesced(s), NEW h, Owned(s, h),
         \A b \in h : b.size \in Nat, NEW b \in h,
         NEW i \in 1 .. Len(s), b.addr = s[i].addr + HEADER,
         NEW t, t = FreeChunk(s, i), NEW m, NEW m2, Intact(s, h, m),
         \A x \in Bytes : x \notin Span(b.addr, s[i].size - HEADER) => m2[x] = m[x]
  PROVE  Intact(t, h \ {b}, m2)
<1>0. /\ s[i].size \in Nat /\ s[i].addr \in Nat /\ s[i].size >= HEADER /\ HEADER \in Nat
  BY ChunkBounds, HeapAssumption
<1> DEFINE p == s[i].size - HEADER
<1>1. /\ p \in Nat /\ p <= s[i].size - HEADER
      /\ Span(b.addr, p) \subseteq ChunkBytes(s[i])
      /\ Span(b.addr, p) \cap Span(s[i].addr, HEADER) = {}
  <2>1. p \in Nat /\ p <= s[i].size - HEADER
    BY <1>0
  <2> HIDE DEF p
  <2> QED BY <2>1, InsideChunk
<1>2. \A x \in Bytes : x \notin Span(b.addr, p) => m2[x] = m[x]
  OBVIOUS
<1> HIDE DEF p
<1>3. ASSUME NEW c \in h \ {b}, NEW x \in Span(c.addr, c.size)
      PROVE  m2[x] = c.owner
  <2>1. PICK k \in 1 .. Len(s) : c.addr = s[k].addr + HEADER /\ c.size <= s[k].size - HEADER
    BY DEF Owned
  <2>2. k # i
    BY <2>1 DEF Owned
  <2>3. x \in ChunkBytes(s[k]) /\ x \in Bytes
    BY <1>3, <2>1, InsideChunk
  <2>4. x \notin ChunkBytes(s[i])
    BY <2>2, <2>3, ChunksApart
  <2> QED BY <1>1, <1>2, <1>3, <2>3, <2>4 DEF Intact
<1>4. ASSUME NEW j \in 1 .. Len(t), NEW x \in Span(t[j].addr, HEADER)
      PROVE  m2[x] = HeaderByte
  <2>1. PICK k \in 1 .. Len(s) : t[j].addr = s[k].addr
    BY FreeAddrs
  <2>2. x \in Span(s[k].addr, HEADER) /\ x \in ChunkBytes(s[k]) /\ x \in Bytes
    BY <1>4, <2>1, InsideChunk
  <2>3. x \notin Span(b.addr, p)
    <3>1. CASE k = i
      BY <1>1, <2>2, <3>1
    <3>2. CASE k # i
      BY <1>1, <2>2, <3>2, ChunksApart
    <3> QED BY <3>1, <3>2
  <2> QED BY <1>2, <2>2, <2>3 DEF Intact
<1> QED BY <1>3, <1>4 DEF Intact

(* Where malloc() writes: headers at the start of the chunk it takes and,  *)
(* after a split, behind the payload it returns.                           *)
LEMMA HeaderWrites ==
  ASSUME NEW s \in Seq(Chunk), Tiled(s), Ordered(s), NEW i \in 1 .. Len(s),
         NEW total \in Nat, total >= HEADER, s[i].size >= total,
         NEW m
  PROVE  MemTaken(s[i], total, m, WriteHeaders(m, s[i], total))
<1> DEFINE a == s[i].addr
           z == s[i].size
           own == Span(a, HEADER)
           new == Span(a + total, HEADER)
           w == WriteHeaders(m, s[i], total)
<1>1. /\ a \in Nat /\ z \in Nat /\ z >= total /\ HEADER \in Nat
      /\ Splits(s[i], total) <=> z >= total + HEADER
      /\ ChunkBytes(s[i]) = Span(a, z)
      /\ ChunkBytes(s[i]) \subseteq Bytes
  BY ChunkBounds, HeapAssumption, InsideChunk DEF Splits, ChunkBytes
<1>2. w = Fill(m, own \cup (IF Splits(s[i], total) THEN new ELSE {}), HeaderByte)
  BY DEF WriteHeaders
<1> HIDE DEF a, z
<1>3. own \subseteq Span(a, z)
  BY <1>1 DEF Span
<1>4. Splits(s[i], total) => new \subseteq Span(a, z)
  BY <1>1 DEF Span
<1> HIDE DEF own, new, w
<1>6. \A x \in Bytes : x \notin ChunkBytes(s[i]) => w[x] = m[x]
  BY <1>1, <1>2, <1>3, <1>4 DEF Fill
<1>7. \A x \in own : x \in Bytes /\ w[x] = HeaderByte
  BY <1>1, <1>2, <1>3 DEF Fill
<1>8. Splits(s[i], total) => \A x \in new : x \in Bytes /\ w[x] = HeaderByte
  BY <1>1, <1>2, <1>4 DEF Fill
<1> QED BY <1>6, <1>7, <1>8 DEF MemTaken, own, new, a, w

(* A payload write on top of it that stays inside the payload.             *)
LEMMA PayloadWrites ==
  ASSUME NEW s \in Seq(Chunk), Tiled(s), Ordered(s), NEW i \in 1 .. Len(s),
         NEW total \in Nat, total >= HEADER, s[i].size >= total,
         NEW m, NEW w, MemTaken(s[i], total, m, w), NEW m2,
         \A x \in Bytes : x \notin Span(s[i].addr + HEADER, total - HEADER) => m2[x] = w[x]
  PROVE  /\ MemTaken(s[i], total, m, m2)
         /\ Span(s[i].addr + HEADER, total - HEADER) \subseteq ChunkBytes(s[i])
<1> DEFINE a == s[i].addr
           z == s[i].size
           own == Span(a, HEADER)
           new == Span(a + total, HEADER)
           pay == Span(a + HEADER, total - HEADER)
<1>1. /\ a \in Nat /\ z \in Nat /\ z >= total /\ HEADER \in Nat
      /\ Splits(s[i], total) <=> z >= total + HEADER
      /\ ChunkBytes(s[i]) = Span(a, z)
      /\ ChunkBytes(s[i]) \subseteq Bytes
  BY ChunkBounds, HeapAssumption, InsideChunk DEF Splits, ChunkBytes
<1> HIDE DEF a, z
<1>2. own \subseteq Span(a, z) /\ own \cap pay = {}
  BY <1>1, SMTT(30) DEF Span
<1>3. new \cap pay = {} /\ (Splits(s[i], total) => new \subseteq Span(a, z))
  BY <1>1 DEF Span
<1>4. pay \subseteq Span(a, z)
  BY <1>1 DEF Span
<1>5. \A x \in Bytes : x \notin pay => m2[x] = w[x]
  BY DEF a
<1>6. /\ \A x \in Bytes : x \notin ChunkBytes(s[i]) => w[x] = m[x]
      /\ \A x \in own : w[x] = HeaderByte
      /\ Splits(s[i], total) => \A x \in new : w[x] = HeaderByte
  BY DEF MemTaken, a
<1> HIDE DEF own, new, pay
<1>7. /\ \A x \in Bytes : x \notin ChunkBytes(s[i]) => m2[x] = m[x]
      /\ \A x \in own : m2[x] = HeaderByte
      /\ Splits(s[i], total) => \A x \in new : m2[x] = HeaderByte
  BY <1>1, <1>2, <1>3, <1>4, <1>5, <1>6
<1> QED BY <1>1, <1>4, <1>7 DEF MemTaken, own, new, pay, a

(* malloc() leaves everyone's bytes as they are.                           *)
LEMMA MallocData ==
  ASSUME HeapInv, DataIntact, NEW size \in Requests, NEW own \in Owners, Malloc(size, own)
  PROVE  DataIntact'
<1> DEFINE total == RoundUp(size) + HEADER
           k     == FindChunk(heap_chunks, total)
           segs  == Segments(heap_chunks)
           data  == segs[k].addr + HEADER
           n     == [addr |-> data, size |-> size, owner |-> own]
           w     == WriteHeaders(mem, segs[k], total)
<1>1. /\ size # 0 /\ k # 0
      /\ heap_chunks' = TakeChunk(segs, k, total)
      /\ blocks' = blocks \cup {n}
      /\ mem' = Fill(w, Span(data, size), own)
  BY DEF Malloc
<1>2. /\ size \in Nat \ {0} /\ HEADER \in Nat /\ HEADER > 0
      /\ RoundUp(size) \in Nat /\ RoundUp(size) >= size /\ total <= HEAP_SIZE
      /\ HEAP_SIZE \in Nat
  BY <1>1, HeapAssumption, RequestsAssumption, RoundUpFact
<1>3. total \in Nat /\ total >= HEADER /\ size <= total - HEADER
  BY <1>2
<1>4. /\ heap_chunks \in Seq(Chunk) /\ Tiled(heap_chunks) /\ Ordered(heap_chunks)
      /\ Coalesced(heap_chunks) /\ Owned(heap_chunks, blocks)
      /\ \A b \in blocks : b.size \in Nat
      /\ Intact(heap_chunks, blocks, mem)
  BY DEF HeapInv, TypeOK, ChunksTileHeap, FullyCoalesced, BlocksAreChunks, DataIntact
<1> HIDE DEF total
<1>5. segs \in Seq(Chunk) /\ Tiled(segs) /\ Ordered(segs)
  BY <1>4, SegmentsFact
<1>6. k \in 1 .. Len(segs) /\ ~segs[k].allocated /\ segs[k].size >= total
  BY <1>1, <1>2, <1>3, <1>4, FindChunkFact DEF total
<1>7. /\ Owned(segs, blocks)
      /\ HeadersIntactBut(segs, k, mem)
  <2>1. CASE heap_chunks = <<>>
    <3>1. blocks = {}
      BY <1>4, <2>1 DEF Owned
    <3>2. Len(segs) = 1 /\ ~segs[1].allocated
      BY <2>1 DEF Segments, InitialChunk
    <3>3. Owned(segs, blocks)
      BY <3>1, <3>2 DEF Owned
    <3>4. \A j \in 1 .. Len(segs) : j = k
      BY <1>6, <3>2
    <3> QED BY <3>3, <3>4 DEF HeadersIntactBut
  <2>2. CASE heap_chunks # <<>>
    BY <1>4, <2>2 DEF Segments, Intact, HeadersIntactBut
  <2> QED BY <2>1, <2>2
<1>8. n.addr = data /\ n.size = size /\ n.owner = own
  OBVIOUS
<1> HIDE DEF k, segs, n
<1>9. segs[k].addr \in Nat /\ segs[k].size \in Nat
  BY <1>5, <1>6, ChunkBounds
<1>10. \A x \in Span(data, size) : x \in Span(data, total - HEADER)
  BY <1>2, <1>3, <1>9 DEF Span
<1>11. MemTaken(segs[k], total, mem, w)
  BY <1>3, <1>5, <1>6, HeaderWrites
<1> HIDE DEF w
<1>12. \A x \in Bytes : x \notin Span(data, total - HEADER) => mem'[x] = w[x]
  BY <1>1, <1>10 DEF Fill
<1>13. MemTaken(segs[k], total, mem, mem') /\ BlocksIntact({n}, mem')
  <2>1. /\ MemTaken(segs[k], total, mem, mem')
        /\ Span(data, total - HEADER) \subseteq ChunkBytes(segs[k])
    BY <1>3, <1>5, <1>6, <1>11, <1>12, PayloadWrites
  <2>2. \A x \in Span(data, size) : x \in Bytes
    BY <1>5, <1>6, <1>10, <2>1, InsideChunk
  <2>3. \A x \in Span(data, size) : mem'[x] = own
    BY <1>1, <2>2 DEF Fill
  <2> QED BY <1>8, <2>1, <2>3 DEF BlocksIntact
<1>14. BlocksIntact(blocks, mem)
  BY <1>4 DEF Intact, BlocksIntact
<1>15. Intact(heap_chunks', blocks', mem')
  BY <1>1, <1>3, <1>4, <1>5, <1>6, <1>7, <1>13, <1>14, TakeKeepsData
<1> QED BY <1>15 DEF DataIntact

(* free() leaves everyone else's bytes as they are.                        *)
LEMMA FreeData ==
  ASSUME HeapInv, DataIntact, NEW b \in blocks, Free(b)
  PROVE  DataIntact'
<1> DEFINE k == ChunkAt(heap_chunks, b.addr)
<1>1. /\ blocks' = blocks \ {b}
      /\ heap_chunks' = FreeChunk(heap_chunks, k)
      /\ mem' = Fill(mem, Span(b.addr, heap_chunks[k].size - HEADER), Unused)
  BY DEF Free
<1>2. /\ heap_chunks \in Seq(Chunk) /\ Tiled(heap_chunks) /\ Ordered(heap_chunks)
      /\ Coalesced(heap_chunks) /\ Owned(heap_chunks, blocks)
      /\ \A c \in blocks : c.size \in Nat
      /\ Intact(heap_chunks, blocks, mem)
  BY DEF HeapInv, TypeOK, ChunksTileHeap, FullyCoalesced, BlocksAreChunks, DataIntact
<1>3. b.addr \in Nat
  BY HeapAssumption DEF HeapInv, TypeOK, Bytes
<1>4. k \in 1 .. Len(heap_chunks) /\ b.addr = heap_chunks[k].addr + HEADER
  BY <1>2, <1>3, ChunkAtFact
<1> HIDE DEF k
<1>5. \A x \in Bytes : x \notin Span(b.addr, heap_chunks[k].size - HEADER)
                         => mem'[x] = mem[x]
  BY <1>1 DEF Fill
<1>6. Intact(heap_chunks', blocks \ {b}, mem')
  BY <1>1, <1>2, <1>4, <1>5, FreeKeepsData
<1> QED BY <1>1, <1>6 DEF DataIntact

(* realloc() in place: the caller fills its own payload.                   *)
LEMMA ReallocInPlaceData ==
  ASSUME HeapInv, DataIntact, NEW b \in blocks, NEW size \in Requests, ReallocInPlace(b, size)
  PROVE  DataIntact'
<1> DEFINE s == heap_chunks
           k == ChunkAt(s, b.addr)
           n == [b EXCEPT !.size = size]
<1>1. /\ size # 0 /\ s[k].size - HEADER = RoundUp(size)
      /\ blocks' = (blocks \ {b}) \cup {n}
      /\ mem' = Fill(mem, Span(b.addr, size), b.owner)
      /\ heap_chunks' = s
  BY DEF ReallocInPlace
<1>2. /\ s \in Seq(Chunk) /\ Tiled(s) /\ Ordered(s) /\ Owned(s, blocks)
      /\ Intact(s, blocks, mem)
  BY DEF HeapInv, TypeOK, ChunksTileHeap, BlocksAreChunks, DataIntact
<1>3. b \in [addr : Bytes, size : Nat, owner : Owners] /\ size \in Nat
  BY RequestsAssumption DEF HeapInv, TypeOK
<1>4. b.addr \in Nat
  BY <1>3, HeapAssumption DEF Bytes
<1>5. k \in 1 .. Len(s) /\ b.addr = s[k].addr + HEADER
  BY <1>2, <1>4, ChunkAtFact
<1>6. n.addr = b.addr /\ n.size = size /\ n.owner = b.owner
  BY <1>3
<1> HIDE DEF k, n, s
<1>7. size <= s[k].size - HEADER
  BY <1>1, <1>3, RoundUpFact
<1>8. /\ Span(b.addr, size) \subseteq ChunkBytes(s[k])
      /\ ChunkBytes(s[k]) \subseteq Bytes
      /\ Span(b.addr, size) \cap Span(s[k].addr, HEADER) = {}
  BY <1>2, <1>3, <1>5, <1>7, InsideChunk
<1>9. \A x \in Bytes : mem'[x] = IF x \in Span(b.addr, size) THEN b.owner ELSE mem[x]
  BY <1>1 DEF Fill
<1>10. ASSUME NEW j \in 1 .. Len(s), j # k, NEW x \in ChunkBytes(s[j])
       PROVE  x \in Bytes /\ x \notin Span(b.addr, size)
  <2>1. x \in Bytes
    BY <1>2, InsideChunk
  <2>2. x \notin ChunkBytes(s[k])
    BY <1>2, <1>5, <1>10, ChunksApart
  <2> QED BY <1>8, <2>1, <2>2
<1>11. ASSUME NEW c \in blocks', NEW x \in Span(c.addr, c.size)
       PROVE  mem'[x] = c.owner
  <2>1. CASE c = n
    BY <1>6, <1>8, <1>9, <1>11, <2>1
  <2>2. CASE c \in blocks \ {b}
    <3>1. PICK j \in 1 .. Len(s) : c.addr = s[j].addr + HEADER /\ c.size <= s[j].size - HEADER
      BY <1>2, <2>2 DEF Owned
    <3>2. j # k /\ c.size \in Nat
      BY <1>2, <1>5, <2>2, <3>1 DEF Owned, HeapInv, TypeOK
    <3>3. x \in ChunkBytes(s[j])
      BY <1>2, <1>11, <3>1, <3>2, InsideChunk
    <3> QED BY <1>2, <1>9, <1>10, <1>11, <2>2, <3>2, <3>3 DEF Intact
  <2> QED BY <1>1, <2>1, <2>2
<1>12. ASSUME NEW j \in 1 .. Len(s), NEW x \in Span(s[j].addr, HEADER)
       PROVE  mem'[x] = HeaderByte
  <2>1. x \in ChunkBytes(s[j]) /\ x \in Bytes
    BY <1>2, <1>12, InsideChunk
  <2>2. x \notin Span(b.addr, size)
    <3>1. CASE j = k
      BY <1>8, <1>12, <3>1
    <3>2. CASE j # k
      BY <1>10, <2>1, <3>2
    <3> QED BY <3>1, <3>2
  <2> QED BY <1>2, <1>9, <1>12, <2>1, <2>2 DEF Intact
<1> QED BY <1>1, <1>11, <1>12 DEF DataIntact, Intact

(* realloc() that moves the block.  Seen from outside the old payload, the *)
(* new chunk is taken first (m2) and the old one freed then; inside the    *)
(* new payload the copy and the caller together cover every byte.          *)
LEMMA ReallocMoveData ==
  ASSUME HeapInv, DataIntact, NEW b \in blocks, NEW size \in Requests, ReallocMove(b, size)
  PROVE  DataIntact'
<1> DEFINE s     == heap_chunks
           o     == ChunkAt(s, b.addr)
           p     == s[o].size - HEADER
           total == RoundUp(RoundUp(size)) + HEADER
           i     == FindChunk(s, total)
           taken == TakeChunk(s, i, total)
           data  == s[i].addr + HEADER
           n     == [addr |-> data, size |-> size, owner |-> b.owner]
           j     == ChunkAt(taken, b.addr)
           copy  == CopySize(p, RoundUp(size))
           w     == WriteHeaders(mem, s[i], total)
           copied == [x \in Bytes |-> IF x \in Span(data, copy)
                                      THEN w[b.addr + (x - data)] ELSE w[x]]
           moved == {x - b.addr + data : x \in (b.addr + b.size) .. (b.addr + size - 1)}
<1>1. /\ size # 0 /\ i # 0
      /\ heap_chunks' = FreeChunk(taken, j)
      /\ blocks' = (blocks \ {b}) \cup {n}
      /\ mem' = Fill(Fill(copied, Span(b.addr, p), Unused), moved, b.owner)
  BY DEF ReallocMove
<1>2. /\ s \in Seq(Chunk) /\ Tiled(s) /\ Ordered(s)
      /\ Coalesced(s) /\ Owned(s, blocks) /\ Intact(s, blocks, mem)
      /\ \A c \in blocks : c.size \in Nat
  BY DEF HeapInv, TypeOK, ChunksTileHeap, FullyCoalesced, BlocksAreChunks, DataIntact
<1>3. b \in [addr : Bytes, size : Nat, owner : Owners] /\ size \in Nat
  BY RequestsAssumption DEF HeapInv, TypeOK
<1>4. b.addr \in Nat /\ b.size \in Nat
  BY <1>3, HeapAssumption DEF Bytes
<1>5. HEADER \in Nat /\ HEAP_SIZE \in Nat
  BY HeapAssumption
<1>6. /\ RoundUp(size) \in Nat /\ size <= RoundUp(size)
      /\ total \in Nat /\ total >= HEADER /\ RoundUp(size) <= total - HEADER
  <2>1. RoundUp(size) \in Nat /\ RoundUp(size) >= size
    BY <1>3, RoundUpFact
  <2>2. RoundUp(RoundUp(size)) \in Nat /\ RoundUp(RoundUp(size)) >= RoundUp(size)
    BY <2>1, RoundUpFact
  <2> QED BY <1>3, <1>5, <2>1, <2>2
<1> HIDE DEF total
<1>7. s # <<>>
  BY <1>2 DEF Owned
<1>8. i \in 1 .. Len(s) /\ ~s[i].allocated /\ s[i].size >= total
  BY <1>1, <1>2, <1>6, <1>7, FindChunkFact DEF Segments
<1> HIDE DEF i
<1>9. /\ o \in 1 .. Len(s) /\ s[o].allocated /\ b.addr = s[o].addr + HEADER
      /\ b.size <= s[o].size - HEADER
  BY <1>2, <1>4, ChunkAtFact
<1> HIDE DEF o
<1>10. /\ o # i /\ p \in Nat /\ b.size <= p
       /\ s[i].addr \in Nat /\ s[i].size \in Nat /\ data \in Nat
       /\ s[o].addr \in Nat /\ s[o].size \in Nat
  <2>1. /\ s[i].addr \in Nat /\ s[i].size \in Nat
        /\ s[o].addr \in Nat /\ s[o].size \in Nat /\ s[o].size >= HEADER
    BY <1>2, <1>8, <1>9, ChunkBounds
  <2>2. o # i
    BY <1>8, <1>9
  <2>3. p \in Nat /\ b.size <= p
    BY <1>5, <1>9, <2>1
  <2>4. data \in Nat
    BY <1>5, <2>1
  <2> QED BY <2>1, <2>2, <2>3, <2>4
<1>11. /\ n.addr = data /\ n.size = size /\ n.owner = b.owner
       /\ n.addr = s[i].addr + HEADER
  OBVIOUS
<1>12. /\ taken \in Seq(Chunk) /\ Tiled(taken) /\ Ordered(taken) /\ Coalesced(taken)
       /\ \A k \in 1 .. Len(s) : s[k].allocated => \E y \in 1 .. Len(taken) : taken[y] = s[k]
  <2>1. taken = TakeChunk(s, i, total)
    OBVIOUS
  <2> HIDE DEF taken, s
  <2> QED BY <1>2, <1>6, <1>8, <2>1, TakeFact
<1> HIDE DEF n
<1>13. Owned(taken, blocks \cup {n}) /\ n \notin blocks
  <2>1. n.size \in Nat /\ n.size <= total - HEADER
    BY <1>3, <1>5, <1>6, <1>11
  <2> QED BY <1>2, <1>6, <1>8, <1>11, <2>1, OwnedTake
<1>14. /\ b \in blocks \cup {n} /\ (blocks \cup {n}) \ {b} = blocks'
       /\ \A c \in blocks \cup {n} : c.size \in Nat
  BY <1>1, <1>2, <1>3, <1>11, <1>13
<1> HIDE DEF s
<1>15. /\ j \in 1 .. Len(taken) /\ b.addr = taken[j].addr + HEADER
       /\ taken[j].size = s[o].size
  <2> HIDE DEF taken
  <2>1. j \in 1 .. Len(taken) /\ b.addr = taken[j].addr + HEADER
    BY <1>4, <1>12, <1>13, <1>14, ChunkAtFact
  <2>2. PICK y \in 1 .. Len(taken) : taken[y] = s[o]
    BY <1>9, <1>12
  <2> HIDE DEF j
  <2>3. taken[j].addr = taken[y].addr
    <3>1. taken[j].addr \in Nat /\ taken[y].addr \in Nat
      BY <1>12, <2>1, ChunkBounds
    <3> QED BY <1>5, <1>9, <2>1, <2>2, <3>1
  <2>4. j = y
    BY <1>12, <2>1, <2>3, ChunkBounds
  <2> QED BY <2>1, <2>2, <2>4
<1> HIDE DEF j
<1>16. MemTaken(s[i], total, mem, w)
  BY <1>2, <1>6, <1>8, HeaderWrites
<1> HIDE DEF w
<1>17. /\ copy \in Nat /\ copy <= total - HEADER /\ copy <= p
       /\ b.size < copy \/ b.size = copy \/ size <= copy
  BY <1>3, <1>4, <1>5, <1>6, <1>10 DEF CopySize
<1> HIDE DEF copy, data, p
<1>18. /\ Span(data, copy) \subseteq Span(data, total - HEADER)
       /\ Span(data, size) \subseteq Span(data, total - HEADER)
  BY <1>3, <1>5, <1>6, <1>10, <1>17 DEF Span
<1>19. moved = (data + b.size) .. (data + size - 1)
  <2>1. ASSUME NEW x \in (data + b.size) .. (data + size - 1) PROVE x \in moved
    <3>1. x - data + b.addr \in (b.addr + b.size) .. (b.addr + size - 1)
      BY <1>3, <1>4, <1>10
    <3>2. x = (x - data + b.addr) - b.addr + data
      BY <1>3, <1>4, <1>10
    <3> QED BY <3>1, <3>2
  <2>2. ASSUME NEW x \in (b.addr + b.size) .. (b.addr + size - 1)
        PROVE  x - b.addr + data \in (data + b.size) .. (data + size - 1)
    BY <1>3, <1>4, <1>10
  <2> QED BY <2>1, <2>2
<1>20. moved \subseteq Span(data, size)
  BY <1>3, <1>4, <1>10, <1>19 DEF Span
<1> HIDE DEF moved
<1>21. /\ Span(b.addr, p) \subseteq ChunkBytes(s[o])
       /\ ChunkBytes(s[o]) \subseteq Bytes /\ ChunkBytes(s[i]) \subseteq Bytes
       /\ ChunkBytes(s[o]) \cap ChunkBytes(s[i]) = {}
  <2>1. ChunkBytes(s[o]) \subseteq Bytes /\ ChunkBytes(s[i]) \subseteq Bytes
    BY <1>2, <1>8, <1>9, InsideChunk
  <2>2. p <= s[o].size - HEADER
    BY <1>5, <1>10 DEF p
  <2>3. Span(b.addr, p) \subseteq ChunkBytes(s[o])
    BY <1>2, <1>9, <1>10, <2>2, InsideChunk
  <2>4. ChunkBytes(s[o]) \cap ChunkBytes(s[i]) = {}
    BY <1>2, <1>8, <1>9, <1>10, ChunksApart
  <2> QED BY <2>1, <2>3, <2>4
<1> DEFINE m2 == [x \in Bytes |-> IF x \in Span(b.addr, p) THEN mem[x]
                                  ELSE IF x \in moved THEN b.owner ELSE copied[x]]
<1>22. \A x \in Bytes : x \notin Span(b.addr, p) => mem'[x] = m2[x]
  <2> HIDE DEF copied
  <2> QED BY <1>1 DEF Fill
<1>23. \A x \in Bytes : x \notin Span(data, total - HEADER) => m2[x] = w[x]
  <2>1. ASSUME NEW x \in Bytes, x \in Span(b.addr, p) PROVE mem[x] = w[x]
    BY <1>16, <1>21, <2>1 DEF MemTaken
  <2>2. ASSUME NEW x \in Bytes, x \notin Span(data, total - HEADER)
        PROVE  copied[x] = w[x] /\ x \notin moved
    BY <1>18, <1>20, <2>2
  <2> HIDE DEF copied
  <2> QED BY <2>1, <2>2
<1>24. /\ MemTaken(s[i], total, mem, m2)
       /\ Span(data, total - HEADER) \subseteq ChunkBytes(s[i])
  <2> HIDE DEF m2
  <2> QED BY <1>2, <1>6, <1>8, <1>16, <1>23, PayloadWrites DEF data
<1>25. ASSUME NEW x \in Span(data, size) PROVE m2[x] = b.owner
  <2>1. x \in Bytes /\ x \notin Span(b.addr, p)
    BY <1>18, <1>21, <1>24
  <2>2. CASE x \in moved
    BY <2>1, <2>2
  <2>3. CASE x \notin moved
    <3> DEFINE y == b.addr + (x - data)
    <3>1. /\ x \in Int /\ data <= x /\ x <= data + size - 1
          /\ x \in Span(data, copy) /\ y \in Span(b.addr, b.size) /\ y \in Span(b.addr, p)
      BY <1>3, <1>4, <1>10, <1>17, <1>19, <1>25, <2>3, SMTT(30) DEF Span
    <3>2. m2[x] = w[y]
      BY <2>1, <2>3, <3>1
    <3>3. y \in Bytes /\ w[y] = mem[y]
      BY <1>16, <1>21, <3>1 DEF MemTaken
    <3>4. mem[y] = b.owner
      BY <1>2, <3>1 DEF Intact
    <3> QED BY <3>2, <3>3, <3>4
  <2> QED BY <2>2, <2>3
<1> HIDE DEF m2, copied
<1>26. Intact(taken, blocks \cup {n}, m2)
  <2>1. BlocksIntact({n}, m2)
    BY <1>11, <1>25 DEF BlocksIntact
  <2>2. BlocksIntact(blocks, mem) /\ HeadersIntactBut(s, i, mem)
    BY <1>2 DEF Intact, BlocksIntact, HeadersIntactBut
  <2> QED BY <1>2, <1>6, <1>8, <1>24, <2>1, <2>2, TakeKeepsData
<1>27. Intact(heap_chunks', (blocks \cup {n}) \ {b}, mem')
  <2>1. \A x \in Bytes : x \notin Span(b.addr, taken[j].size - HEADER) => mem'[x] = m2[x]
    BY <1>15, <1>22 DEF p
  <2> HIDE DEF taken
  <2> QED BY <1>1, <1>12, <1>13, <1>14, <1>15, <1>26, <2>1, FreeKeepsData
<1> QED BY <1>14, <1>27 DEF DataIntact

-----------------------------------------------------------------------------
(***************************************************************************)
(* The theorems.                                                           *)
(***************************************************************************)

(* What a caller stored in its block is what it reads back, whatever the   *)
(* other callers of malloc(), realloc() and free() do in between, and no   *)
(* chunk header is overwritten: for every heap, header, alignment and      *)
(* request size.                                                           *)
THEOREM HeapDataIntact == Spec => []DataIntact
<1>1. Init => DataIntact
  BY DEF Init, DataIntact, Intact
<1>2. HeapInv /\ DataIntact /\ [Next]_vars => DataIntact'
  <2> SUFFICES ASSUME HeapInv, DataIntact, [Next]_vars PROVE DataIntact'
    OBVIOUS
  <2>1. ASSUME NEW what, InternalError(what) PROVE DataIntact'
    BY <2>1 DEF InternalError, DataIntact
  <2>2. ASSUME NEW size \in Requests, MallocZero(size) PROVE DataIntact'
    BY <2>1, <2>2 DEF MallocZero
  <2>3. ASSUME NEW size \in Requests, MallocExhausted(size) PROVE DataIntact'
    BY <2>1, <2>3 DEF MallocExhausted
  <2>4. ASSUME NEW size \in Requests, NEW own \in Owners, Malloc(size, own)
        PROVE  DataIntact'
    BY <2>4, MallocData
  <2>5. ASSUME NEW b \in blocks, Free(b) PROVE DataIntact'
    BY <2>5, FreeData
  <2>6. ASSUME NEW b \in blocks, NEW size \in Requests, ReallocInPlace(b, size)
        PROVE  DataIntact'
    BY <2>6, ReallocInPlaceData
  <2>7. ASSUME NEW b \in blocks, NEW size \in Requests, ReallocMove(b, size)
        PROVE  DataIntact'
    BY <2>7, ReallocMoveData
  <2>8. ASSUME NEW b \in blocks, NEW size \in Requests, ReallocExhausted(b, size)
        PROVE  DataIntact'
    BY <2>3, <2>8 DEF ReallocExhausted
  <2>9. ASSUME NEW i \in 1 .. Len(heap_chunks), FreeTwice(i) PROVE DataIntact'
    BY <2>1, <2>9 DEF FreeTwice
  <2>10. CASE UNCHANGED vars
    BY <2>10 DEF vars, DataIntact
  <2> QED BY <2>2, <2>3, <2>4, <2>5, <2>6, <2>7, <2>8, <2>9, <2>10 DEF Next
<1> QED BY <1>1, <1>2, HeapInvariant, PTL DEF Spec

(* When malloc() reports an exhausted heap, no run of bytes outside the    *)
(* allocated chunks is as long as the chunk it looked for: first fit over  *)
(* a list that free() keeps coalesced never hides memory.                  *)
THEOREM HeapNoFalseExhaustion == Spec => []NoFalseExhaustion
<1>1. Init => NoFalseExhaustion
  BY DEF Init, NoFalseExhaustion
<1>2. HeapInv /\ NoFalseExhaustion /\ [Next]_vars => NoFalseExhaustion'
  <2> SUFFICES ASSUME HeapInv, NoFalseExhaustion, [Next]_vars PROVE NoFalseExhaustion'
    OBVIOUS
  <2>1. ASSUME NEW size \in Requests, MallocExhausted(size) PROVE NoFalseExhaustion'
    BY <2>1, ExhaustedStep
  <2>2. ASSUME status' # "exhausted" PROVE NoFalseExhaustion'
    BY <2>2 DEF NoFalseExhaustion
  <2>3. ASSUME NEW size \in Requests, MallocZero(size) PROVE NoFalseExhaustion'
    BY <2>2, <2>3 DEF MallocZero, InternalError
  <2>4. ASSUME NEW size \in Requests, NEW own \in Owners, Malloc(size, own)
        PROVE  NoFalseExhaustion'
    <3>1. status' = "ok"
      BY <2>4 DEF Malloc
    <3> QED BY <2>2, <3>1
  <2>5. ASSUME NEW b \in blocks, Free(b) PROVE NoFalseExhaustion'
    <3>1. status' \in {"ok", "assertion"}
      BY <2>5 DEF Free
    <3> QED BY <2>2, <3>1
  <2>6. ASSUME NEW b \in blocks, NEW size \in Requests, ReallocInPlace(b, size)
        PROVE  NoFalseExhaustion'
    <3>1. status' = "ok"
      BY <2>6 DEF ReallocInPlace
    <3> QED BY <2>2, <3>1
  <2>7. ASSUME NEW b \in blocks, NEW size \in Requests, ReallocMove(b, size)
        PROVE  NoFalseExhaustion'
    <3>1. status' \in {"ok", "assertion"}
      BY <2>7 DEF ReallocMove
    <3> QED BY <2>2, <3>1
  <2>8. ASSUME NEW b \in blocks, NEW size \in Requests, ReallocExhausted(b, size)
        PROVE  NoFalseExhaustion'
    BY <2>1, <2>8 DEF ReallocExhausted
  <2>9. ASSUME NEW i \in 1 .. Len(heap_chunks), FreeTwice(i) PROVE NoFalseExhaustion'
    BY <2>2, <2>9 DEF FreeTwice, InternalError
  <2>10. CASE UNCHANGED vars
    BY <2>10 DEF vars, NoFalseExhaustion
  <2> QED BY <2>1, <2>3, <2>4, <2>5, <2>6, <2>7, <2>8, <2>9, <2>10 DEF Next
<1> QED BY <1>1, <1>2, HeapInvariant, PTL DEF Spec
=============================================================================
