-------------------------------- MODULE Heap --------------------------------
(***************************************************************************)
(* The loader's fixed-size heap: malloc(), realloc() and free() of         *)
(* source/memory.c.                                                        *)
(*                                                                         *)
(* The heap is one static array.  It is cut into chunks, each with a       *)
(* header in front of its data, kept in a list (heap_chunks) that the code *)
(* walks from the front for the first chunk that fits.  An address is an   *)
(* offset into the array, so a pointer returned to a caller is the address *)
(* of the chunk plus HEADER.                                               *)
(*                                                                         *)
(* The module also keeps what the callers hold (blocks) and what is stored *)
(* in the array (mem), so that "the memory a caller was given stays its    *)
(* own" can be stated of the bytes themselves.                             *)
(***************************************************************************)
EXTENDS Integers, Sequences, FiniteSets, SequencesExt

CONSTANTS
  HEAP_SIZE,   \* bytes in the heap array (131072 in the code)
  HEADER,      \* sizeof(heap_chunk_t)
  ALIGN,       \* allocation granularity (8 in the code)
  Requests,    \* the sizes callers ask for
  Owners       \* what callers store in their blocks

ASSUME HeapAssumption ==
  /\ ALIGN \in Nat \ {0}
  /\ HEADER \in Nat \ {0} /\ HEADER % ALIGN = 0
  /\ HEAP_SIZE \in Nat /\ HEAP_SIZE % ALIGN = 0
  /\ HEADER < HEAP_SIZE


VARIABLES
  heap_chunks,   \* the chunk list, in list order
  blocks,        \* the live blocks: [addr, size, owner], size as requested
  mem,           \* contents of the heap array
  status,        \* "ok", or the error that stopped the loader
  want           \* the chunk size the failed malloc() looked for

vars == <<heap_chunks, blocks, mem, status, want>>

Chunk == [addr : Nat, size : Nat, allocated : BOOLEAN]
Bytes == 0 .. HEAP_SIZE - 1

\* What a byte of the array holds when it is not a caller's data.
HeaderByte == "header"
Unused == "unused"

(* The half-open byte range [from, from + n). *)
Span(from, n) == from .. (from + n - 1)

(* round_up(val, ALIGN). *)
RoundUp(val) ==
  IF val % ALIGN # 0 THEN (val - (val % ALIGN)) + ALIGN ELSE val

(* No request is larger than the heap itself: malloc() does not look at the *)
(* size of the initial segment.                                            *)
ASSUME RequestsAssumption ==
  \A r \in Requests : r \in Nat /\ RoundUp(r) + HEADER <= HEAP_SIZE

Fill(m, range, value) == [x \in Bytes |-> IF x \in range THEN value ELSE m[x]]

-----------------------------------------------------------------------------
(***************************************************************************)
(* malloc(): the pieces of the function as operators on the chunk list.    *)
(***************************************************************************)

(* The free segment malloc() creates when the list is still empty. *)
InitialChunk == [addr |-> 0, size |-> HEAP_SIZE, allocated |-> FALSE]

Segments(chunks) == IF chunks = <<>> THEN <<InitialChunk>> ELSE chunks

(* Position of the chunk malloc() uses, 0 if it finds none.  On an empty   *)
(* list the initial segment is used without a look at its size.            *)
FindAnyChunkMutant(chunks, total) ==
  IF chunks = <<>> THEN 1 ELSE SelectInSeq(chunks, LAMBDA c : c.size >= total)
FindChunk(chunks, total) ==
  IF chunks = <<>>
  THEN 1
  ELSE SelectInSeq(chunks, LAMBDA c : ~c.allocated /\ c.size >= total)

(* Must the chunk be split?  There must be room for a second header.       *)
SplitsNoHeaderMutant(chunk, total) == chunk.size > total
Splits(chunk, total) == chunk.size >= total + HEADER

(* Resize chunk i if it is too big, and mark it allocated.                 *)
TakeChunk(chunks, i, total) ==
  LET chunk == chunks[i] IN
  IF Splits(chunk, total)
  THEN InsertAt(
         ReplaceAt(chunks, i,
           [addr |-> chunk.addr, size |-> total, allocated |-> TRUE]),
         i + 1,
         [addr |-> chunk.addr + total, size |-> chunk.size - total,
          allocated |-> FALSE])
  ELSE ReplaceAt(chunks, i, [chunk EXCEPT !.allocated = TRUE])

(* The header bytes malloc() writes: the chunk's own and, after a split,   *)
(* that of the new free chunk.                                             *)
WriteHeaders(m, chunk, total) ==
  LET own == Span(chunk.addr, HEADER)
      new == IF Splits(chunk, total) THEN Span(chunk.addr + total, HEADER) ELSE {}
  IN  Fill(m, own \cup new, HeaderByte)

(***************************************************************************)
(* free(): the chunk swallows a free successor, then is swallowed by a     *)
(* free predecessor.                                                       *)
(***************************************************************************)

MergeNext(chunks, i) ==
  IF i # Len(chunks) /\ ~chunks[i + 1].allocated
  THEN RemoveAt(
         ReplaceAt(chunks, i, [chunks[i] EXCEPT !.size = @ + chunks[i + 1].size]),
         i + 1)
  ELSE chunks

MergePrevMutant(chunks, i) == chunks
MergePrev(chunks, i) ==
  IF i # 1 /\ ~chunks[i - 1].allocated
  THEN RemoveAt(
         ReplaceAt(chunks, i - 1,
           [chunks[i - 1] EXCEPT !.size = @ + chunks[i].size]),
         i)
  ELSE chunks

FreeChunk(chunks, i) ==
  LET freed == ReplaceAt(chunks, i, [chunks[i] EXCEPT !.allocated = FALSE])
  IN  MergePrev(MergeNext(freed, i), i)

(* The two assertions of free(): a chunk that is merged lies directly      *)
(* against its neighbour.                                                  *)
MergeAsserts(chunks, i) ==
  LET merged == MergeNext(chunks, i) IN
  /\ (i # Len(chunks) /\ ~chunks[i + 1].allocated) =>
       chunks[i + 1].addr = chunks[i].addr + chunks[i].size
  /\ (i # 1 /\ ~chunks[i - 1].allocated) =>
       merged[i].addr = chunks[i - 1].addr + chunks[i - 1].size

(* The chunk a data pointer belongs to: the header is right in front of it. *)
ChunkAt(chunks, addr) ==
  SelectInSeq(chunks, LAMBDA c : c.addr = addr - HEADER)

-----------------------------------------------------------------------------
(***************************************************************************)
(* The operations.                                                         *)
(***************************************************************************)

(* internal_error(): the loader stops. *)
InternalError(what) ==
  /\ status' = what
  /\ UNCHANGED <<heap_chunks, blocks, mem>>

(* A request of zero bytes is an internal error. *)
MallocZero(size) ==
  /\ status = "ok"
  /\ size = 0
  /\ InternalError("zero_sized")
  /\ UNCHANGED want

(* No free chunk is large enough. *)
MallocExhausted(size) ==
  /\ status = "ok"
  /\ size # 0
  /\ want' = RoundUp(size) + HEADER
  /\ FindChunk(heap_chunks, want') = 0
  /\ InternalError("exhausted")

(* malloc(size) succeeds and its caller stores own in the block. *)
Malloc(size, own) ==
  LET total == RoundUp(size) + HEADER
      i     == FindChunk(heap_chunks, total)
      segs  == Segments(heap_chunks)
      data  == segs[i].addr + HEADER
  IN
  /\ status = "ok"
  /\ size # 0
  /\ i # 0
  /\ heap_chunks' = TakeChunk(segs, i, total)
  /\ blocks' = blocks \cup {[addr |-> data, size |-> size, owner |-> own]}
  /\ mem' = Fill(WriteHeaders(mem, segs[i], total), Span(data, size), own)
  /\ UNCHANGED <<status, want>>

(* free() of a live block gives it back.  free(NULL) does nothing. *)
Free(b) ==
  LET i     == ChunkAt(heap_chunks, b.addr)
      freed == ReplaceAt(heap_chunks, i, [heap_chunks[i] EXCEPT !.allocated = FALSE])
  IN
  /\ status = "ok"
  /\ blocks' = blocks \ {b}
  /\ heap_chunks' = FreeChunk(heap_chunks, i)
  /\ status' = IF MergeAsserts(freed, i) THEN "ok" ELSE "assertion"
  /\ mem' = Fill(mem, Span(b.addr, heap_chunks[i].size - HEADER), Unused)
  /\ UNCHANGED want

(* free() of a pointer whose chunk is already free. *)
FreeTwice(i) ==
  /\ status = "ok"
  /\ ~heap_chunks[i].allocated
  /\ InternalError("double_free")
  /\ UNCHANGED want

(* realloc(b, size) when the rounded size is what the chunk already has. *)
ReallocInPlace(b, size) ==
  LET chunk == heap_chunks[ChunkAt(heap_chunks, b.addr)] IN
  /\ status = "ok"
  /\ size # 0
  /\ chunk.size - HEADER = RoundUp(size)
  /\ blocks' = (blocks \ {b}) \cup {[b EXCEPT !.size = size]}
  /\ mem' = Fill(mem, Span(b.addr, size), b.owner)
  /\ UNCHANGED <<heap_chunks, status, want>>

(* The bytes realloc() copies: the smaller of the two payloads. *)
CopySizeMutant(old, new) == IF old < new THEN old - ALIGN ELSE new
CopySize(old, new) == IF old < new THEN old ELSE new

(* realloc(b, size) otherwise: allocate, copy what fits, free the old      *)
(* block.  The caller then stores its owner value in what is new; kept is  *)
(* what it relies on realloc() having copied.                              *)
ReallocMove(b, size) ==
  LET old   == heap_chunks[ChunkAt(heap_chunks, b.addr)]
      total == RoundUp(RoundUp(size)) + HEADER
      i     == FindChunk(heap_chunks, total)
      data  == heap_chunks[i].addr + HEADER
      taken == TakeChunk(heap_chunks, i, total)
      copy  == CopySize(old.size - HEADER, RoundUp(size))
      headers == WriteHeaders(mem, heap_chunks[i], total)
      copied == [x \in Bytes |-> IF x \in Span(data, copy)
                                 THEN headers[b.addr + (x - data)]
                                 ELSE headers[x]]
      j     == ChunkAt(taken, b.addr)
      freed == ReplaceAt(taken, j, [taken[j] EXCEPT !.allocated = FALSE])
  IN
  /\ status = "ok"
  /\ size # 0
  /\ old.size - HEADER # RoundUp(size)
  /\ i # 0
  /\ heap_chunks' = FreeChunk(taken, j)
  /\ status' = IF MergeAsserts(freed, j) THEN "ok" ELSE "assertion"
  /\ blocks' = (blocks \ {b}) \cup {[addr |-> data, size |-> size, owner |-> b.owner]}
  /\ mem' = LET grown == (b.addr + b.size) .. (b.addr + size - 1)
                moved == {x - b.addr + data : x \in grown}
            IN  Fill(Fill(copied, Span(b.addr, old.size - HEADER), Unused), moved, b.owner)
  /\ UNCHANGED want

(* ... and the old block is still allocated when the new one is not found. *)
ReallocExhausted(b, size) ==
  /\ heap_chunks[ChunkAt(heap_chunks, b.addr)].size - HEADER # RoundUp(size)
  /\ MallocExhausted(size)

-----------------------------------------------------------------------------
Init ==
  /\ heap_chunks = <<>>
  /\ blocks = {}
  /\ mem = [x \in Bytes |-> Unused]
  /\ status = "ok"
  /\ want = 0

Next ==
  \/ \E size \in Requests :     \* also realloc(NULL, size)
       \/ MallocZero(size)
       \/ MallocExhausted(size)
       \/ \E own \in Owners : Malloc(size, own)
  \/ \E b \in blocks :
       \/ Free(b)     \* also realloc(b, 0)
       \/ \E size \in Requests :
            \/ ReallocInPlace(b, size)
            \/ ReallocMove(b, size)
            \/ ReallocExhausted(b, size)
  \/ \E i \in 1 .. Len(heap_chunks) : FreeTwice(i)

Spec == Init /\ [][Next]_vars

-----------------------------------------------------------------------------
(***************************************************************************)
(* Properties.                                                             *)
(***************************************************************************)

(* Every chunk the list holds is a chunk record, and every live block and  *)
(* every byte has its type.                                                *)
TypeOK ==
  /\ heap_chunks \in Seq(Chunk)
  /\ blocks \subseteq [addr : Bytes, size : Nat, owner : Owners]
  /\ mem \in [Bytes -> Owners \cup {HeaderByte, Unused}]
  /\ status \in {"ok", "zero_sized", "exhausted", "double_free", "assertion"}
  /\ want \in Nat

(* The chunks, in list order, cover the heap array from its first byte to  *)
(* its last without gap or overlap, and each has room for its header:      *)
(* splitting in malloc() and merging in free() neither lose nor invent     *)
(* memory.                                                                 *)
Tiled(chunks) ==
  chunks # <<>> =>
    /\ chunks[1].addr = 0
    /\ \A i \in 1 .. Len(chunks) :
         /\ chunks[i].size >= HEADER
         /\ chunks[i].addr + chunks[i].size =
              IF i = Len(chunks) THEN HEAP_SIZE ELSE chunks[i + 1].addr

ChunksTileHeap == Tiled(heap_chunks)

(* The chunks are in address order (Tiled says so of neighbours only).     *)
Ordered(chunks) ==
  \A i, j \in 1 .. Len(chunks) :
    i < j => chunks[i].addr + chunks[i].size <= chunks[j].addr

(* Two neighbouring chunks are never both free: free() merges to both      *)
(* sides, and malloc() only splits a free chunk whose successor is in use. *)
Coalesced(chunks) ==
  \A i \in 1 .. Len(chunks) - 1 : chunks[i].allocated \/ chunks[i + 1].allocated

FullyCoalesced == Coalesced(heap_chunks)

(* The blocks callers hold and the allocated chunks are in one-to-one      *)
(* correspondence, and a chunk's payload has room for what was asked: no   *)
(* call sequence of malloc, realloc and free leaks a chunk, hands one out  *)
(* twice or hands out one that is too small.                               *)
Owned(chunks, held) ==
  /\ \A b \in held : \E i \in 1 .. Len(chunks) :
       /\ chunks[i].allocated
       /\ b.addr = chunks[i].addr + HEADER
       /\ b.size <= chunks[i].size - HEADER
  /\ \A i \in 1 .. Len(chunks) :
       chunks[i].allocated => \E b \in held : b.addr = chunks[i].addr + HEADER
  /\ \A b1, b2 \in held : b1.addr = b2.addr => b1 = b2

BlocksAreChunks == Owned(heap_chunks, blocks)

(* Every block in held has its owner's bytes, and every chunk its header.  *)
Intact(chunks, held, m) ==
  /\ \A b \in held : \A x \in Span(b.addr, b.size) : m[x] = b.owner
  /\ \A i \in 1 .. Len(chunks) : \A x \in Span(chunks[i].addr, HEADER) : m[x] = HeaderByte

(* A caller's bytes hold what it stored, through every later malloc(),     *)
(* free() and realloc() of any caller, and every chunk's header is intact: *)
(* no block overlaps another or a header, and realloc() copies all of the  *)
(* old contents that fit.                                                  *)
DataIntact == Intact(heap_chunks, blocks, mem)

(* malloc() reports an exhausted heap only when no run of bytes outside    *)
(* the allocated chunks could hold the chunk it wants: a fragmented free   *)
(* list never hides memory.                                                *)
NoFalseExhaustion ==
  status = "exhausted" =>
    \A x \in 0 .. HEAP_SIZE - want :
      \E i \in 1 .. Len(heap_chunks) :
        LET c == heap_chunks[i] IN
        /\ c.allocated
        /\ Span(c.addr, c.size) \cap Span(x, want) # {}

(* The assertions in free() hold: a chunk is only merged with one that     *)
(* lies directly against it.                                               *)
AssertsHold == status # "assertion"

(* The inductive invariant of the proofs: the list is well formed and in   *)
(* address order, and the callers own exactly its allocated chunks.        *)
HeapInv ==
  /\ TypeOK
  /\ ChunksTileHeap
  /\ Ordered(heap_chunks)
  /\ FullyCoalesced
  /\ BlocksAreChunks
  /\ AssertsHold
=============================================================================
