---------------------------- MODULE Decompress ------------------------------
(***************************************************************************)
(* Transparent decompression of gzip files: source/fs/decompress.c.        *)
(*                                                                         *)
(* There is one decompressor with one input and one output buffer for all  *)
(* handles.  Its state is a record, and the code that works on it is given *)
(* as operators from one state to the next, since a read of a file on a    *)
(* compressed disk image enters decompress_read() from within              *)
(* decompress_read() or decompress_open().                                 *)
(*                                                                         *)
(* A gzip file is a header (GZIP_HEADER bytes, the magic number in the     *)
(* first), the payload and a trailer.  What the bytes are is abstracted to *)
(* where they come from.                                                   *)
(***************************************************************************)
EXTENDS Integers, Sequences, FiniteSetsExt, SequencesExt

CONSTANTS
  PAYLOAD_BUFFER_SIZE, DICT_BUFFER_SIZE,
  GZIP_HEADER,    \* length of a gzip header
  Stream,         \* gzip file -> output there is after each byte of its payload
  Ahead,          \* gzip file -> bytes taken in past each byte of its payload when output stops there
  Image           \* file on a compressed disk image -> [file, base]: the image, and where in it

NONE == "none"
JUNK == <<"junk", NONE, 0>>

IsGzip(f) == f \in DOMAIN Stream
PayloadSize(f) == Len(Stream[f])
OutSize(f) == Last(Stream[f])
OutputAfter(f, n) == IF n = 0 THEN 0 ELSE Stream[f][n]

(* Byte k of what file f decompresses to, and of the file itself. *)
OutByte(f, k) == <<"out", f, k>>
RawByte(f, k) ==
  IF f \in DOMAIN Image THEN OutByte(Image[f].file, Image[f].base + k) ELSE <<"raw", f, k>>

(* The decompressor: `file' is whose data it has been fed with, NONE if it *)
(* is fresh and "junk" if it was fed with other data.                      *)
TinflInit == [file |-> NONE, in |-> 0, out |-> 0]

InitState ==
  [current |-> 0, payload_offset |-> 0, dict_offset |-> 0, dict_avail |-> 0, output_offset |-> 0,
   tinfl |-> TinflInit,
   payload_buffer |-> [k \in 0 .. PAYLOAD_BUFFER_SIZE - 1 |-> JUNK],
   dict_buffer |-> [k \in 0 .. DICT_BUFFER_SIZE - 1 |-> JUNK]]

(* Overwrite a buffer from an index on. *)
Overwrite(buffer, start, bytes) ==
  [k \in DOMAIN buffer |->
     IF k - start \in 0 .. Len(bytes) - 1 THEN bytes[k - start + 1] ELSE buffer[k]]

-----------------------------------------------------------------------------
(***************************************************************************)
(* decompress_read().                                                      *)
(***************************************************************************)

(* Seek back to the beginning, if another handle was read or the offset    *)
(* has been passed.                                                        *)
Seek(z, h, offset) ==
  IF z.current # h \/ offset < z.output_offset
  THEN [z EXCEPT !.current = h, !.payload_offset = 0, !.dict_offset = 0, !.dict_avail = 0,
                 !.output_offset = 0, !.tinfl = TinflInit]
  ELSE z

(* Data left from the previous iteration or call: what is skipped of it    *)
(* and what is copied.                                                     *)
SkipSize(z, offset) == Min({z.dict_avail, offset - z.output_offset})
CopySize(z, count, offset) == Min({z.dict_avail - SkipSize(z, offset), count})

Copied(z, count, offset) ==
  [k \in 1 .. CopySize(z, count, offset) |->
     z.dict_buffer[z.dict_offset + SkipSize(z, offset) + k - 1]]

DeliverMutant(z, count, offset) ==
  LET used == SkipSize(z, offset) + CopySize(z, count, offset) IN
  [z EXCEPT !.dict_offset = @ + used,
            !.output_offset = @ + used,
            !.dict_avail = @ - used]
Deliver(z, count, offset) ==
  LET used == SkipSize(z, offset) + CopySize(z, count, offset) IN
  [z EXCEPT !.dict_offset = (@ + used) % DICT_BUFFER_SIZE,
            !.output_offset = @ + used,
            !.dict_avail = @ - used]

InSize(z, f) ==
  Min({PayloadSize(f) - z.payload_offset,
       PAYLOAD_BUFFER_SIZE - (z.payload_offset % PAYLOAD_BUFFER_SIZE)})
OutRoom(z) == DICT_BUFFER_SIZE - z.dict_offset

AtBoundary(z) == z.payload_offset % PAYLOAD_BUFFER_SIZE = 0

RawBytes(f, start, count) == [k \in 1 .. count |-> RawByte(f, start + k - 1)]

(* fs_read() of the source into the payload buffer. *)
Refill(z, f, in) ==
  [z EXCEPT !.payload_buffer = Overwrite(@, 0, RawBytes(f, GZIP_HEADER + z.payload_offset, in))]

(* tinfl_decompress(): it works if it goes on with the stream it was fed   *)
(* with so far, its input is the next part of that stream, and there is    *)
(* room for its output.                                                    *)
Fits(z, f, in, out) ==
  LET start == z.payload_offset % PAYLOAD_BUFFER_SIZE IN
  /\ z.tinfl.file \in {NONE, f}
  /\ start + in <= PAYLOAD_BUFFER_SIZE
  /\ \A k \in 0 .. in - 1 : z.payload_buffer[start + k] = RawByte(f, GZIP_HEADER + z.tinfl.in + k)
  /\ z.dict_offset + out <= DICT_BUFFER_SIZE

(* It stops when the output is full or the input used up.  The output is   *)
(* full at a byte of the stream that depends on how much came out before;  *)
(* but to know that a byte has no room the decompressor must decode it     *)
(* first, unless the block is a stored one, and it takes two or four bytes *)
(* at a time into its bit buffer: it is Ahead of that byte by some, though *)
(* never past the input it was given, and called again it goes on from     *)
(* there.                                                                  *)
Consumed(z, f, in, out) ==
  LET full == {n \in 0 .. z.tinfl.in + in : OutputAfter(f, n) >= z.tinfl.out + out}
      stop == Min(full)
      ahead == IF stop = 0 THEN 0 ELSE Ahead[f][stop]
  IN
  IF full = {} THEN in ELSE Min({in, Max({0, stop + ahead - z.tinfl.in})})
Produced(z, f, in, out) == Min({out, OutputAfter(f, z.tinfl.in + in) - z.tinfl.out})

Inflate(z, f, in, out) ==
  LET n == Consumed(z, f, in, out)
      m == Produced(z, f, in, out)
  IN
  IF Fits(z, f, in, out)
  THEN [z EXCEPT !.tinfl = [file |-> f, in |-> @.in + n, out |-> @.out + m],
                 !.dict_buffer = Overwrite(@, z.dict_offset,
                                           [k \in 1 .. m |-> OutByte(f, z.tinfl.out + k - 1)]),
                 !.payload_offset = @ + n,
                 !.dict_avail = m]
  ELSE [z EXCEPT !.tinfl.file = "junk",
                 !.dict_buffer = Overwrite(@, z.dict_offset, [k \in 1 .. out |-> JUNK]),
                 !.payload_offset = @ + in,
                 !.dict_avail = Min({out, DICT_BUFFER_SIZE - z.dict_offset})]

(***************************************************************************)
(* A whole decompress_read() of the disk image g, for a read of a file on  *)
(* it.  `into' says that the data goes to the payload buffer: the buffer   *)
(* decompress_open() and decompress_read() hand to fs_read() is the one    *)
(* the image is decompressed through.                                      *)
(***************************************************************************)
Iterate(r, i) ==
  LET g == r.image
      bytes == Copied(r.z, r.count, r.offset)
      z1 == Deliver(r.z, r.count, r.offset)
      z2 == IF r.into THEN [z1 EXCEPT !.payload_buffer = Overwrite(@, Len(r.bytes), bytes)] ELSE z1
      in == InSize(z2, g)
      z3 == IF AtBoundary(z2) THEN Refill(z2, g, in) ELSE z2
      left == r.count - Len(bytes)
  IN
  IF r.count = 0 THEN r
  ELSE [r EXCEPT !.z = IF left = 0 THEN z2 ELSE Inflate(z3, g, in, OutRoom(z2)),
                 !.count = left, !.offset = @ + Len(bytes), !.bytes = @ \o bytes]

ReadImage(z, h, g, count, offset, into) ==
  FoldLeft(Iterate,
           [image |-> g, into |-> into, z |-> Seek(z, h, offset), count |-> count, offset |-> offset, bytes |-> <<>>],
           [i \in 1 .. PayloadSize(g) + OutSize(g) |-> i])
=============================================================================
