--------------------------- MODULE CircularBuffer ---------------------------
(***************************************************************************)
(* CircularBuffer (src/network/include/network/buffer.h): what its methods *)
(* compute from the read position r and the write position w.  One slot    *)
(* stays empty, so r = w means that the ring is empty.                     *)
(*                                                                         *)
(* A BufferSequence is [pos, len, len2]: buffers[0] has len bytes from     *)
(* position pos on, and buffers[1] has len2 bytes from position 0 on, if   *)
(* len2 > 0.                                                               *)
(***************************************************************************)
EXTENDS Integers, Sequences

CONSTANT Size   \* maxSize_, which InitCapacity and the constructor round up
                \* to a power of 2

ASSUME SizeAssumption == Size \in Nat /\ Size >= 2

Position == 0..(Size - 1)

\* x & (maxSize_ - 1), for the sums and differences of two positions.
Mask(x) == IF x < 0 THEN x + Size ELSE IF x >= Size THEN x - Size ELSE x

ReadableSize(r, w) == Mask(w - r)

WriteableSize(r, w) == Size - ReadableSize(r, w) - 1

Buffers(pos, len, len2) == [pos |-> pos, len |-> len, len2 |-> len2]

TotalBytes(b) == b.len + b.len2

\* The position of byte k of a BufferSequence, counted from 0.
BytePos(b, k) == IF k < b.len THEN b.pos + k ELSE k - b.len

\* Which byte of a BufferSequence is at position p; TotalBytes(b) for none.
ByteAt(b, p) ==
  IF b.pos <= p /\ p < b.pos + b.len THEN p - b.pos
  ELSE IF p < b.len2 THEN b.len + p
  ELSE TotalBytes(b)

Smaller(a, b) == IF a < b THEN a ELSE b

\* Mutant: the slot that must stay empty is handed out.
GetSpaceAll(r, w) ==
  IF r > w THEN Buffers(w, r - w, 0) ELSE Buffers(w, Size - w, r)

\* The space GetSpace returns once WriteableSize() has been found sufficient.
GetSpace(r, w) ==
  IF r > w      THEN Buffers(w, r - w - 1, 0)
  ELSE IF r = 0 THEN Buffers(w, Size - w - 1, 0)
  ELSE               Buffers(w, Size - w, r - 1)

\* Mutant: maxSize is ignored.
GetDatumUncut(r, w, maxSize) ==
  IF r < w THEN Buffers(r, w - r, 0) ELSE Buffers(r, Size - r, w)

\* At most maxSize bytes that can be read, for r # w.
GetDatum(r, w, maxSize) ==
  IF r < w THEN Buffers(r, Smaller(maxSize, w - r), 0)
  ELSE LET len == Smaller(maxSize, Size - r)
       IN Buffers(r, len, Smaller(maxSize - len, w))

\* The ring after PushDataAt has copied data to the write position.
PushDataAt(ring, w, data) ==
  [p \in Position |-> IF Mask(p - w) < Len(data) THEN data[Mask(p - w) + 1]
                      ELSE ring[p]]

AdjustPtr(pos, n) == Mask(pos + n)
=============================================================================
