-------------------------- MODULE RecvBufferProofs --------------------------
(***************************************************************************)
(* What TLAPS proves about RecvBuffer, for every size of the ring, every   *)
(* length of the stream and every Need.                                    *)
(***************************************************************************)
EXTENDS RecvBuffer, SequenceTheorems, TLAPS

\* A BufferSequence that starts at position p and wraps as the ring does.
Placed(b, p) ==
  /\ b.pos = p
  /\ b.len <= Size - p
  /\ b.len2 > 0 => b.len = Size - p

\* The inductive invariant: the ring holds the bytes from `consumed' to
\* `produced', and what a thread has read from the other one's position
\* remains a safe bound however far that position has moved since.
RingInv ==
  /\ TypeOK
  /\ produced - consumed = ReadableSize(readPos, writePos)
  /\ \A k \in Nat : k < produced - consumed => ring[Mask(readPos + k)] = consumed + k
  /\ receiver = "space" => WriteableSize(readPos, writePos) > 1
  /\ receiver = "readv" =>
       /\ space.len > 0
       /\ Placed(space, writePos)
       /\ TotalBytes(space) <= WriteableSize(readPos, writePos)
  /\ receiver = "adjust" =>
       /\ got >= 1 /\ got <= WriteableSize(readPos, writePos)
       /\ \A k \in Nat : k < got => ring[Mask(writePos + k)] = produced + k
  /\ parser = "size" => readPos # writePos
  /\ parser = "datum" => size >= 1 /\ size <= ReadableSize(readPos, writePos)
  /\ parser = "handle" =>
       /\ Placed(datum, readPos)
       /\ TotalBytes(datum) >= 1
       /\ TotalBytes(datum) <= ReadableSize(readPos, writePos)

(* Lemmas about the positions *)

\* Masking keeps a position in the ring.
LEMMA MaskType ==
  ASSUME NEW p \in Position, NEW k \in 0..Size
  PROVE  Mask(p + k) \in Position
BY SizeAssumption DEF Mask, Position

\* Bytes at different distances, less than a turn, from a position are at
\* different positions.
LEMMA MaskInjective ==
  ASSUME NEW p \in Position, NEW k \in 0..(Size - 1), NEW l \in 0..(Size - 1),
         Mask(p + k) = Mask(p + l)
  PROVE  k = l
BY SizeAssumption DEF Mask, Position

\* Byte k of a BufferSequence that is placed at p is k steps after p.
LEMMA PlacedPos ==
  ASSUME NEW p \in Position, NEW b \in [pos : Nat, len : Nat, len2 : Nat],
         Placed(b, p), NEW k \in 0..(TotalBytes(b) - 1),
         TotalBytes(b) <= Size - 1
  PROVE  BytePos(b, k) = Mask(p + k)
BY SizeAssumption DEF Placed, BytePos, TotalBytes, Mask, Position

\* What is readable and writeable fills the ring but for one slot.
LEMMA Sizes ==
  ASSUME NEW r \in Position, NEW w \in Position
  PROVE  /\ ReadableSize(r, w) \in 0..(Size - 1)
         /\ WriteableSize(r, w) \in 0..(Size - 1)
         /\ WriteableSize(r, w) = Size - 1 - ReadableSize(r, w)
         /\ Mask(r + ReadableSize(r, w)) = w
         /\ ReadableSize(r, w) = 0 <=> r = w
BY SizeAssumption DEF ReadableSize, WriteableSize, Mask, Position

\* The write position moves n bytes on.
LEMMA AdvanceWrite ==
  ASSUME NEW r \in Position, NEW w \in Position,
         NEW n \in 0..WriteableSize(r, w)
  PROVE  /\ AdjustPtr(w, n) \in Position
         /\ ReadableSize(r, AdjustPtr(w, n)) = ReadableSize(r, w) + n
BY SizeAssumption DEF ReadableSize, WriteableSize, Mask, Position, AdjustPtr

\* The read position moves n bytes on.
LEMMA AdvanceRead ==
  ASSUME NEW r \in Position, NEW w \in Position,
         NEW n \in 0..ReadableSize(r, w)
  PROVE  /\ AdjustPtr(r, n) \in Position
         /\ ReadableSize(AdjustPtr(r, n), w) = ReadableSize(r, w) - n
         /\ WriteableSize(AdjustPtr(r, n), w) = WriteableSize(r, w) + n
BY SizeAssumption DEF ReadableSize, WriteableSize, Mask, Position, AdjustPtr

\* Two moves of a position add up.
LEMMA MaskTwice ==
  ASSUME NEW p \in Position, NEW n \in 0..(Size - 1), NEW k \in 0..(Size - 1),
         n + k <= Size - 1
  PROVE  Mask(AdjustPtr(p, n) + k) = Mask(p + (n + k))
BY SizeAssumption DEF Mask, Position, AdjustPtr

\* GetSpace hands out space at the write position, and no more than is free.
LEMMA SpaceIsFree ==
  ASSUME NEW r \in Position, NEW w \in Position, WriteableSize(r, w) > 1
  PROVE  /\ GetSpace(r, w) \in [pos : Nat, len : Nat, len2 : Nat]
         /\ GetSpace(r, w).len > 0
         /\ Placed(GetSpace(r, w), w)
         /\ TotalBytes(GetSpace(r, w)) <= WriteableSize(r, w)
BY SizeAssumption
   DEF GetSpace, Buffers, Placed, TotalBytes, ReadableSize, WriteableSize, Mask, Position

\* GetDatum hands out exactly maxSize bytes when they are there, although it
\* reads the write position anew.
LEMMA DatumIsReadable ==
  ASSUME NEW r \in Position, NEW w \in Position,
         NEW maxSize \in 1..ReadableSize(r, w)
  PROVE  /\ GetDatum(r, w, maxSize) \in [pos : Nat, len : Nat, len2 : Nat]
         /\ Placed(GetDatum(r, w, maxSize), r)
         /\ TotalBytes(GetDatum(r, w, maxSize)) = maxSize
BY SizeAssumption
   DEF GetDatum, Smaller, Buffers, Placed, TotalBytes, ReadableSize, Mask, Position
-----------------------------------------------------------------------------
(* The invariant *)

\* The ring is empty and both threads are idle.
LEMMA RingInit == Init => RingInv
BY SizeAssumption DEF Init, RingInv, TypeOK, Position, NoBuffers, Buffers, ReadableSize, Mask

\* Recv looks at the room left in the ring.
LEMMA RecvCheckStep == RingInv /\ RecvCheck => RingInv'
BY DEF RingInv, TypeOK, RecvCheck, ringVars, parserVars

\* GetSpace hands out room that holds nothing unread.
LEMMA RecvSpaceStep == RingInv /\ RecvSpace => RingInv'
<1> SUFFICES ASSUME RingInv, RecvSpace PROVE RingInv'
  OBVIOUS
<1>1. readPos \in Position /\ writePos \in Position /\ WriteableSize(readPos, writePos) > 1
  BY DEF RingInv, TypeOK, RecvSpace
<1>2. /\ space' \in [pos : Nat, len : Nat, len2 : Nat]
      /\ space'.len > 0
      /\ Placed(space', writePos)
      /\ TotalBytes(space') <= WriteableSize(readPos, writePos)
  BY <1>1, SpaceIsFree DEF RecvSpace
<1> QED BY <1>2 DEF RingInv, TypeOK, RecvSpace, ringVars, parserVars, Placed, TotalBytes

\* What readv writes is behind every byte that has not been taken.
LEMMA RecvReadvStep ==
  ASSUME RingInv, NEW n \in 1..(Size - 1), RecvReadv(n)
  PROVE  RingInv'
<1>1. /\ readPos \in Position /\ writePos \in Position
      /\ space \in [pos : Nat, len : Nat, len2 : Nat]
      /\ Placed(space, writePos)
      /\ n <= TotalBytes(space)
      /\ TotalBytes(space) <= WriteableSize(readPos, writePos)
      /\ produced \in Nat /\ consumed \in Nat
      /\ produced - consumed = ReadableSize(readPos, writePos)
  BY DEF RingInv, TypeOK, RecvReadv
<1>2. n <= WriteableSize(readPos, writePos)
  BY <1>1, Sizes, SizeAssumption DEF TotalBytes
<1>3. ASSUME NEW p \in Position PROVE ByteAt(space, p) \in Nat
  BY <1>1 DEF ByteAt, TotalBytes, Position
<1>4. ASSUME NEW k \in Nat, k < n
      PROVE  ring'[Mask(writePos + k)] = produced + k
  <2>1. Mask(writePos + k) \in Position
    BY <1>1, <1>4, MaskType, SizeAssumption
  <2>2. ByteAt(space, Mask(writePos + k)) = k
    BY <1>1, <1>4, SizeAssumption
       DEF ByteAt, Placed, TotalBytes, Mask, ReadableSize, WriteableSize, Position
  <2> QED BY <1>4, <2>1, <2>2 DEF RecvReadv
<1>5. ASSUME NEW k \in Nat, k < produced - consumed
      PROVE  ring'[Mask(readPos + k)] = ring[Mask(readPos + k)]
  <2>1. Mask(readPos + k) \in Position
    BY <1>1, <1>5, MaskType, Sizes, SizeAssumption
  <2>2. ByteAt(space, Mask(readPos + k)) >= n
    BY <1>1, <1>5, SizeAssumption
       DEF ByteAt, Placed, TotalBytes, Mask, ReadableSize, WriteableSize, Position
  <2> QED BY <1>3, <2>1, <2>2 DEF RecvReadv
<1>6. ring' \in [Position -> Nat]
  BY <1>1, <1>3 DEF RecvReadv, RingInv, TypeOK
<1> QED BY <1>2, <1>4, <1>5, <1>6 DEF RingInv, TypeOK, RecvReadv, parserVars

\* A readv that returns nothing changes nothing.
LEMMA RecvAgainStep == RingInv /\ RecvAgain => RingInv'
BY DEF RingInv, TypeOK, RecvAgain, ringVars, parserVars

\* The bytes that readv has put behind the write position become readable.
LEMMA RecvAdjustStep == RingInv /\ RecvAdjust => RingInv'
<1> SUFFICES ASSUME RingInv, RecvAdjust PROVE RingInv'
  OBVIOUS
<1>1. /\ readPos \in Position /\ writePos \in Position
      /\ got \in Nat /\ got >= 1 /\ got <= WriteableSize(readPos, writePos)
      /\ produced \in Nat /\ consumed \in Nat
      /\ produced - consumed = ReadableSize(readPos, writePos)
  BY DEF RingInv, TypeOK, RecvAdjust
<1>2. /\ writePos' \in Position
      /\ ReadableSize(readPos, writePos') = ReadableSize(readPos, writePos) + got
  BY <1>1, Sizes, AdvanceWrite DEF RecvAdjust
<1>3. /\ produced' \in Nat
      /\ produced' - consumed = ReadableSize(readPos, writePos')
      /\ readPos' = readPos /\ consumed' = consumed /\ ring' = ring
  BY <1>1, <1>2 DEF RecvAdjust
<1>4. ASSUME NEW k \in Nat, k < produced' - consumed
      PROVE  ring[Mask(readPos + k)] = consumed + k
  <2>1. CASE k < produced - consumed
    BY <2>1 DEF RingInv
  <2>2. CASE k >= produced - consumed
    <3> DEFINE l == k - (produced - consumed)
    <3>1. l \in Nat /\ l < got
      BY <1>1, <1>4, <2>2 DEF RecvAdjust
    <3>2. Mask(readPos + k) = Mask(writePos + l)
      BY <1>1, <1>4, <2>2, <3>1, SizeAssumption
         DEF Mask, ReadableSize, WriteableSize, Position, RecvAdjust
    <3>3. ring[Mask(writePos + l)] = produced + l
      BY <3>1 DEF RingInv, RecvAdjust
    <3> QED BY <1>1, <3>2, <3>3
  <2> QED BY <1>1, <2>1, <2>2
<1>5. /\ parser' = "size" => readPos' # writePos'
      /\ parser' = "datum" => size' >= 1 /\ size' <= ReadableSize(readPos', writePos')
      /\ parser' = "handle" =>
           /\ Placed(datum', readPos')
           /\ TotalBytes(datum') >= 1
           /\ TotalBytes(datum') <= ReadableSize(readPos', writePos')
  <2>1. ReadableSize(readPos, writePos) <= ReadableSize(readPos, writePos')
    BY <1>1, <1>2, Sizes
  <2>2. readPos # writePos'
    BY <1>1, <1>2, Sizes
  <2> QED BY <1>1, <1>2, <1>3, <2>1, <2>2, Sizes
          DEF RingInv, TypeOK, RecvAdjust, parserVars, TotalBytes, Placed
<1> QED BY <1>2, <1>3, <1>4, <1>5 DEF RingInv, TypeOK, RecvAdjust, parserVars

\* DoMsgParse looks for readable bytes.
LEMMA ParseCheckStep == RingInv /\ ParseCheck => RingInv'
BY DEF RingInv, TypeOK, ParseCheck, ringVars, receiverVars

\* It reads how many there are; the other thread can only add to them.
LEMMA ParseSizeStep == RingInv /\ ParseSize => RingInv'
<1> SUFFICES ASSUME RingInv, ParseSize PROVE RingInv'
  OBVIOUS
<1>1. size' \in Nat /\ size' >= 1 /\ size' <= ReadableSize(readPos, writePos)
  BY Sizes DEF RingInv, TypeOK, ParseSize
<1> QED BY <1>1 DEF RingInv, TypeOK, ParseSize, ringVars, receiverVars

\* GetDatum hands out bytes that were received and not consumed.
LEMMA ParseDatumStep == RingInv /\ ParseDatum => RingInv'
<1> SUFFICES ASSUME RingInv, ParseDatum PROVE RingInv'
  OBVIOUS
<1>1. /\ readPos \in Position /\ writePos \in Position
      /\ size \in 1..ReadableSize(readPos, writePos)
  BY Sizes DEF RingInv, TypeOK, ParseDatum
<1>2. /\ datum' \in [pos : Nat, len : Nat, len2 : Nat]
      /\ Placed(datum', readPos)
      /\ TotalBytes(datum') = size
  BY <1>1, DatumIsReadable DEF ParseDatum
<1> QED BY <1>1, <1>2 DEF RingInv, TypeOK, ParseDatum, ringVars, receiverVars, Placed, TotalBytes

\* The bytes that are taken make room, behind what Recv may already have
\* reserved.
LEMMA ParseTakeStep ==
  ASSUME RingInv, NEW n \in 1..(Size - 1), ParseTake(n)
  PROVE  RingInv'
<1>1. /\ readPos \in Position /\ writePos \in Position
      /\ datum \in [pos : Nat, len : Nat, len2 : Nat]
      /\ produced \in Nat /\ consumed \in Nat
      /\ produced - consumed = ReadableSize(readPos, writePos)
      /\ TotalBytes(datum) <= ReadableSize(readPos, writePos)
      /\ n <= TotalBytes(datum)
  BY DEF RingInv, TypeOK, ParseTake
<1>2. n \in 0..ReadableSize(readPos, writePos)
  BY <1>1, Sizes DEF TotalBytes
<1>3. /\ readPos' \in Position
      /\ ReadableSize(readPos', writePos) = ReadableSize(readPos, writePos) - n
      /\ WriteableSize(readPos', writePos) = WriteableSize(readPos, writePos) + n
  BY <1>1, <1>2, AdvanceRead DEF ParseTake
<1>4. /\ consumed' \in Nat /\ consumed' = consumed + n
      /\ produced - consumed' = ReadableSize(readPos', writePos)
  BY <1>1, <1>3 DEF ParseTake
<1>5. ASSUME NEW k \in Nat, k < produced - consumed'
      PROVE  ring[Mask(readPos' + k)] = consumed' + k
  <2>1. n + k \in Nat /\ n + k < produced - consumed /\ n + k <= Size - 1
    BY <1>1, <1>2, <1>4, <1>5, Sizes, SizeAssumption
  <2>2. Mask(readPos' + k) = Mask(readPos + (n + k))
    BY <1>1, <2>1, MaskTwice, SizeAssumption DEF ParseTake
  <2>3. ring[Mask(readPos + (n + k))] = consumed + (n + k)
    BY <2>1 DEF RingInv
  <2> QED BY <1>1, <1>4, <2>2, <2>3
<1>6. WriteableSize(readPos, writePos) <= WriteableSize(readPos', writePos)
  BY <1>1, <1>3, Sizes
<1>7. WriteableSize(readPos, writePos) \in Nat /\ WriteableSize(readPos', writePos) \in Nat
  BY <1>1, <1>3, Sizes
<1> QED BY <1>3, <1>4, <1>5, <1>6, <1>7
        DEF RingInv, TypeOK, ParseTake, receiverVars, TotalBytes, Placed

\* A parser that needs more bytes takes none.
LEMMA ParseBreakStep == RingInv /\ ParseBreak => RingInv'
BY DEF RingInv, TypeOK, ParseBreak, ringVars, receiverVars

\* So every step keeps the ring.
LEMMA RingNext == RingInv /\ [Next]_vars => RingInv'
<1> SUFFICES ASSUME RingInv, [Next]_vars PROVE RingInv'
  OBVIOUS
<1>1. CASE UNCHANGED vars
  BY <1>1 DEF RingInv, TypeOK, vars, ringVars, receiverVars, parserVars
<1>2. CASE Receiver
  BY <1>2, RecvCheckStep, RecvSpaceStep, RecvReadvStep, RecvAgainStep, RecvAdjustStep
     DEF Receiver, Receive
<1>3. CASE Parser
  BY <1>3, ParseCheckStep, ParseSizeStep, ParseDatumStep, ParseTakeStep, ParseBreakStep
     DEF Parser
<1> QED BY <1>1, <1>2, <1>3 DEF Next

\* The invariant holds in every behaviour of the two threads.
THEOREM RingInvariant == Spec => []RingInv
BY RingInit, RingNext, PTL DEF Spec
-----------------------------------------------------------------------------
(* What follows from it *)

\* _HandlePacket is given the next bytes of the stream in their order,
\* whatever the receiver has done since GetDatum.
THEOREM ParserSeesNext == Spec => []DatumIsNext
<1>1. RingInv => DatumIsNext
  <2> SUFFICES ASSUME RingInv, parser = "handle"
               PROVE  /\ TotalBytes(datum) > 0
                      /\ \A k \in 0..(TotalBytes(datum) - 1) :
                           ring[BytePos(datum, k)] = consumed + k
    BY DEF DatumIsNext
  <2>1. /\ readPos \in Position /\ writePos \in Position
        /\ datum \in [pos : Nat, len : Nat, len2 : Nat]
        /\ Placed(datum, readPos)
        /\ TotalBytes(datum) >= 1
        /\ TotalBytes(datum) <= ReadableSize(readPos, writePos)
        /\ produced - consumed = ReadableSize(readPos, writePos)
    BY DEF RingInv, TypeOK
  <2>2. TotalBytes(datum) \in Nat /\ TotalBytes(datum) <= Size - 1
    BY <2>1, Sizes, SizeAssumption DEF TotalBytes
  <2>3. ASSUME NEW k \in 0..(TotalBytes(datum) - 1)
        PROVE  ring[BytePos(datum, k)] = consumed + k
    <3>1. BytePos(datum, k) = Mask(readPos + k)
      BY <2>1, <2>2, PlacedPos
    <3>2. k \in Nat /\ k < produced - consumed
      BY <2>1, <2>2, Sizes
    <3> QED BY <3>1, <3>2 DEF RingInv
  <2> QED BY <2>1, <2>2, <2>3
<1> QED BY <1>1, RingInvariant, PTL

\* The assertions in GetSpace and GetDatum never fail, for any interleaving
\* of the two threads.
THEOREM AssertionsNeverFail == Spec => []AssertsHold
<1>1. RingInv => AssertsHold
  BY Sizes DEF RingInv, TypeOK, AssertsHold
<1> QED BY <1>1, RingInvariant, PTL
-----------------------------------------------------------------------------
(* The ring implements the queue of bytes *)

\* The bytes of the stream from byte a on.
Run(a, n) == [k \in 1..n |-> a + k - 1]

\* A run of n bytes that begins with byte a,
LEMMA RunIsSeq ==
  ASSUME NEW a \in Nat, NEW n \in Nat
  PROVE  Run(a, n) \in Seq(Nat) /\ Len(Run(a, n)) = n
BY DEF Run

\* what follows it,
LEMMA RunConcat ==
  ASSUME NEW a \in Nat, NEW b \in Nat, NEW n \in Nat, b - a \in Nat
  PROVE  Run(a, (b + n) - a) = Run(a, b - a) \o Run(b, n)
<1>1. (b + n) - a \in Nat /\ (b + n) - a = (b - a) + n
  OBVIOUS
<1>2. /\ Run(a, (b + n) - a) \in Seq(Nat) /\ Len(Run(a, (b + n) - a)) = (b + n) - a
      /\ Run(a, b - a) \in Seq(Nat) /\ Len(Run(a, b - a)) = b - a
      /\ Run(b, n) \in Seq(Nat) /\ Len(Run(b, n)) = n
  BY <1>1, RunIsSeq
<1> QED BY <1>1, <1>2 DEF Run

\* and what is left of it once n bytes are gone.
LEMMA RunSuffix ==
  ASSUME NEW a \in Nat, NEW m \in Nat, NEW n \in 0..m
  PROVE  Run(a + n, m - n) = SubSeq(Run(a, m), n + 1, m)
BY RunIsSeq DEF Run

\* No byte is consumed before it was produced.
LEMMA Counts ==
  RingInv => produced \in Nat /\ consumed \in Nat /\ produced - consumed \in Nat
BY Sizes, SizeAssumption DEF RingInv, TypeOK

\* What the ring holds are the bytes not consumed yet, in order.
LEMMA UnreadIsRun == RingInv => Unread = Run(consumed, produced - consumed)
<1> SUFFICES ASSUME RingInv, NEW k \in 1..(produced - consumed)
             PROVE  ring[Mask(readPos + k - 1)] = consumed + k - 1
  BY DEF Unread, Run
<1>1. k - 1 \in Nat /\ k - 1 < produced - consumed /\ readPos \in Nat
      /\ produced \in Nat /\ consumed \in Nat
  BY DEF RingInv, TypeOK, Position
<1>2. ring[Mask(readPos + (k - 1))] = consumed + (k - 1)
  BY <1>1 DEF RingInv
<1>3. readPos + (k - 1) = readPos + k - 1 /\ consumed + (k - 1) = consumed + k - 1
  BY <1>1
<1> QED BY <1>2, <1>3

\* Seen through its positions, the ring is a first-in, first-out queue that
\* loses, doubles and reorders no byte, for every size of the ring and every
\* interleaving of RecvThread and main loop.
THEOREM RingRefinesStream == Spec => ImplementsByteStream
<1>1. Init => Stream!Init
  BY SizeAssumption DEF Init, Stream!Init, Unread
<1>2. ASSUME RingInv, RingInv', [Next]_vars
      PROVE  [Stream!Arrive \/ Stream!Take]_<<produced, Unread>>
  <2>1. /\ produced \in Nat /\ consumed \in Nat /\ produced - consumed \in Nat
        /\ produced' \in Nat /\ consumed' \in Nat /\ produced' - consumed' \in Nat
    <3>1. (RingInv => produced \in Nat /\ consumed \in Nat /\ produced - consumed \in Nat)'
      BY Counts, PTL
    <3> QED BY <1>2, <3>1, Counts
  <2>2. /\ Unread = Run(consumed, produced - consumed)
        /\ Unread' = Run(consumed', produced' - consumed')
    <3>1. (RingInv => Unread = Run(consumed, produced - consumed))'
      BY UnreadIsRun, PTL
    <3> QED BY <1>2, <3>1, UnreadIsRun DEF Run
  <2>3. CASE UNCHANGED <<produced, consumed>>
    BY <2>2, <2>3
  <2>4. CASE RecvAdjust
    <3>1. got \in Nat /\ got >= 1 /\ produced' = produced + got /\ consumed' = consumed
      BY <1>2, <2>4 DEF RecvAdjust, RingInv, TypeOK
    <3>2. Unread' = Unread \o Run(produced, got)
      <4>1. Run(consumed, (produced + got) - consumed)
              = Run(consumed, produced - consumed) \o Run(produced, got)
        <5>1. got \in Nat /\ consumed \in Nat /\ produced \in Nat /\ produced - consumed \in Nat
          BY <2>1, <3>1
        <5> QED BY <5>1, RunConcat
      <4>2. produced' - consumed' = (produced + got) - consumed
        BY <3>1
      <4> QED BY <2>2, <3>1, <4>1, <4>2
    <3>3. Run(produced, got) = [k \in 1..(produced' - produced) |-> produced + k - 1]
      <4>1. produced' - produced = got
        BY <2>1, <3>1
      <4> QED BY <4>1 DEF Run
    <3>4. produced' > produced
      BY <2>1, <3>1
    <3> QED BY <3>2, <3>3, <3>4 DEF Stream!Arrive
  <2>5. ASSUME NEW n \in 1..(Size - 1), ParseTake(n)
        PROVE  Stream!Take
    <3>1. produced' = produced /\ consumed' = consumed + n
      BY <2>5 DEF ParseTake
    <3>2. n \in 1..(produced - consumed)
      BY <1>2, <2>1, <3>1, SizeAssumption
    <3>3. Unread' = SubSeq(Unread, n + 1, produced - consumed)
      <4>1. produced' - consumed' = (produced - consumed) - n
        BY <2>1, <3>1, SizeAssumption
      <4> QED BY <2>1, <2>2, <3>1, <3>2, <4>1, RunSuffix
    <3>4. Unread # <<>> /\ Len(Unread) = produced - consumed
      <4>1. Len(Unread) = produced - consumed
        BY Zenon, <2>1, <2>2, RunIsSeq
      <4> QED BY <2>1, <3>2, <4>1
    <3> QED BY <3>1, <3>2, <3>3, <3>4 DEF Stream!Take
  <2> QED BY <1>2, <2>3, <2>4, <2>5
          DEF Next, Receiver, Receive, Parser, RecvCheck, RecvSpace, RecvReadv, RecvAgain,
              ParseCheck, ParseSize, ParseDatum, ParseBreak, vars, ringVars
<1> QED BY <1>1, <1>2, RingInvariant, PTL DEF Spec, ImplementsByteStream, Stream!Spec
=============================================================================
