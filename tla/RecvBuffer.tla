----------------------------- MODULE RecvBuffer -----------------------------
(***************************************************************************)
(* recvBuf_ of a StreamSocket, which two threads share without a lock: the *)
(* RecvThread fills it (StreamSocket::Recv) and the main loop empties it   *)
(* (StreamSocket::DoMsgParse).  Each action is one access to readPos_ or   *)
(* writePos_, or the copying of bytes in between.                          *)
(*                                                                         *)
(* The bytes of the stream are numbered from 0.  _HandlePacket is left     *)
(* open: it takes all of the bytes it is given, or none (Requests models   *)
(* which).                                                                 *)
(***************************************************************************)
EXTENDS CircularBuffer

CONSTANTS
  Need,      \* the bytes of a request
  MaxBytes   \* bound: the bytes the client sends

ASSUME RecvAssumption == Need \in Nat /\ Need >= 1 /\ MaxBytes \in Nat

VARIABLES
  ring,       \* buffer_
  readPos,    \* readPos_
  writePos,   \* writePos_
  receiver,   \* where the RecvThread is
  space,      \* its BufferSequence
  got,        \* what readv returned
  parser,     \* where the main loop is
  size,       \* the ReadableSize() it passes to GetDatum
  datum,      \* its BufferSequence
  produced,   \* the number of bytes put into the ring
  consumed    \* the number of bytes taken out of it

receiverVars == <<receiver, space, got>>
parserVars   == <<parser, size, datum>>
ringVars     == <<ring, readPos, writePos, produced, consumed>>
vars == <<ringVars, receiverVars, parserVars>>

NoBuffers == Buffers(0, 0, 0)

Init ==
  /\ ring = [p \in Position |-> 0]
  /\ readPos = 0 /\ writePos = 0
  /\ receiver = "idle" /\ space = NoBuffers /\ got = 0
  /\ parser = "idle" /\ size = 0 /\ datum = NoBuffers
  /\ produced = 0 /\ consumed = 0
-----------------------------------------------------------------------------
(* StreamSocket::Recv, in the RecvThread *)

\* Mutant: two free bytes count as full as well.
RecvCheckEarly ==
  /\ receiver = "idle"
  /\ WriteableSize(readPos, writePos) > 2
  /\ receiver' = "space"
  /\ UNCHANGED <<ringVars, parserVars, space, got>>

\* Mutant: whether there is space is not checked.
RecvCheckNot ==
  /\ receiver = "idle"
  /\ receiver' = "space"
  /\ UNCHANGED <<ringVars, parserVars, space, got>>

\* GetSpace returns no space when at most one byte is free.
RecvCheck ==
  /\ receiver = "idle"
  /\ WriteableSize(readPos, writePos) > 1
  /\ receiver' = "space"
  /\ UNCHANGED <<ringVars, parserVars, space, got>>

RecvSpace ==
  /\ receiver = "space"
  /\ space' = GetSpace(readPos, writePos)
  /\ receiver' = "readv"
  /\ UNCHANGED <<ringVars, parserVars, got>>

\* readv fills the first n bytes of the space.
RecvReadv(n) ==
  /\ receiver = "readv"
  /\ n <= TotalBytes(space)
  /\ produced + n <= MaxBytes
  /\ ring' = [p \in Position |-> IF ByteAt(space, p) < n
                                THEN produced + ByteAt(space, p) ELSE ring[p]]
  /\ got' = n
  /\ receiver' = "adjust"
  /\ UNCHANGED <<readPos, writePos, produced, consumed, parserVars, space>>

\* readv returns EAGAIN: the client has not sent anything yet.
RecvAgain ==
  /\ receiver = "readv"
  /\ receiver' = "idle"
  /\ UNCHANGED <<ringVars, parserVars, space, got>>

RecvAdjust ==
  /\ receiver = "adjust"
  /\ writePos' = AdjustPtr(writePos, got)
  /\ produced' = produced + got
  /\ receiver' = "idle"
  /\ UNCHANGED <<ring, readPos, consumed, parserVars, space, got>>
-----------------------------------------------------------------------------
(* StreamSocket::DoMsgParse, in the main loop *)

ParseCheck ==
  /\ parser = "idle"
  /\ readPos # writePos
  /\ parser' = "size"
  /\ UNCHANGED <<ringVars, receiverVars, size, datum>>

ParseSize ==
  /\ parser = "size"
  /\ size' = ReadableSize(readPos, writePos)
  /\ parser' = "datum"
  /\ UNCHANGED <<ringVars, receiverVars, datum>>

ParseDatum ==
  /\ parser = "datum"
  /\ datum' = GetDatum(readPos, writePos, size)
  /\ parser' = "handle"
  /\ UNCHANGED <<ringVars, receiverVars, size>>

\* bodyLen is n: _HandlePacket takes all the bytes it was given.
ParseTake(n) ==
  /\ parser = "handle"
  /\ n = TotalBytes(datum)
  /\ readPos' = AdjustPtr(readPos, n)
  /\ consumed' = consumed + n
  /\ parser' = "idle"
  /\ UNCHANGED <<ring, writePos, produced, receiverVars, size, datum>>

\* bodyLen is not positive: the request is not complete, or the parser has
\* lost its place in it.
ParseBreak ==
  /\ parser = "handle"
  /\ parser' = "idle"
  /\ UNCHANGED <<ringVars, receiverVars, size, datum>>
-----------------------------------------------------------------------------
Receive == \E n \in 1..(Size - 1) : RecvReadv(n)

Receiver == RecvCheck \/ RecvSpace \/ Receive \/ RecvAgain \/ RecvAdjust

Parser ==
  \/ ParseCheck \/ ParseSize \/ ParseDatum \/ ParseBreak
  \/ \E n \in 1..(Size - 1) : ParseTake(n)

Next == Receiver \/ Parser

Spec == Init /\ [][Next]_vars

\* Both threads go on polling, and the client goes on sending: it does not
\* always find the RecvThread with nothing to read.
FairSpec ==
  Spec /\ WF_vars(Receiver) /\ WF_vars(Parser) /\ SF_vars(Receive)
-----------------------------------------------------------------------------
(* Properties *)

\* The positions stay inside the ring.
TypeOK ==
  /\ ring \in [Position -> Nat]
  /\ readPos \in Position /\ writePos \in Position
  /\ receiver \in {"idle", "space", "readv", "adjust"}
  /\ parser \in {"idle", "size", "datum", "handle"}
  /\ space \in [pos : Nat, len : Nat, len2 : Nat] /\ got \in Nat
  /\ datum \in [pos : Nat, len : Nat, len2 : Nat] /\ size \in Nat
  /\ produced \in Nat /\ consumed \in Nat

\* What _HandlePacket is given are the next bytes of the stream in their
\* order, whatever Recv has put into the ring since GetDatum.
DatumIsNext ==
  parser = "handle" =>
    /\ TotalBytes(datum) > 0
    /\ \A k \in 0..(TotalBytes(datum) - 1) : ring[BytePos(datum, k)] = consumed + k

\* The assertions of GetSpace (some space is handed out) and of GetDatum (the
\* ring is not empty) hold, although the other thread moves its position
\* after the check that precedes them.
AssertsHold ==
  /\ receiver = "readv" => space.len > 0
  /\ parser = "datum" => readPos # writePos

\* The bytes in the ring, from the read position on.
Unread == [k \in 1..(produced - consumed) |-> ring[Mask(readPos + k - 1)]]

Stream == INSTANCE ByteStream WITH arrived <- produced, queue <- Unread

\* Seen from outside, the ring is the queue of the bytes of the stream: none
\* is lost, overwritten, doubled or reordered where the positions wrap.
ImplementsByteStream == Stream!Spec

\* The bytes of a request of at most Size - 2 bytes reach _HandlePacket
\* together: the ring does not count as full before they are all in it, and
\* none of them stays behind.
RequestsReachParser ==
  \A n \in 0..MaxBytes :
    consumed = n /\ MaxBytes - n >= Need
      ~> \/ consumed > n
         \/ parser = "handle" /\ TotalBytes(datum) >= Need
=============================================================================
