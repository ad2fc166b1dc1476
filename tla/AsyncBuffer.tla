---------------------------- MODULE AsyncBuffer ----------------------------
(***************************************************************************)
(* sendBuf_ of a StreamSocket (src/network/src/async_buffer.cc).  The main *)
(* loop writes packets; the SendThread asks for bytes (ProcessBuffer),     *)
(* sends some of them and skips those (Skip).  Packets for which the ring  *)
(* has no room go to backBuf_, under a lock that the sender only tries to  *)
(* take; it swaps backBuf_ with its own tmpBuf_.                           *)
(*                                                                         *)
(* Once the socket has taken fewer bytes than it was offered, epollOut_    *)
(* keeps StreamSocket::Send from going on.  StreamSocket::OnWriteable does *)
(* go on and is modelled as what it does; but no thread calls it (see      *)
(* SendPoll of NetThreads), and so it has no fairness.                     *)
(*                                                                         *)
(* The two UnboundedBuffers are the sequences of their bytes.  Copying     *)
(* into the ring and moving the write position are one step: the sender    *)
(* does not look behind the write position.                                *)
(***************************************************************************)
EXTENDS CircularBuffer

CONSTANTS
  Lengths,      \* the lengths of packets
  MaxPackets    \* bound: the number of packets

ASSUME AsyncAssumption == Lengths \subseteq Nat \ {0} /\ MaxPackets \in Nat

VARIABLES
  ring, readPos, writePos,   \* buffer_
  back,                      \* backBuf_
  backBytes,                 \* backBytes_
  tmp,                       \* tmpBuf_
  lock,                      \* who holds backBufLock_
  writer,                    \* where the writer is
  path,                      \* which way each packet has taken
  sender,                    \* where the sender is
  nLen, datum,               \* its local variables
  epollOut,                  \* epollOut_
  written, wire              \* the packets written and the bytes sent

ringVars   == <<ring, readPos, writePos>>
backVars   == <<back, backBytes, lock>>
writerVars == <<writer, path, written>>
senderVars == <<sender, tmp, nLen, datum, epollOut, wire>>
vars == <<ringVars, backVars, writerVars, senderVars>>

NoBuffers == Buffers(0, 0, 0)
NoByte    == <<0, 0, 0>>

Init ==
  /\ ring = [p \in Position |-> NoByte] /\ readPos = 0 /\ writePos = 0
  /\ back = <<>> /\ backBytes = 0 /\ lock = "free"
  /\ writer = "idle" /\ path = <<>> /\ written = <<>>
  /\ sender = "idle" /\ tmp = <<>> /\ nLen = 0 /\ datum = NoBuffers
  /\ epollOut = FALSE /\ wire = <<>>

\* The packet the writer works on: its length and its bytes.
Length == written[Len(written)]
Data   == [k \in 1..Length |-> <<Len(written), k, Length>>]
-----------------------------------------------------------------------------
(* AsyncBuffer::Write, in the main loop *)

Write(len) ==
  /\ writer = "idle"
  /\ Len(written) < MaxPackets
  /\ written' = Append(written, len)
  /\ writer' = "check"
  /\ UNCHANGED <<ringVars, backVars, senderVars, path>>

\* Mutant: whether the overflow buffer is in use is not asked.
NoRoomInRing == WriteableSize(readPos, writePos) < Length

NoRoom == backBytes > 0 \/ WriteableSize(readPos, writePos) < Length

WriteCheck ==
  /\ writer = "check"
  /\ writer' = IF NoRoom THEN "lock" ELSE "push"
  /\ UNCHANGED <<ringVars, backVars, senderVars, path, written>>

WriteLock ==
  /\ writer = "lock"
  /\ lock = "free"
  /\ lock' = "writer"
  /\ writer' = "locked"
  /\ UNCHANGED <<ringVars, back, backBytes, senderVars, path, written>>

\* Mutant: the bytes of the overflow buffer are not counted.
WriteBackUncounted ==
  /\ writer = "locked"
  /\ NoRoom
  /\ back' = back \o Data
  /\ lock' = "free"
  /\ path' = Append(path, "back")
  /\ writer' = "idle"
  /\ UNCHANGED <<ringVars, senderVars, backBytes, written>>

WriteBack ==
  /\ writer = "locked"
  /\ NoRoom
  /\ back' = back \o Data
  /\ backBytes' = backBytes + Length
  /\ lock' = "free"
  /\ path' = Append(path, "back")
  /\ writer' = "idle"
  /\ UNCHANGED <<ringVars, senderVars, written>>

WriteUnlock ==
  /\ writer = "locked"
  /\ ~NoRoom
  /\ lock' = "free"
  /\ writer' = "push"
  /\ UNCHANGED <<ringVars, back, backBytes, senderVars, path, written>>

\* PushData drops a packet that does not fit.
WritePush ==
  /\ writer = "push"
  /\ IF Length > WriteableSize(readPos, writePos) THEN UNCHANGED <<ring, writePos>>
     ELSE /\ ring' = PushDataAt(ring, writePos, Data)
          /\ writePos' = AdjustPtr(writePos, Length)
  /\ path' = Append(path, "ring")
  /\ writer' = "idle"
  /\ UNCHANGED <<readPos, backVars, senderVars, written>>
-----------------------------------------------------------------------------
(* AsyncBuffer::ProcessBuffer and Skip, in the SendThread *)

\* ProcessBuffer begins with what is left of tmpBuf_.
ProcessTmp ==
  /\ sender = "idle"
  /\ sender' = IF tmp # <<>> THEN "send" ELSE "ring"
  /\ UNCHANGED <<ringVars, backVars, writerVars, tmp, nLen, datum, epollOut, wire>>

\* StreamSocket::Send and StreamSocket::OnWriteable both start it.
Send == ~epollOut /\ ProcessTmp

OnWriteable == ProcessTmp

ProcessRing ==
  /\ sender = "ring"
  /\ sender' = IF readPos # writePos THEN "size" ELSE "back"
  /\ UNCHANGED <<ringVars, backVars, writerVars, tmp, nLen, datum, epollOut, wire>>

ProcessSize ==
  /\ sender = "size"
  /\ nLen' = ReadableSize(readPos, writePos)
  /\ sender' = "datum"
  /\ UNCHANGED <<ringVars, backVars, writerVars, tmp, datum, epollOut, wire>>

ProcessDatum ==
  /\ sender = "datum"
  /\ datum' = GetDatum(readPos, writePos, nLen)
  /\ sender' = "send"
  /\ UNCHANGED <<ringVars, backVars, writerVars, tmp, nLen, epollOut, wire>>

\* try_lock, and the count set to 0; otherwise there is nothing to send.
ProcessBack ==
  /\ sender = "back"
  /\ IF backBytes > 0 /\ lock = "free"
     THEN lock' = "sender" /\ backBytes' = 0 /\ sender' = "swap" /\ UNCHANGED epollOut
     ELSE sender' = "idle" /\ epollOut' = FALSE /\ UNCHANGED <<lock, backBytes>>
  /\ UNCHANGED <<ringVars, back, writerVars, tmp, nLen, datum, wire>>

ProcessSwap ==
  /\ sender = "swap"
  /\ tmp' = back /\ back' = tmp
  /\ lock' = "free"
  /\ sender' = "send"
  /\ UNCHANGED <<ringVars, backBytes, writerVars, nLen, datum, epollOut, wire>>

\* The bytes ProcessBuffer has returned.
Bytes ==
  IF tmp # <<>> THEN tmp
  ELSE [k \in 1..TotalBytes(datum) |-> ring[BytePos(datum, k - 1)]]

\* Mutant: all bytes are skipped, also when only some were sent.
SendAndSkipAll(n) ==
  /\ sender = "send"
  /\ n <= Len(Bytes)
  /\ wire' = wire \o SubSeq(Bytes, 1, n)
  /\ epollOut' = (n < Len(Bytes))
  /\ IF tmp # <<>> THEN tmp' = <<>> /\ UNCHANGED readPos
     ELSE readPos' = AdjustPtr(readPos, Len(Bytes)) /\ UNCHANGED tmp
  /\ sender' = "idle"
  /\ UNCHANGED <<ring, writePos, backVars, writerVars, nLen, datum>>

\* The socket takes n bytes, and n are skipped.
SendAndSkip(n) ==
  /\ sender = "send"
  /\ n <= Len(Bytes)
  /\ wire' = wire \o SubSeq(Bytes, 1, n)
  /\ epollOut' = (n < Len(Bytes))
  /\ IF tmp # <<>> THEN tmp' = SubSeq(tmp, n + 1, Len(tmp)) /\ UNCHANGED readPos
     ELSE readPos' = AdjustPtr(readPos, n) /\ UNCHANGED tmp
  /\ sender' = "idle"
  /\ UNCHANGED <<ring, writePos, backVars, writerVars, nLen, datum>>
-----------------------------------------------------------------------------
Writing == WriteCheck \/ WriteLock \/ WriteBack \/ WriteUnlock \/ WritePush

Processing ==
  ProcessRing \/ ProcessSize \/ ProcessDatum \/ ProcessBack \/ ProcessSwap

Sending == \E n \in 0..Len(Bytes) : SendAndSkip(n)

Next ==
  \/ \E len \in Lengths : Write(len)
  \/ Writing \/ Send \/ OnWriteable \/ Processing \/ Sending

Spec == Init /\ [][Next]_vars

\* Both threads go on.
FairSpec == Spec /\ WF_vars(Writing) /\ WF_vars(Send \/ Processing \/ Sending)
-----------------------------------------------------------------------------
(* Properties *)

\* The assertions in Write and ProcessBuffer hold although the other thread
\* goes on between a check and what relies on it: the count of the overflow
\* buffer is its size, a packet that passed the check fits, and GetDatum
\* returns the number of bytes that ProcessBuffer has read before.
AssertsHold ==
  /\ lock = "free" => backBytes = Len(back)
  /\ writer = "push" => backBytes = 0 /\ Length <= WriteableSize(readPos, writePos)
  /\ sender = "send" /\ tmp = <<>> => TotalBytes(datum) = nLen

Channel == INSTANCE PacketChannel

\* Every packet leaves whole and at most once, whichever of the three buffers
\* it has passed through and however few bytes each writev takes.
ImplementsPacketChannel == Channel!Spec

\* A packet can leave before an earlier one only if it went through the
\* overflow buffer and the earlier one through the ring: the packets of each
\* way keep their order, and the ring never overtakes the overflow buffer.
OnlyOverflowOvertakes ==
  \A i, j \in 1..Len(wire) :
    LET p == wire[i][1]  q == wire[j][1]
    IN i < j /\ p > q => path[p] = "back" /\ path[q] = "ring"

\* While the socket takes all it is offered, every byte of every packet is
\* sent in the end: nothing stays behind in the ring, in the overflow buffer
\* or in the buffer it was swapped with, also when the sender's try_lock
\* failed.
AllSent ==
  \A p \in 1..MaxPackets :
    Len(written) >= p ~>
      \/ epollOut
      \/ Len(written) >= p /\ \A k \in 1..written[p] :
           \E i \in 1..Len(wire) : wire[i] = <<p, k, written[p]>>
=============================================================================
