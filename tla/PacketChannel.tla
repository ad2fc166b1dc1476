--------------------------- MODULE PacketChannel ---------------------------
(***************************************************************************)
(* What the send buffer of a connection promises: every packet that was    *)
(* written goes out whole, once, and not mixed with another one.  It says  *)
(* nothing about the order of the packets.  Byte k of packet p, which has  *)
(* n bytes, is <<p, k, n>>.                                                *)
(***************************************************************************)
EXTENDS Integers, Sequences

VARIABLES
  written,   \* the lengths of the packets, in the order of the writes
  wire       \* the bytes that have been sent

\* Each byte is the next one of its packet; a packet starts when the one
\* before it is complete, and does not start again.
Framed(bytes, lens) ==
  \A i \in 1..Len(bytes) :
    LET p == bytes[i][1]  k == bytes[i][2]  n == bytes[i][3]
    IN /\ p \in 1..Len(lens) /\ n = lens[p]
       /\ IF k = 1
          THEN /\ i > 1 => bytes[i - 1][2] = bytes[i - 1][3]
               /\ \A j \in 1..(i - 1) : bytes[j][1] # p
          ELSE i > 1 /\ bytes[i - 1] = <<p, k - 1, n>>

Init == written = <<>> /\ wire = <<>>

Write ==
  /\ Len(written') = Len(written) + 1
  /\ SubSeq(written', 1, Len(written)) = written
  /\ UNCHANGED wire

Send ==
  /\ Len(wire') > Len(wire)
  /\ SubSeq(wire', 1, Len(wire)) = wire
  /\ Framed(wire', written)
  /\ UNCHANGED written

Spec == Init /\ [][Write \/ Send]_<<written, wire>>
=============================================================================
