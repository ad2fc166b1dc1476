----------------------------- MODULE ByteStream -----------------------------
(***************************************************************************)
(* What the receive buffer of a connection promises: the bytes of the      *)
(* stream, numbered in the order in which the client sends them, wait in a *)
(* queue and leave it in that order.                                       *)
(***************************************************************************)
EXTENDS Integers, Sequences

VARIABLES
  arrived,   \* the number of bytes that have arrived
  queue      \* those that have not been taken

Init == arrived = 0 /\ queue = <<>>

Arrive ==
  /\ arrived' > arrived
  /\ queue' = queue \o [k \in 1..(arrived' - arrived) |-> arrived + k - 1]

Take ==
  /\ queue # <<>>
  /\ \E n \in 1..Len(queue) : queue' = SubSeq(queue, n + 1, Len(queue))
  /\ UNCHANGED arrived

Spec == Init /\ [][Arrive \/ Take]_<<arrived, queue>>
=============================================================================
