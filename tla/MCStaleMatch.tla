---------------------------- MODULE MCStaleMatch ----------------------------
(***************************************************************************)
(* A cluster of five in which a node leads, is overwritten by the leader   *)
(* of the next term, and leads again.                                      *)
(***************************************************************************)
EXTENDS MCPartitions

CONSTANTS s1, s2, s3, s4, s5

\* s1 leads term 1 with the votes of s2 and s3, and only s2 hears from it; s3
\* leads term 2 with the votes of s4 and s5, and s1, s2 and s4 hear from it
\* but their answers are lost; s1 leads term 3 with the votes of s2 and s4,
\* and only s4 hears from it.
Comeback ==
  {<<[campaigners |-> {s1}, proposals |-> MaxIndex, voters |-> {s2, s3},
      hear |-> {s2}, answer |-> {s2}],
     [campaigners |-> {s3}, proposals |-> 0, voters |-> {s4, s5},
      hear |-> {s1, s2, s4}, answer |-> {}],
     [campaigners |-> {s1}, proposals |-> 0, voters |-> {s2, s4},
      hear |-> {s4}, answer |-> {s4}]>>}

ComebackThrough(m, s) ==
  CASE m.type = "MsgRequestVote"         -> m.to \in s.voters
    [] m.type = "MsgRequestVoteResponse" -> m.from \in s.voters
    [] m.type = "MsgAppend"              -> m.to \in s.hear
    [] m.type = "MsgAppendResponse"      -> m.from \in s.answer
=============================================================================
