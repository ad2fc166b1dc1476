----------------------------- MODULE MCRaftCore -----------------------------
(***************************************************************************)
(* RaftCore on an unrestricted network.  MaxCampaigns bounds how many      *)
(* elections are started, counted over all nodes and terms.                *)
(***************************************************************************)
EXTENDS RaftCore, TLC

CONSTANT MaxCampaigns

Symmetry == Permutations(Server)

Campaigns == {<<m.from, m.term>> : m \in {n \in msgs : n.type = "MsgRequestVote"}}

FewCampaigns == Cardinality(Campaigns) <= MaxCampaigns

\* Elections, and the appends that bear on them: those by which a candidate or
\* a leader learns of another leader, and those that make a follower's log
\* longer before a later term's votes.
BearsOnElection(m) ==
  /\ state[m.to] # Follower \/ m.term < MaxTerm
  /\ HandleAppendEntries(m)

ElectionSpec == Init /\ [][Election \/ \E m \in msgs : BearsOnElection(m)]_vars
=============================================================================
