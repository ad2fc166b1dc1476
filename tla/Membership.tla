----------------------------- MODULE Membership -----------------------------
(***************************************************************************)
(* RaftCore with a group whose members change.  An entry ConfChange stands *)
(* for one change: the node Node joins or leaves a group.  Every node's    *)
(* application hands it to RawNode::ApplyConfChange once it is committed,  *)
(* which changes prs_.  The application shuts a node down that has applied *)
(* its own removal, and does not propose a change its leader has in the    *)
(* log.  Nodes outside the group are down.                                 *)
(***************************************************************************)
EXTENDS RaftCore

CONSTANTS
  Node,     \* the node that joins or leaves
  Changes   \* records with fields kind and members, the group with Node

ASSUME MembershipAssumption ==
  /\ Node \in Server
  /\ Changes \subseteq [kind : {"AddNode", "RemoveNode"}, members : SUBSET Server]
  /\ \A c \in Changes : Node \in c.members

VARIABLES
  change,        \* the change of this behaviour
  confApplied,   \* the index up to which the application has applied changes
  crashed        \* the nodes that have followed a null pointer

memberVars == <<vars, change, confApplied, crashed>>

\* The members before the change.  The node to be added starts with the whole
\* new group as its Config::peers.
Peers(c, i) ==
  IF c.kind = "AddNode" /\ i # Node THEN c.members \ {Node} ELSE c.members

MemberInit ==
  /\ state = [i \in Server |-> Follower]
  /\ term = [i \in Server |-> 0]
  /\ vote = [i \in Server |-> None]
  /\ lead = [i \in Server |-> None]
  /\ votes = [i \in Server |-> [j \in Server |-> "none"]]
  /\ entries = [i \in Server |-> <<>>]
  /\ commited = [i \in Server |-> 0]
  /\ change \in Changes
  /\ prs = [i \in Server |-> Peers(change, i)]
  /\ next = [i \in Server |-> [j \in Server |-> 1]]
  /\ match = [i \in Server |-> [j \in Server |-> 0]]
  /\ leadTransferee = [i \in Server |-> None]
  /\ pendingConfIndex \in [Server -> UninitPending]
  /\ msgs = {}
  /\ confApplied = [i \in Server |-> 0]
  /\ crashed = {}

Running(i) == i \in prs[i] /\ i \notin crashed
-----------------------------------------------------------------------------
\* The changes committed at node i and not applied yet.
ToApply(i) ==
  {k \in (confApplied[i] + 1)..commited[i] : entries[i][k].data = ConfChange}

\* AddNode: a new node starts with Progress(6).
AddNode(i) ==
  /\ prs' = [prs EXCEPT ![i] = @ \cup {Node}]
  /\ next' = IF Node \in prs[i] THEN next ELSE [next EXCEPT ![i][Node] = 6]
  /\ match' = IF Node \in prs[i] THEN match ELSE [match EXCEPT ![i][Node] = 0]
  /\ UNCHANGED <<commited, msgs>>

\* Mutant: the peers are cleared with the node.
RemoveNodeAll(i) ==
  /\ Node \in prs[i]
  /\ prs' = [prs EXCEPT ![i] = {i}]
  /\ UNCHANGED <<next, match, commited, msgs>>

\* RemoveNode; LeaderCommit counts with the peers left.  pendingConfIndex_ is
\* still set, so of an even number of peers half is enough.
RemoveNode(i) ==
  LET left == prs[i] \ {Node}
      rank == IF Cardinality(left) % 2 = 0 /\ pendingConfIndex[i] = 0
              THEN Cardinality(left) \div 2 - 1 ELSE Cardinality(left) \div 2
      commits(n) == state[i] = Leader /\ n > commited[i] /\ TermAt(entries[i], n) = term[i]
  IN /\ Node \in prs[i]
     /\ prs' = [prs EXCEPT ![i] = left]
     /\ \E n \in {match[i][j] : j \in left} :
          /\ Cardinality({j \in left : match[i][j] < n}) <= rank
          /\ Cardinality({j \in left : match[i][j] <= n}) > rank
          /\ commited' = IF commits(n) THEN [commited EXCEPT ![i] = n] ELSE commited
          /\ Send(IF commits(n)
                  THEN {AppendMsg(i, j, term[i], entries[i], n, next[i][j]) : j \in left \ {i}}
                  ELSE {})
     /\ UNCHANGED <<next, match>>

\* RawNode::ApplyConfChange for the next committed change.
ApplyConfChange(i) ==
  /\ Running(i)
  /\ ToApply(i) # {}
  /\ confApplied' = [confApplied EXCEPT ![i] =
                       CHOOSE k \in ToApply(i) : \A l \in ToApply(i) : k <= l]
  /\ IF change.kind = "AddNode" THEN AddNode(i) ELSE RemoveNode(i)
  /\ pendingConfIndex' = [pendingConfIndex EXCEPT ![i] = 0]
  /\ UNCHANGED <<roleVars, votes, entries, leadTransferee, change, crashed>>

\* A leader gets an answer of a node it has no Progress for: prs_[m.from()]
\* is a null pointer, and is followed.
AnswerOfStranger(m) ==
  LET i == m.to
  IN /\ Running(i)
     /\ state[i] = Leader
     /\ ~Newer(i, m)
     /\ m.from \notin prs[i]
     /\ m.type = "MsgAppendResponse"
     /\ ~Stale(i, m)
     /\ m.reject => m.index # 0
     /\ crashed' = crashed \cup {i}
     /\ UNCHANGED <<vars, change, confApplied>>

\* RawNode::ProposeConfChange
ProposeChange(i) ==
  /\ Running(i)
  /\ \A k \in DOMAIN entries[i] : entries[i][k].data # ConfChange
  /\ Propose(i, ConfChange)
  /\ UNCHANGED <<change, confApplied, crashed>>

Campaign(i) == Running(i) /\ Hup(i) /\ UNCHANGED <<change, confApplied, crashed>>

ProposeValue(i, d) == Running(i) /\ Propose(i, d) /\ UNCHANGED <<change, confApplied, crashed>>

StepMessage(m) == Running(m.to) /\ Receive(m) /\ UNCHANGED <<change, confApplied, crashed>>

\* A leader that handles an answer has a Progress for the node that sent it,
\* also when it has just removed the node: prs_ is never left with a null
\* pointer to follow.
NoNullProgress == crashed = {}
=============================================================================
