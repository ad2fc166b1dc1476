---------------------------- MODULE MCMembership ----------------------------
(***************************************************************************)
(* Membership on a partitioned network: in each term a node may talk to    *)
(* the peers that a schedule, chosen at the start, names, and only some    *)
(* nodes campaign; the other messages of the term are lost, and so are     *)
(* those that come when their receiver is in a later term.  Those that get *)
(* through are delayed, reordered and duplicated without limit.            *)
(* The change is proposed in the first term.                               *)
(***************************************************************************)
EXTENDS Membership

\* Schedules(c): sequences of records with fields campaigners, links, types.
CONSTANT Schedules(_)

VARIABLE schedule

MCInit == MemberInit /\ schedule \in Schedules(change)

MayCampaign(i) == term[i] < MaxTerm /\ i \in schedule[term[i] + 1].campaigners

Through(m) ==
  /\ m.term >= term[m.to]
  /\ \/ {m.from, m.to} \in schedule[m.term].links
     \/ m.type \in schedule[m.term].types

MCNext ==
  /\ \/ \E i \in Server : MayCampaign(i) /\ Campaign(i)
     \/ \E i \in Server : term[i] = 1 /\ ProposeChange(i)
     \/ \E m \in msgs : Through(m) /\ StepMessage(m)
     \/ \E m \in msgs : Through(m) /\ AnswerOfStranger(m)
     \/ \E i \in Server : ApplyConfChange(i)
  /\ UNCHANGED schedule

MCSpec == MCInit /\ [][MCNext]_<<memberVars, schedule>>

\* Clients propose values too.
ValuesNext ==
  \/ MCNext
  \/ \E i \in Server, d \in Value : ProposeValue(i, d) /\ UNCHANGED schedule

ValuesSpec == MCInit /\ [][ValuesNext]_<<memberVars, schedule>>
-----------------------------------------------------------------------------
\* One campaigner and the peers it reaches.
Reaches(i, peers) ==
  [campaigners |-> {i}, links |-> {{i, j} : j \in peers}, types |-> {}]

\* Two terms, each with one campaigner and one peer it reaches.
Pair == {p \in Server \X Server : p[1] # p[2]}
TwoPairs(c) == {<<Reaches(p[1], {p[2]}), Reaches(q[1], {q[2]})>> : p, q \in Pair}

\* The first term is one leader's, who reaches just enough peers for a
\* majority.  A node campaigns in the second term in vain: it makes the first
\* leader step down.  The two compete in the third.  All nodes but Node are
\* interchangeable, so two stand for all as the first leader.
FirstLeaders(c) == {Node, CHOOSE i \in c.members : i # Node}

Votes(nodes, types) == [campaigners |-> nodes, links |-> {}, types |-> types]

ThenElections(c) ==
  {<<Reaches(x[1], x[2]),
     Votes({x[3]}, {"MsgRequestVote"}),
     Votes({x[1], x[3]}, {"MsgRequestVote", "MsgRequestVoteResponse"})>> :
     x \in {y \in FirstLeaders(c) \X (SUBSET c.members) \X c.members :
             /\ y[1] \notin y[2]
             /\ Cardinality(y[2]) = Cardinality(Peers(c, y[1])) \div 2
             /\ y[3] # y[1]}}

\* One node of three joins or leaves; one of two leaves.
AllChanges ==
  [kind : {"AddNode", "RemoveNode"}, members : {Server}]
    \cup {[kind |-> "RemoveNode", members |-> {Node, i}] :
            i \in {CHOOSE j \in Server : j # Node}}

Removals == {[kind |-> "RemoveNode", members |-> Server]}

Additions == {[kind |-> "AddNode", members |-> Server]}
=============================================================================
