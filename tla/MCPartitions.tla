---------------------------- MODULE MCPartitions ----------------------------
(***************************************************************************)
(* RaftCore under network partitions.  A schedule says for every term      *)
(* which nodes campaign in it, how long a log clients propose entries for, *)
(* whether the leader beats and may be asked to hand over, and (by         *)
(* Through) which messages of the term get through; every other message of *)
(* the term is lost.  A message that gets through is still delayed,        *)
(* reordered and duplicated without limit, and one of an early term may    *)
(* arrive in a later one.  The schedule is chosen at the start;            *)
(* restricting the network this way leaves room for more terms than        *)
(* RaftCore's unrestricted network.                                        *)
(***************************************************************************)
EXTENDS RaftCore

CONSTANTS
  Schedules,    \* sequences of records with fields campaigners, proposals, ...
  Through(_, _) \* Through(m, s): m gets through in a term with schedule s

VARIABLE schedule

MayCampaign(i) == term[i] < MaxTerm /\ i \in schedule[term[i] + 1].campaigners

MayPropose(i) ==
  state[i] = Leader /\ LastIndex(entries[i]) < schedule[term[i]].proposals

Passes(m) == m.term \in 1..MaxTerm /\ Through(m, schedule[m.term])

PInit == Init /\ schedule \in Schedules

\* Elections and replication.
PNext ==
  /\ \/ \E i \in Server : MayCampaign(i) /\ Hup(i)
     \/ \E i \in Server, d \in Value : MayPropose(i) /\ Propose(i, d)
     \/ \E m \in msgs : Passes(m) /\ Receive(m)
  /\ UNCHANGED schedule

PSpec == PInit /\ [][PNext]_<<vars, schedule>>

\* Heartbeats and transfers as well.  The messages of a transfer carry no term
\* and are not subject to the schedule.
MayBeat(i) == state[i] = Leader /\ schedule[term[i]].beats

MayTransfer(i, j) ==
  /\ term[i] > 0
  /\ schedule[term[i]].transfers
  /\ {i, j} \subseteq schedule[term[i]].group

LeadershipNext ==
  /\ \/ \E i \in Server : MayBeat(i) /\ Beat(i)
     \/ \E m \in msgs : Passes(m) /\ HandleHeartbeat(m)
     \/ \E m \in msgs : Passes(m) /\ HandleHeartbeatResponse(m)
     \/ \E i, j \in Server : MayTransfer(i, j) /\ TransferLeader(i, j)
     \/ \E i \in Server : TransferTimeout(i)
     \/ \E m \in msgs : HandleTransferLeader(m)
     \/ \E m \in msgs : MayCampaign(m.to) /\ HandleTimeoutNow(m)
  /\ UNCHANGED schedule

AllSpec == PInit /\ [][PNext \/ LeadershipNext]_<<vars, schedule>>
-----------------------------------------------------------------------------
(* Clusters of three *)

Pair == {p \in Server \X Server : p[1] # p[2]}

\* The nodes are interchangeable, so one pair stands for all in the first term.
FirstPair == CHOOSE p \in Pair : TRUE

\* Every choice, for each term, of a pair of nodes that can talk to each
\* other and of the one of them that campaigns: every history in which each
\* term has the smallest possible majority.  When the first leader is cut off
\* in the second term and is the last campaigner (a comeback), clients propose
\* to it in the first term, so that it comes back with a long log, and it hears
\* of the election in between, which it needs to campaign again, even where it
\* cannot answer.
PairSchedule(c) ==
  LET comeback == c[1][1] = c[MaxTerm][1] /\ c[1][1] \notin {c[2][1], c[2][2]}
      upcoming(t) == IF comeback /\ t < MaxTerm THEN {c[t + 1][1]} ELSE {}
  IN [t \in 1..MaxTerm |-> [campaigners |-> {c[t][1]},
                            proposals |-> IF t = 1 /\ comeback THEN MaxIndex ELSE 0,
                            beats |-> FALSE, transfers |-> FALSE,
                            group |-> {c[t][1], c[t][2]},
                            informed |-> upcoming(t) \ {c[t][1], c[t][2]}]]

Pairs == {PairSchedule(c) : c \in {d \in [1..MaxTerm -> Pair] : d[1] = FirstPair}}

\* One node leads and nothing is lost; its appends and heartbeats, and the
\* answers to them, overtake each other.
Idle == [campaigners |-> {}, proposals |-> 0, beats |-> FALSE, transfers |-> FALSE,
         group |-> {}, informed |-> {}]

Steady ==
  [t \in 1..MaxTerm |->
     IF t > 1 THEN Idle
     ELSE [Idle EXCEPT !.campaigners = {FirstPair[1]}, !.proposals = MaxIndex,
                       !.beats = TRUE, !.group = Server]]

\* The leader of the first term is asked to hand over to a node, which may
\* campaign in the second.
Handing ==
  [t \in 1..MaxTerm |->
     IF t > 2 THEN Idle
     ELSE [Idle EXCEPT !.campaigners = IF t = 1 THEN {FirstPair[1]} ELSE Server,
                       !.proposals = MaxIndex, !.transfers = TRUE,
                       !.group = {FirstPair[1], FirstPair[2]}]]

AllSchedules == Pairs \cup {Steady, Handing}

GroupThrough(m, s) ==
  \/ {m.from, m.to} \subseteq s.group
  \/ m.type = "MsgRequestVote" /\ m.to \in s.informed
=============================================================================
