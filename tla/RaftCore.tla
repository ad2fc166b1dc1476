------------------------------ MODULE RaftCore ------------------------------
(***************************************************************************)
(* A cluster of RaftContext objects (src/raftcore/src/raft.cc) with their  *)
(* RaftLog (src/raftcore/src/log.cc), exchanging messages over a network   *)
(* that may lose, delay, reorder and duplicate them.                       *)
(*                                                                         *)
(* One action is one call of Step or Tick, from its first statement to its *)
(* return.  Step first adopts a larger term (StepState .. StepTransferee   *)
(* below give the fields as that prologue leaves them) and then dispatches *)
(* on the role and on the message type.                                    *)
(*                                                                         *)
(* Abstractions.                                                           *)
(*  - The tick counters are left out: an election, heartbeat or transfer   *)
(*    timeout may expire at any moment.                                    *)
(*  - The log starts at index 1 and is never compacted, so the position of *)
(*    an entry in `entries' is its index; RawNode puts one entry in a      *)
(*    MsgPropose, so set_index(lastIndex + 1) is that position.            *)
(*  - applied_ and stabled_ are read by RawNode only and are left to it.   *)
(*  - MsgSnapshot is left out: SendSnapshot has no caller.                 *)
(*  - msgs_ and the transport are one growing set `msgs': a message that   *)
(*    is never received is lost, one received twice is duplicated.         *)
(***************************************************************************)
EXTENDS Integers, FiniteSets, Sequences

CONSTANTS
  Server,        \* ids of the peers in Config::peers
  None,          \* the id NONE (0): no leader, no vote, no transferee
  Value,         \* payloads of client proposals
  Noop,          \* the payload "" of the entry a new leader appends
  ConfChange,    \* payload of an EntryConfChange proposal
  UninitPending, \* what the uninitialised pendingConfIndex_ may hold
  MaxTerm,       \* bound: no election is started above this term
  MaxIndex       \* bound: no proposal is accepted above this log index

ASSUME ServerAssumption == IsFiniteSet(Server) /\ None \notin Server
ASSUME UninitAssumption == UninitPending \subseteq Nat
ASSUME BoundAssumption  == MaxTerm \in Nat /\ MaxIndex \in Nat

VARIABLES
  state,            \* state_: the role
  term,             \* term_
  vote,             \* vote_
  lead,             \* lead_
  votes,            \* votes_: the answers a candidate has received
  entries,          \* raftLog_->entries_
  commited,         \* raftLog_->commited_
  prs,              \* the keys of prs_
  next,             \* prs_[j]->next
  match,            \* prs_[j]->match
  leadTransferee,   \* leadTransferee_
  pendingConfIndex, \* pendingConfIndex_
  msgs              \* every message ever pushed to msgs_

roleVars == <<state, term, vote, lead>>
logVars  == <<entries, commited>>
peerVars == <<prs, next, match>>
confVars == <<leadTransferee, pendingConfIndex>>
vars     == <<roleVars, votes, logVars, peerVars, confVars, msgs>>

Follower  == "StateFollower"
Candidate == "StateCandidate"
Leader    == "StateLeader"
NodeState == {Follower, Candidate, Leader}

MsgType == {"MsgAppend", "MsgAppendResponse", "MsgRequestVote",
            "MsgRequestVoteResponse", "MsgHeartbeat", "MsgHeartbeatResponse",
            "MsgTransferLeader", "MsgTimeoutNow"}

Ballot  == {"none", "granted", "rejected"}
Payload == Value \cup {Noop, ConfChange}
Entry   == [term : Nat, data : Payload]

\* eraftpb::Message; a field that is not set has the protobuf default.
Message == [type : MsgType, from : Server, to : Server, term : Nat,
            logTerm : Nat, index : Nat, entries : Seq(Entry), commit : Nat,
            reject : BOOLEAN]
-----------------------------------------------------------------------------
(* RaftLog *)

LastIndex(ents) == Len(ents)

\* The dummy entry of the storage has index 0 and term 0.  An index beyond
\* the last entry is an out-of-range read in the code; NextInBounds is the
\* property that no handler gets there.
TermAt(ents, i) == IF i \in 1..Len(ents) THEN ents[i].term ELSE 0

LastTerm(ents) == TermAt(ents, LastIndex(ents))
-----------------------------------------------------------------------------
(* The Send* functions: the messages they push. *)

Msg(type, from, to, t) ==
  [type |-> type, from |-> from, to |-> to, term |-> t, logTerm |-> 0,
   index |-> 0, entries |-> <<>>, commit |-> 0, reject |-> FALSE]

AppendMsg(i, j, t, ents, cmt, nxt) ==
  [Msg("MsgAppend", i, j, t) EXCEPT
     !.logTerm = TermAt(ents, nxt - 1), !.index = nxt - 1, !.commit = cmt,
     !.entries = SubSeq(ents, nxt, Len(ents))]

AppendResponseMsg(i, j, t, reject, logTerm, index) ==
  [Msg("MsgAppendResponse", i, j, t) EXCEPT
     !.reject = reject, !.logTerm = logTerm, !.index = index]

HeartbeatMsg(i, j, t) == Msg("MsgHeartbeat", i, j, t)

HeartbeatResponseMsg(i, j, t, reject) ==
  [Msg("MsgHeartbeatResponse", i, j, t) EXCEPT !.reject = reject]

RequestVoteMsg(i, j, t, ents) ==
  [Msg("MsgRequestVote", i, j, t) EXCEPT
     !.index = LastIndex(ents), !.logTerm = LastTerm(ents)]

RequestVoteResponseMsg(i, j, t, reject) ==
  [Msg("MsgRequestVoteResponse", i, j, t) EXCEPT !.reject = reject]

TimeoutNowMsg(i, j) == Msg("MsgTimeoutNow", i, j, 0)

BcastAppend(i, t, ents, cmt, nxt) ==
  {AppendMsg(i, j, t, ents, cmt, nxt[j]) : j \in prs[i] \ {i}}

Send(ms) == msgs' = msgs \cup ms
-----------------------------------------------------------------------------
(* Step: the prologue, as the fields of node i it leaves for the handlers. *)

Newer(i, m) == m.term > term[i]
Stale(i, m) == m.term # 0 /\ m.term < term[i]

StepState(i, m)      == IF Newer(i, m) THEN Follower ELSE state[i]
StepTerm(i, m)       == IF Newer(i, m) THEN m.term ELSE term[i]
StepVote(i, m)       == IF Newer(i, m) THEN None ELSE vote[i]
StepLead(i, m)       == IF Newer(i, m) THEN None ELSE lead[i]
StepTransferee(i, m) == IF Newer(i, m) THEN None ELSE leadTransferee[i]

SetRole(i, s, t, v, l) ==
  /\ state' = [state EXCEPT ![i] = s]
  /\ term' = [term EXCEPT ![i] = t]
  /\ vote' = [vote EXCEPT ![i] = v]
  /\ lead' = [lead EXCEPT ![i] = l]

SetTransferee(i, j) == leadTransferee' = [leadTransferee EXCEPT ![i] = j]

\* What Step leaves when the handler touches none of the fields of the role.
StepRole(i, m) ==
  /\ SetRole(i, StepState(i, m), StepTerm(i, m), StepVote(i, m), StepLead(i, m))
  /\ SetTransferee(i, StepTransferee(i, m))
-----------------------------------------------------------------------------
(* Elections *)

\* Mutant: a node without peers waits for an acknowledgement.
AloneCommitNever(i, ents) == commited[i]

\* A node alone in its cluster commits what it appends at once.
AloneCommit(i, ents) ==
  IF Cardinality(prs[i]) = 1 THEN LastIndex(ents) ELSE commited[i]

BecomeLeader(i, t, v) ==
  LET last == LastIndex(entries[i])
      ents == Append(entries[i], [term |-> t, data |-> Noop])
      nxt  == [j \in Server |-> CASE j = i      -> last + 2
                                  [] j \in prs[i] \ {i} -> last + 1
                                  [] OTHER      -> next[i][j]]
  IN /\ SetRole(i, Leader, t, v, i)
     /\ next' = [next EXCEPT ![i] = nxt]
     /\ match' = [match EXCEPT ![i][i] = last + 1]
     /\ entries' = [entries EXCEPT ![i] = ents]
     /\ Send(BcastAppend(i, t, ents, commited[i], nxt))
     /\ commited' = [commited EXCEPT ![i] = AloneCommit(i, ents)]
     /\ UNCHANGED prs

\* BecomeCandidate and what follows it.
DoElection(i) ==
  /\ term[i] < MaxTerm
  /\ votes' = [votes EXCEPT ![i] =
                 [j \in Server |-> IF j = i THEN "granted" ELSE "none"]]
  /\ \/ /\ Cardinality(prs[i]) = 1
        /\ BecomeLeader(i, term[i] + 1, i)
     \/ /\ Cardinality(prs[i]) # 1
        /\ SetRole(i, Candidate, term[i] + 1, i, None)
        /\ Send({RequestVoteMsg(i, j, term[i] + 1, entries[i]) :
                   j \in prs[i] \ {i}})
        /\ UNCHANGED <<logVars, peerVars>>
  /\ UNCHANGED confVars

\* MsgHup: an election timeout, or RawNode::Campaign.
Hup(i) == state[i] # Leader /\ DoElection(i)

HandleTimeoutNow(m) ==
  /\ m.type = "MsgTimeoutNow"
  /\ m.to \in prs[m.to]
  /\ state[m.to] = Follower
  /\ DoElection(m.to)

\* Mutants: logs compared by length only, or not at all.
MoreUpToDateByIndex(i, m) == LastIndex(entries[i]) > m.index
MoreUpToDateNever(i, m)   == FALSE

\* The log of node i is ahead of the one the candidate describes.
MoreUpToDate(i, m) ==
  \/ LastTerm(entries[i]) > m.logTerm
  \/ LastTerm(entries[i]) = m.logTerm /\ LastIndex(entries[i]) > m.index

\* Mutant: an earlier vote of the term is not looked at.
HandleRequestVoteAgain(m) ==
  LET i == m.to
      reject == Stale(i, m) \/ MoreUpToDate(i, m)
  IN /\ m.type = "MsgRequestVote"
     /\ SetRole(i, StepState(i, m), StepTerm(i, m),
                IF reject THEN StepVote(i, m) ELSE m.from, StepLead(i, m))
     /\ SetTransferee(i, StepTransferee(i, m))
     /\ Send({RequestVoteResponseMsg(i, m.from, StepTerm(i, m), reject)})
     /\ UNCHANGED <<votes, logVars, peerVars, pendingConfIndex>>

HandleRequestVote(m) ==
  LET i == m.to
      reject == \/ Stale(i, m)
                \/ StepVote(i, m) \notin {None, m.from}
                \/ MoreUpToDate(i, m)
  IN /\ m.type = "MsgRequestVote"
     /\ SetRole(i, StepState(i, m), StepTerm(i, m),
                IF reject THEN StepVote(i, m) ELSE m.from, StepLead(i, m))
     /\ SetTransferee(i, StepTransferee(i, m))
     /\ Send({RequestVoteResponseMsg(i, m.from, StepTerm(i, m), reject)})
     /\ UNCHANGED <<votes, logVars, peerVars, pendingConfIndex>>

With(i, ballot) == {j \in Server : votes'[i][j] = ballot}

HandleRequestVoteResponse(m) ==
  LET i == m.to
      threshold == Cardinality(prs[i]) \div 2
      won  == Cardinality(With(i, "granted")) > threshold
      lost == Cardinality(With(i, "rejected")) > threshold
  IN /\ m.type = "MsgRequestVoteResponse"
     /\ state[i] = Candidate
     /\ ~Newer(i, m)
     /\ ~Stale(i, m)
     /\ votes' = [votes EXCEPT ![i][m.from] =
                    IF m.reject THEN "rejected" ELSE "granted"]
     /\ \/ won /\ BecomeLeader(i, term[i], vote[i])
        \/ /\ ~won /\ lost
           /\ SetRole(i, Follower, term[i], None, None)
           /\ UNCHANGED <<logVars, peerVars, msgs>>
        \/ /\ ~won /\ ~lost
           /\ UNCHANGED <<roleVars, logVars, peerVars, msgs>>
     /\ UNCHANGED confVars
-----------------------------------------------------------------------------
(* Replication: the receiving side *)

\* A candidate that hears from the leader of its own term steps down first.
StepsDown(i, m)  == StepState(i, m) = Candidate /\ m.term = StepTerm(i, m)
HeardState(i, m) == IF StepsDown(i, m) THEN Follower ELSE StepState(i, m)
HeardVote(i, m)  == IF StepsDown(i, m) THEN None ELSE StepVote(i, m)

HeardRole(i, m) ==
  /\ SetRole(i, HeardState(i, m), StepTerm(i, m), HeardVote(i, m), m.from)
  /\ SetTransferee(i, StepTransferee(i, m))

\* Mutants: the log is always cut at m.index; a conflicting entry is replaced
\* but what follows it is kept.
MergeAlwaysCuts(ents, m) == SubSeq(ents, 1, m.index) \o m.entries

MergeNeverCuts(ents, m) ==
  LET last == m.index + Len(m.entries)
  IN [k \in 1..(IF last > Len(ents) THEN last ELSE Len(ents)) |->
        IF k \in (m.index + 1)..last THEN m.entries[k - m.index] ELSE ents[k]]

\* The loop over m.entries(): keep what agrees, replace the log from the
\* first entry with another term on, append what is new.
Merge(ents, m) ==
  LET last == m.index + Len(m.entries)
      Agrees(k) == \A l \in (m.index + 1)..k :
                      /\ l <= Len(ents)
                      /\ ents[l].term = m.entries[l - m.index].term
  IN IF Agrees(last) THEN ents
     ELSE [k \in 1..last |-> IF Agrees(k) THEN ents[k]
                                          ELSE m.entries[k - m.index]]

\* Mutant: an old append may lower the commit index.
NewCommitLowers(cmt, m) ==
  LET last == m.index + Len(m.entries)
  IN IF m.commit < last THEN m.commit ELSE last

NewCommit(cmt, m) ==
  LET last == m.index + Len(m.entries)
  IN IF m.commit <= cmt THEN cmt
     ELSE IF m.commit < last THEN m.commit ELSE last

\* Mutants of AppendAnswer: no test of the term at m.index; the hint of a log
\* that is too short is one entry too low; the hint of a conflict names the
\* term of the node.
AnswerAnyTerm(i, m, t) ==
  IF m.index > LastIndex(entries[i])
  THEN AppendResponseMsg(i, m.from, t, TRUE, 0, LastIndex(entries[i]) + 1)
  ELSE AppendResponseMsg(i, m.from, t, FALSE, 0, LastIndex(Merge(entries[i], m)))

AnswerUnderflow(i, m, t) ==
  IF m.index > LastIndex(entries[i])
  THEN AppendResponseMsg(i, m.from, t, TRUE, 0, LastIndex(entries[i]) - 1)
  ELSE AnswerAnyTerm(i, m, t)

AnswerOwnTerm(i, m, t) ==
  IF m.index \in 1..LastIndex(entries[i]) /\ TermAt(entries[i], m.index) # m.logTerm
  THEN AppendResponseMsg(i, m.from, t, TRUE, t, m.index - 1)
  ELSE AnswerAnyTerm(i, m, t)

\* What HandleAppendEntries answers: refused because the log is too short,
\* refused because the entry at m.index has another term (the index it
\* names is the slice index of that entry), or accepted.
AppendAnswer(i, m, t) ==
  LET ents == entries[i]
      Answer(reject, logTerm, index) ==
        AppendResponseMsg(i, m.from, t, reject, logTerm, index)
  IN IF m.index > LastIndex(ents) THEN Answer(TRUE, 0, LastIndex(ents) + 1)
     ELSE IF m.index >= 1 /\ TermAt(ents, m.index) # m.logTerm
          THEN Answer(TRUE, TermAt(ents, m.index), m.index - 1)
          ELSE Answer(FALSE, 0, LastIndex(Merge(ents, m)))

HandleAppendEntries(m) ==
  LET i == m.to
      answer == AppendAnswer(i, m, StepTerm(i, m))
  IN /\ m.type = "MsgAppend"
     /\ \/ /\ Stale(i, m)
           /\ StepRole(i, m)
           /\ Send({AppendResponseMsg(i, m.from, term[i], TRUE, 0, 0)})
           /\ UNCHANGED logVars
        \/ /\ ~Stale(i, m)
           /\ HeardRole(i, m)
           /\ Send({answer})
           /\ \/ answer.reject /\ UNCHANGED logVars
              \/ /\ ~answer.reject
                 /\ entries' = [entries EXCEPT ![i] = Merge(entries[i], m)]
                 /\ commited' = [commited EXCEPT ![i] = NewCommit(@, m)]
     /\ UNCHANGED <<votes, peerVars, pendingConfIndex>>

HandleHeartbeat(m) ==
  LET i == m.to
  IN /\ m.type = "MsgHeartbeat"
     /\ IF Stale(i, m) THEN StepRole(i, m) ELSE HeardRole(i, m)
     /\ Send({HeartbeatResponseMsg(i, m.from, StepTerm(i, m), Stale(i, m))})
     /\ UNCHANGED <<votes, logVars, peerVars, pendingConfIndex>>

\* A response of a newer term: the prologue makes the node a follower, and
\* a follower ignores every response.
StepNewerResponse(m) ==
  /\ m.type \in {"MsgAppendResponse", "MsgHeartbeatResponse",
                 "MsgRequestVoteResponse"}
  /\ Newer(m.to, m)
  /\ StepRole(m.to, m)
  /\ UNCHANGED <<votes, logVars, peerVars, pendingConfIndex, msgs>>
-----------------------------------------------------------------------------
(* Replication: the leader's side *)

\* MsgBeat: a heartbeat timeout.
Beat(i) ==
  /\ state[i] = Leader
  /\ Send({HeartbeatMsg(i, j, term[i]) : j \in prs[i] \ {i}})
  /\ UNCHANGED <<roleVars, votes, logVars, peerVars, confVars>>

\* MsgPropose with one entry, and AppendEntries.  A configuration change is
\* dropped while another one is pending, but the broadcast still happens.
Propose(i, d) ==
  LET dropped == d = ConfChange /\ pendingConfIndex[i] # 0
      ents == IF dropped THEN entries[i]
              ELSE Append(entries[i], [term |-> term[i], data |-> d])
      nxt  == [next[i] EXCEPT ![i] = LastIndex(ents) + 1]
  IN /\ state[i] = Leader
     /\ leadTransferee[i] = None
     /\ LastIndex(entries[i]) < MaxIndex
     /\ entries' = [entries EXCEPT ![i] = ents]
     /\ pendingConfIndex' =
          IF d = ConfChange /\ ~dropped
          THEN [pendingConfIndex EXCEPT ![i] = LastIndex(ents)]
          ELSE pendingConfIndex
     /\ match' = [match EXCEPT ![i][i] = LastIndex(ents)]
     /\ next' = [next EXCEPT ![i] = nxt]
     /\ Send(BcastAppend(i, term[i], ents, commited[i], nxt))
     /\ commited' = [commited EXCEPT ![i] = AloneCommit(i, ents)]
     /\ UNCHANGED <<roleVars, votes, prs, leadTransferee>>

HandleHeartbeatResponse(m) ==
  LET i == m.to
  IN /\ m.type = "MsgHeartbeatResponse"
     /\ state[i] = Leader
     /\ ~Newer(i, m)
     /\ m.from \in prs[i]
     /\ Send({AppendMsg(i, m.from, term[i], entries[i], commited[i],
                        next[i][m.from])})
     /\ UNCHANGED <<roleVars, votes, logVars, peerVars, confVars>>

\* fIndex of HandleAppendEntriesResponse: the slice index of the last entry
\* with a larger term.  With no such entry the variable is uninitialised.
FIndex(ents, logTerm) ==
  LET newer == {k \in 1..Len(ents) : ents[k].term > logTerm}
  IN IF newer = {} THEN 0..(Len(ents) - 1)
     ELSE {k - 1 : k \in {n \in newer : \A l \in newer : l <= n}}

\* Mutant: the leader tries the entry after the one the follower named.
RetryIndexTooHigh(ents, m) == {m.index + 1}

\* The next index a refusal leads to: the index the follower named, or the
\* entry after the last one with the follower's term.
RetryIndex(ents, m) ==
  IF m.logTerm = 0 THEN {m.index}
  ELSE {IF f > 0 /\ ents[f].term = m.logTerm THEN f + 1 ELSE m.index :
          f \in FIndex(ents, m.logTerm)}

\* A refusal that names index 0 is ignored.
HandleAppendReject(m) ==
  LET i == m.to
  IN /\ m.type = "MsgAppendResponse"
     /\ state[i] = Leader
     /\ ~Newer(i, m)
     /\ ~Stale(i, m)
     /\ m.from \in prs[i]
     /\ m.reject
     /\ m.index # 0
     /\ \E index \in RetryIndex(entries[i], m) :
          /\ next' = [next EXCEPT ![i][m.from] = index]
          /\ Send({AppendMsg(i, m.from, term[i], entries[i], commited[i],
                             index)})
     /\ UNCHANGED <<roleVars, votes, logVars, prs, match, confVars>>

\* Mutant: one element too far in the ascending order.
CommitThreshTooHigh(i) == Cardinality(prs[i]) \div 2 + 1

\* LeaderCommit: which element of the sorted match indexes is taken, counted
\* from 0, and the elements (one) with that rank.
CommitThresh(i) ==
  LET n == Cardinality(prs[i])
  IN IF n % 2 = 0 /\ pendingConfIndex[i] = 0 THEN n \div 2 - 1 ELSE n \div 2

RankedMatch(i, mtch) ==
  {n \in {mtch[j] : j \in prs[i]} :
     /\ Cardinality({j \in prs[i] : mtch[j] < n}) <= CommitThresh(i)
     /\ Cardinality({j \in prs[i] : mtch[j] <= n}) > CommitThresh(i)}

\* Mutant: the transferee need not have the whole log.
HandsOverEarly(i, m) == m.from = leadTransferee[i]

\* The leader hands over once the transferee has its whole log.
HandsOver(i, m) == /\ m.from = leadTransferee[i]
                   /\ m.index = LastIndex(entries[i])

\* An acknowledgement: Progress, LeaderCommit, and the hand-over of the
\* leadership once the transferee is up to date.
HandleAppendAck(m) ==
  LET i == m.to
      handover == HandsOver(i, m)
  IN /\ m.type = "MsgAppendResponse"
     /\ state[i] = Leader
     /\ ~Newer(i, m)
     /\ ~Stale(i, m)
     /\ m.from \in prs[i]
     /\ ~m.reject
     /\ m.index > match[i][m.from]
     /\ match' = [match EXCEPT ![i][m.from] = m.index]
     /\ next' = [next EXCEPT ![i][m.from] = m.index + 1]
     /\ \E n \in RankedMatch(i, match'[i]) :
          LET commits == n > commited[i] /\ TermAt(entries[i], n) = term[i]
              cmt == IF commits THEN n ELSE commited[i]
          IN /\ commited' = [commited EXCEPT ![i] = cmt]
             /\ Send((IF commits
                      THEN BcastAppend(i, term[i], entries[i], cmt, next'[i])
                      ELSE {})
                     \cup (IF handover THEN {TimeoutNowMsg(i, m.from)} ELSE {}))
     /\ SetTransferee(i, IF handover THEN None ELSE leadTransferee[i])
     /\ UNCHANGED <<roleVars, votes, entries, prs, pendingConfIndex>>

HandleAppendEntriesResponse(m) == HandleAppendReject(m) \/ HandleAppendAck(m)
-----------------------------------------------------------------------------
(* Leadership transfer *)

\* MsgTransferLeader naming j, at node i: a leader starts the transfer, any
\* other node forwards the message to the leader it knows.
StepTransferLeader(i, j) ==
  \/ /\ state[i] = Leader
     /\ j # i
     /\ leadTransferee[i] # j
     /\ j \in prs[i]
     /\ SetTransferee(i, j)
     /\ Send({IF match[i][j] = LastIndex(entries[i]) THEN TimeoutNowMsg(i, j)
              ELSE AppendMsg(i, j, term[i], entries[i], commited[i],
                             next[i][j])})
     /\ UNCHANGED <<roleVars, votes, logVars, peerVars, pendingConfIndex>>
  \/ /\ state[i] # Leader
     /\ lead[i] # None
     /\ Send({Msg("MsgTransferLeader", j, lead[i], 0)})
     /\ UNCHANGED <<roleVars, votes, logVars, peerVars, confVars>>

\* RawNode::TransferLeader.
TransferLeader(i, j) == StepTransferLeader(i, j)

HandleTransferLeader(m) ==
  m.type = "MsgTransferLeader" /\ StepTransferLeader(m.to, m.from)

\* TickTransfer, when it expires.
TransferTimeout(i) ==
  /\ state[i] = Leader
  /\ leadTransferee[i] # None
  /\ SetTransferee(i, None)
  /\ UNCHANGED <<roleVars, votes, logVars, peerVars, pendingConfIndex, msgs>>
-----------------------------------------------------------------------------
Init ==
  /\ state = [i \in Server |-> Follower]
  /\ term = [i \in Server |-> 0]
  /\ vote = [i \in Server |-> None]
  /\ lead = [i \in Server |-> None]
  /\ votes = [i \in Server |-> [j \in Server |-> "none"]]
  /\ entries = [i \in Server |-> <<>>]
  /\ commited = [i \in Server |-> 0]
  /\ prs = [i \in Server |-> Server]
  /\ next = [i \in Server |-> [j \in Server |-> 1]]
  /\ match = [i \in Server |-> [j \in Server |-> 0]]
  /\ leadTransferee = [i \in Server |-> None]
  /\ pendingConfIndex \in [Server -> UninitPending]
  /\ msgs = {}

Election ==
  \/ \E i \in Server : Hup(i)
  \/ \E m \in msgs : HandleRequestVote(m)
  \/ \E m \in msgs : HandleRequestVoteResponse(m)
  \/ \E m \in msgs : StepNewerResponse(m)

Replication ==
  \/ \E i \in Server, d \in Value : Propose(i, d)
  \/ \E m \in msgs : HandleAppendEntries(m)
  \/ \E m \in msgs : HandleAppendEntriesResponse(m)

\* Step with a message of an election or of replication.
Receive(m) ==
  \/ HandleRequestVote(m)
  \/ HandleRequestVoteResponse(m)
  \/ StepNewerResponse(m)
  \/ HandleAppendEntries(m)
  \/ HandleAppendEntriesResponse(m)

Heartbeat ==
  \/ \E i \in Server : Beat(i)
  \/ \E m \in msgs : HandleHeartbeat(m)
  \/ \E m \in msgs : HandleHeartbeatResponse(m)

Transfer ==
  \/ \E i, j \in Server : TransferLeader(i, j)
  \/ \E m \in msgs : HandleTransferLeader(m)
  \/ \E m \in msgs : HandleTimeoutNow(m)
  \/ \E i \in Server : TransferTimeout(i)

ProposeConfChange == \E i \in Server : Propose(i, ConfChange)

Next == Election \/ Replication \/ Heartbeat \/ Transfer \/ ProposeConfChange

Spec == Init /\ [][Next]_vars
-----------------------------------------------------------------------------
(* Properties *)

TypeOK ==
  /\ state \in [Server -> NodeState]
  /\ term \in [Server -> Nat]
  /\ vote \in [Server -> Server \cup {None}]
  /\ lead \in [Server -> Server \cup {None}]
  /\ votes \in [Server -> [Server -> Ballot]]
  /\ entries \in [Server -> Seq(Entry)]
  /\ commited \in [Server -> Nat]
  /\ prs \in [Server -> SUBSET Server]
  /\ next \in [Server -> [Server -> Nat \ {0}]]
  /\ match \in [Server -> [Server -> Nat]]
  /\ leadTransferee \in [Server -> Server \cup {None}]
  /\ pendingConfIndex \in [Server -> Nat]
  /\ msgs \subseteq Message

FromLeader(m) == m.type \in {"MsgAppend", "MsgHeartbeat"}

\* Node i leads, or a message shows that it led, term t.
Led(i, t) ==
  \/ state[i] = Leader /\ term[i] = t
  \/ \E m \in msgs : FromLeader(m) /\ m.from = i /\ m.term = t

\* At most one node leads a term: no two leaders of one term exist, and every
\* MsgAppend or MsgHeartbeat of a term, however late it arrives, was sent by
\* the one node that leads (or led) it.  BecomeFollower clears vote_ even when
\* the term stays the same, so this does not follow from "one vote per term".
OneLeaderPerTerm ==
  \A i, j \in Server, t \in 1..MaxTerm : Led(i, t) /\ Led(j, t) => i = j

IsGrant(m) == m.type = "MsgRequestVoteResponse" /\ ~m.reject

\* The nodes whose votes make i the leader of term t: itself and those that
\* granted it a vote; and that they are more than half.
Supporters(i, t) ==
  {i} \cup {j \in Server : \E m \in msgs : /\ IsGrant(m) /\ m.from = j
                                           /\ m.to = i /\ m.term = t}

Elected(i, t) == 2 * Cardinality(Supporters(i, t)) > Cardinality(Server)

\* No action changes the peers (AddNode and RemoveNode are in Membership).
FixedPeers == \A i \in Server : prs[i] = Server

\* A candidate or leader holds its own vote.
OwnVote == \A i \in Server : state[i] # Follower => vote[i] = i

\* Vote messages go to another node, carry a term, and none is of the future.
VoteMsgs ==
  \A m \in msgs : m.type \in {"MsgRequestVote", "MsgRequestVoteResponse"} =>
    m.term # 0 /\ m.from # m.to /\ m.term <= term[m.from]

\* A vote granted in the current term of a follower is still in its vote_.
GrantRemembered ==
  \A m \in msgs : IsGrant(m) /\ m.term = term[m.from] =>
    state[m.from] = Follower /\ vote[m.from] = m.to

\* No node grants two candidates a vote in one term.
GrantUnique ==
  \A m1, m2 \in msgs :
    IsGrant(m1) /\ IsGrant(m2) /\ m1.from = m2.from /\ m1.term = m2.term
      => m1.to = m2.to

\* The ballots a candidate counts as granted were granted, in its term.
BallotsGranted ==
  \A i, j \in Server : state[i] = Candidate /\ votes[i][j] = "granted" =>
    j \in Supporters(i, term[i])

\* Who sent a leader's message of its current term leads it still.
LeaderMsgs ==
  \A m \in msgs : FromLeader(m) =>
    /\ m.term <= term[m.from]
    /\ m.term = term[m.from] => state[m.from] = Leader

\* Who led a term grants no vote in it.
LeaderGrantsNone ==
  \A m1, m2 \in msgs :
    FromLeader(m1) /\ IsGrant(m2) /\ m1.from = m2.from => m1.term # m2.term

\* Every leader, past or present, had the votes of a majority.
LeadersElected ==
  /\ \A i \in Server : state[i] = Leader => Elected(i, term[i])
  /\ \A m \in msgs : FromLeader(m) => Elected(m.from, m.term)

\* Why OneLeaderPerTerm holds although vote_ is cleared within a term.  A
\* candidate or leader holds its own vote; a node that granted a vote in its
\* current term is a follower that still remembers it; so no node grants two
\* votes of a term, and none that led a term grants one in it; a candidate
\* counts only votes it was granted; and every leader was elected.
ElectionInv ==
  /\ FixedPeers
  /\ OwnVote
  /\ VoteMsgs
  /\ GrantRemembered
  /\ GrantUnique
  /\ BallotsGranted
  /\ LeaderMsgs
  /\ LeaderGrantsNone
  /\ LeadersElected

\* "Each follower will vote for at most one candidate in a given term": a node
\* that campaigned in a term (BecomeCandidate votes for itself) grants no vote
\* of that term to another node.
VoteOncePerTerm ==
  \A m1, m2 \in msgs :
    /\ m1.type = "MsgRequestVote"
    /\ m2.type = "MsgRequestVoteResponse" /\ ~m2.reject
    /\ m1.from = m2.from
    => m1.term # m2.term

\* Two logs that hold an entry of one term at one index are equal up to it:
\* what the prevIndex / prevLogTerm test of HandleAppendEntries must ensure.
LogMatching ==
  \A i, j \in Server :
    \A k \in 1..Len(entries[i]) :
      k <= Len(entries[j]) /\ entries[i][k].term = entries[j][k].term
        => SubSeq(entries[i], 1, k) = SubSeq(entries[j], 1, k)

\* A stretch of a log: the entries after an index, and the term at that index.
\* Every log is one, and every MsgAppend carries one.
Stretch(index, logTerm, ents) == [index |-> index, logTerm |-> logTerm, entries |-> ents]

Stretches ==
  {Stretch(0, 0, entries[i]) : i \in Server}
    \cup {Stretch(m.index, m.logTerm, m.entries) :
            m \in {n \in msgs : n.type = "MsgAppend"}}

Covers(f, k) == k \in (f.index + 1)..(f.index + Len(f.entries))

\* Where two stretches hold an entry of one term at one index, they are equal
\* up to it, as far back as both reach.
Agree(f, g) ==
  \A k \in 1..(f.index + Len(f.entries)) :
    /\ Covers(f, k) /\ Covers(g, k)
    /\ f.entries[k - f.index].term = g.entries[k - g.index].term
    => /\ \A l \in 1..k : l > f.index /\ l > g.index =>
                           f.entries[l - f.index] = g.entries[l - g.index]
       /\ f.index = g.index => f.logTerm = g.logTerm
       /\ f.index < g.index => f.entries[g.index - f.index].term = g.logTerm
       /\ g.index < f.index => g.entries[f.index - g.index].term = f.logTerm

StretchesAgree ==
  \A f \in Stretches : /\ f.index = 0 => f.logTerm = 0
                       /\ \A g \in Stretches : Agree(f, g)

\* A leader has created every entry of its term, so its log reaches that far.
LeaderCreatedAll ==
  \A i \in Server : state[i] = Leader =>
    \A f \in Stretches : \A l \in DOMAIN f.entries :
      f.entries[l].term = term[i] => f.index + l <= Len(entries[i])

\* Node i has led term t and not left it without leaving the term.
LedOnce(i, t) ==
  /\ Elected(i, t)
  /\ t <= term[i]
  /\ t = term[i] => state[i] = Leader
  /\ \A m \in msgs : IsGrant(m) /\ m.from = i => m.term # t

\* The entries of a term were created by a leader of the term.
EntriesOfLeaders ==
  \A f \in Stretches : \A l \in DOMAIN f.entries :
    \E i \in Server : LedOnce(i, f.entries[l].term)

\* Only transfers can be addressed to their sender, and only a follower has
\* term 0.
OthersAddressed ==
  /\ \A m \in msgs : m.type \in {"MsgAppend", "MsgAppendResponse", "MsgHeartbeat",
                                "MsgHeartbeatResponse"} => m.from # m.to
  /\ \A m \in msgs : m.type = "MsgAppend" => m.term # 0
  /\ \A i \in Server : state[i] # Follower => term[i] # 0

\* Why LogMatching holds: what is on its way to a follower agrees with every
\* log, and a leader creates only entries that no log and no message holds.
LogInv == StretchesAgree /\ LeaderCreatedAll /\ EntriesOfLeaders /\ OthersAddressed

CommittedPrefix(i) == SubSeq(entries[i], 1, commited[i])

\* A leader holds everything that any node committed in an earlier or in the
\* same term, so its log never overwrites an entry that was applied.
LeaderCompleteness ==
  \A i, j \in Server :
    /\ commited[j] <= Len(entries[j])
    /\ state[i] = Leader /\ term[j] <= term[i] =>
         /\ Len(entries[i]) >= commited[j]
         /\ SubSeq(entries[i], 1, commited[j]) = CommittedPrefix(j)

\* No two nodes apply different entries at one index.
StateMachineSafety ==
  \A i, j \in Server :
    \A k \in 1..commited[i] :
      k <= commited[j] => /\ k \in DOMAIN entries[i] \cap DOMAIN entries[j]
                          /\ entries[i][k] = entries[j][k]

\* No step lowers commited_, or drops or replaces a committed entry.
CommittedIsStable ==
  [][\A i \in Server :
       /\ commited'[i] >= commited[i]
       /\ Len(entries'[i]) >= commited[i]
       /\ SubSeq(entries'[i], 1, commited[i]) = CommittedPrefix(i)]_vars

\* Node i leads, and for the first time: BecomeLeader does not reset what
\* Progress says of the other nodes, so a node that has led before starts with
\* what it knew then.
LeadsFirst(i) ==
  state[i] = Leader /\ ~\E t \in 1..(term[i] - 1) : Led(i, t)

\* prs_[j]->match of a leader is the truth about a follower of its term: the
\* follower's log agrees with the leader's up to there.
MatchIsReplicated ==
  \A i, j \in Server :
    LeadsFirst(i) /\ term[j] = term[i] =>
      /\ match[i][j] <= Len(entries[j]) /\ match[i][j] <= Len(entries[i])
      /\ SubSeq(entries[j], 1, match[i][j]) = SubSeq(entries[i], 1, match[i][j])

\* SendAppend and LeaderCommit never index past the leader's last entry.
NextInBounds ==
  \A i, j \in Server :
    /\ state[i] = Leader => next[i][j] <= Len(entries[i]) + 1
    /\ LeadsFirst(i) => match[i][j] <= Len(entries[i])

\* The uninitialised fIndex is never read: a leader that looks for the term a
\* refusal names has an entry of a larger term.
FIndexInitialised ==
  \A m \in msgs :
    m.type = "MsgAppendResponse" /\ m.reject /\ m.logTerm # 0
      /\ state[m.to] = Leader /\ m.term = term[m.to]
      => \E k \in 1..Len(entries[m.to]) : entries[m.to][k].term > m.logTerm

\* A leader that hands over (SendTimeoutNow) does so to a node with its whole
\* log: what it knows of the transferee (prs_[j]->match) is not out of date.
HandoverComplete ==
  [][\A m \in msgs' \ msgs :
       m.type = "MsgTimeoutNow" /\ LeadsFirst(m.from) /\ term[m.to] = term[m.from]
         => entries[m.to] = entries[m.from]]_vars

\* A leader without peers has committed its whole log: no acknowledgement
\* will ever reach it, so LeaderCommit never runs and BecomeLeader and
\* AppendEntries have to commit for it.
AloneCommitsAll ==
  \A i \in Server :
    state[i] = Leader /\ prs[i] = {i} => commited[i] = LastIndex(entries[i])

\* An entry the leader commits by counting is on more than half of the peers,
\* itself included.
CommittedOnMajority ==
  \A i \in Server :
    state[i] = Leader /\ TermAt(entries[i], commited[i]) = term[i]
      /\ commited[i] > 0 =>
      2 * Cardinality({j \in Server :
             /\ Len(entries[j]) >= commited[i]
             /\ entries[j][commited[i]] = entries[i][commited[i]]})
        > Cardinality(Server)
=============================================================================
