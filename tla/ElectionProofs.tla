--------------------------- MODULE ElectionProofs ---------------------------
(***************************************************************************)
(* Type correctness, at most one leader per term, and the four kinds of    *)
(* steps, proved for every cluster.  ElectionInv is inductive; the steps of *)
(* Next fall into five kinds by what they do to the fields it reads: they  *)
(* leave the roles alone, they make one node hear of a leader or of a newer *)
(* term, they answer a vote request, they count a vote, or they start an   *)
(* election.  What the later proofs need of a step is said by Moves.       *)
(***************************************************************************)
EXTENDS StretchProofs

\* A leaf is Zenon's unless it names the SMT solver, for arithmetic.
USE ZenonT(60)

-----------------------------------------------------------------------------
(* Type correctness *)

\* A leader and RawNode append entries.
LEMMA AppendEntryType ==
  ASSUME NEW ents \in Seq(Entry), NEW t \in Nat, NEW d \in Payload
  PROVE  /\ Append(ents, [term |-> t, data |-> d]) \in Seq(Entry)
         /\ Len(Append(ents, [term |-> t, data |-> d])) = Len(ents) + 1
<1>1. [term |-> t, data |-> d] \in Entry
  BY DEF Entry
<1> QED BY SMTT(60), <1>1

\* The message every Send* function starts from.
LEMMA MsgIsMessage ==
  ASSUME NEW type \in MsgType, NEW i \in Server, NEW j \in Server, NEW t \in Nat
  PROVE  Msg(type, i, j, t) \in Message
<1>1. <<>> \in Seq(Entry)
  BY SMTT(60)
<1> QED BY <1>1 DEF Msg, Message

\* SendAppend, for a next index that is at least 1.
LEMMA AppendMsgIsMessage ==
  ASSUME NEW i \in Server, NEW j \in Server, NEW t \in Nat,
         NEW ents \in Seq(Entry), NEW cmt \in Nat, NEW n \in Nat \ {0}
  PROVE  AppendMsg(i, j, t, ents, cmt, n) \in Message
<1>1. Msg("MsgAppend", i, j, t) \in Message
  BY MsgIsMessage DEF MsgType
<1>2. TermAt(ents, n - 1) \in Nat /\ n - 1 \in Nat
  BY SMTT(60), TermAtType
<1>3. SubSeq(ents, n, Len(ents)) \in Seq(Entry)
  BY SuffixType
<1> QED BY <1>1, <1>2, <1>3 DEF AppendMsg, Message

\* SendAppendResponse.
LEMMA AppendResponseMsgIsMessage ==
  ASSUME NEW i \in Server, NEW j \in Server, NEW t \in Nat,
         NEW reject \in BOOLEAN, NEW logTerm \in Nat, NEW index \in Nat
  PROVE  AppendResponseMsg(i, j, t, reject, logTerm, index) \in Message
<1>1. Msg("MsgAppendResponse", i, j, t) \in Message
  BY MsgIsMessage DEF MsgType
<1> QED BY <1>1 DEF AppendResponseMsg, Message

\* SendHeartbeat and SendHeartbeatResponse.
LEMMA HeartbeatMsgsAreMessages ==
  ASSUME NEW i \in Server, NEW j \in Server, NEW t \in Nat, NEW reject \in BOOLEAN
  PROVE  /\ HeartbeatMsg(i, j, t) \in Message
         /\ HeartbeatResponseMsg(i, j, t, reject) \in Message
<1>1. Msg("MsgHeartbeat", i, j, t) \in Message
  BY MsgIsMessage DEF MsgType
<1>2. Msg("MsgHeartbeatResponse", i, j, t) \in Message
  BY MsgIsMessage DEF MsgType
<1> QED BY <1>1, <1>2 DEF HeartbeatMsg, HeartbeatResponseMsg, Message

\* SendRequestVote and SendRequestVoteResponse.
LEMMA VoteMsgsAreMessages ==
  ASSUME NEW i \in Server, NEW j \in Server, NEW t \in Nat,
         NEW ents \in Seq(Entry), NEW reject \in BOOLEAN
  PROVE  /\ RequestVoteMsg(i, j, t, ents) \in Message
         /\ RequestVoteResponseMsg(i, j, t, reject) \in Message
<1>1. Msg("MsgRequestVote", i, j, t) \in Message
  BY MsgIsMessage DEF MsgType
<1>2. Msg("MsgRequestVoteResponse", i, j, t) \in Message
  BY MsgIsMessage DEF MsgType
<1>3. LastIndex(ents) \in Nat /\ LastTerm(ents) \in Nat
  BY SMTT(60), TermAtType DEF LastIndex, LastTerm
<1> QED BY <1>1, <1>2, <1>3 DEF RequestVoteMsg, RequestVoteResponseMsg, Message

\* SendTimeoutNow and the forwarded MsgTransferLeader.
LEMMA TransferMsgsAreMessages ==
  ASSUME NEW i \in Server, NEW j \in Server
  PROVE  /\ TimeoutNowMsg(i, j) \in Message
         /\ Msg("MsgTransferLeader", i, j, 0) \in Message
BY MsgIsMessage DEF TimeoutNowMsg, MsgType

\* BcastAppend.
LEMMA BcastAppendIsMessages ==
  ASSUME TypeOK, NEW i \in Server, NEW t \in Nat, NEW ents \in Seq(Entry),
         NEW cmt \in Nat, NEW nxt \in [Server -> Nat \ {0}]
  PROVE  BcastAppend(i, t, ents, cmt, nxt) \subseteq Message
<1>1. ASSUME NEW j \in prs[i] \ {i}
      PROVE  AppendMsg(i, j, t, ents, cmt, nxt[j]) \in Message
  <2>1. j \in Server /\ nxt[j] \in Nat \ {0}
    BY DEF TypeOK
  <2> QED BY <2>1, AppendMsgIsMessage
<1> QED BY <1>1 DEF BcastAppend

\* The role fields Step leaves, and any role a handler sets, are well typed.
LEMMA SetRoleType ==
  ASSUME TypeOK, NEW i \in Server, NEW s \in NodeState, NEW t \in Nat,
         NEW v \in Server \cup {None}, NEW l \in Server \cup {None},
         SetRole(i, s, t, v, l)
  PROVE  /\ state' \in [Server -> NodeState]
         /\ term' \in [Server -> Nat]
         /\ vote' \in [Server -> Server \cup {None}]
         /\ lead' \in [Server -> Server \cup {None}]
BY DEF TypeOK, SetRole

\* The fields the prologue of Step leaves have their types.
LEMMA StepFieldTypes ==
  ASSUME TypeOK, NEW m \in msgs, NEW i \in Server
  PROVE  /\ StepState(i, m) \in NodeState
         /\ StepTerm(i, m) \in Nat
         /\ StepVote(i, m) \in Server \cup {None}
         /\ StepLead(i, m) \in Server \cup {None}
         /\ StepTransferee(i, m) \in Server \cup {None}
         /\ HeardState(i, m) \in NodeState
         /\ HeardVote(i, m) \in Server \cup {None}
         /\ m.from \in Server /\ m.to \in Server
BY DEF TypeOK, Message, StepState, StepTerm, StepVote, StepLead, StepTransferee, HeardState,
       HeardVote, NodeState, Follower

\* So have they when the handler leaves the role alone,
LEMMA StepRoleType ==
  ASSUME TypeOK, NEW m \in msgs, StepRole(m.to, m)
  PROVE  /\ state' \in [Server -> NodeState]
         /\ term' \in [Server -> Nat]
         /\ vote' \in [Server -> Server \cup {None}]
         /\ lead' \in [Server -> Server \cup {None}]
         /\ leadTransferee' \in [Server -> Server \cup {None}]
<1> m.to \in Server
  BY DEF TypeOK, Message
<1>1. SetRole(m.to, StepState(m.to, m), StepTerm(m.to, m), StepVote(m.to, m),
              StepLead(m.to, m))
  BY DEF StepRole
<1>2. leadTransferee' \in [Server -> Server \cup {None}]
  BY StepFieldTypes DEF StepRole, SetTransferee, TypeOK
<1> QED BY <1>1, <1>2, StepFieldTypes, SetRoleType

\* and when the node follows the sender of an append or a heartbeat.
LEMMA HeardRoleType ==
  ASSUME TypeOK, NEW m \in msgs, HeardRole(m.to, m)
  PROVE  /\ state' \in [Server -> NodeState]
         /\ term' \in [Server -> Nat]
         /\ vote' \in [Server -> Server \cup {None}]
         /\ lead' \in [Server -> Server \cup {None}]
         /\ leadTransferee' \in [Server -> Server \cup {None}]
<1> m.to \in Server /\ m.from \in Server
  BY DEF TypeOK, Message
<1>1. SetRole(m.to, HeardState(m.to, m), StepTerm(m.to, m), HeardVote(m.to, m),
              m.from)
  BY DEF HeardRole
<1>2. leadTransferee' \in [Server -> Server \cup {None}]
  BY StepFieldTypes DEF HeardRole, SetTransferee, TypeOK
<1> QED BY <1>1, <1>2, StepFieldTypes, SetRoleType

\* BecomeLeader keeps every field it touches well typed.
LEMMA BecomeLeaderType ==
  ASSUME TypeOK, NEW i \in Server, NEW t \in Nat, NEW v \in Server \cup {None},
         BecomeLeader(i, t, v), votes' \in [Server -> [Server -> Ballot]],
         UNCHANGED confVars
  PROVE  TypeOK'
<1> DEFINE last == LastIndex(entries[i])
           ents == Append(entries[i], [term |-> t, data |-> Noop])
           nxt  == [j \in Server |-> CASE j = i      -> last + 2
                                       [] j \in prs[i] \ {i} -> last + 1
                                       [] OTHER      -> next[i][j]]
<1>1. entries[i] \in Seq(Entry) /\ last \in Nat
  BY SMTT(60) DEF TypeOK, LastIndex
<1>2. ents \in Seq(Entry)
  BY <1>1, AppendEntryType DEF Payload
<1>3. nxt \in [Server -> Nat \ {0}]
  <2>1. ASSUME NEW j \in Server
        PROVE  (CASE j = i      -> last + 2
                  [] j \in prs[i] \ {i} -> last + 1
                  [] OTHER      -> next[i][j]) \in Nat \ {0}
    <3>1. next[i][j] \in Nat \ {0}
      BY DEF TypeOK
    <3> HIDE DEF last
    <3> QED BY SMTT(60), <1>1, <3>1
  <2> QED BY <2>1
<1>4. /\ SetRole(i, Leader, t, v, i)
      /\ next' = [next EXCEPT ![i] = nxt]
      /\ match' = [match EXCEPT ![i][i] = last + 1]
      /\ entries' = [entries EXCEPT ![i] = ents]
      /\ msgs' = msgs \cup BcastAppend(i, t, ents, commited[i], nxt)
      /\ commited' = [commited EXCEPT ![i] = AloneCommit(i, ents)]
      /\ prs' = prs
  BY DEF BecomeLeader, Send
<1> HIDE DEF last, ents, nxt
<1>5. BcastAppend(i, t, ents, commited[i], nxt) \subseteq Message
  BY <1>2, <1>3, BcastAppendIsMessages DEF TypeOK
<1>6. /\ state' \in [Server -> NodeState]
      /\ term' \in [Server -> Nat]
      /\ vote' \in [Server -> Server \cup {None}]
      /\ lead' \in [Server -> Server \cup {None}]
  BY <1>4, SetRoleType DEF NodeState
<1>7. entries' \in [Server -> Seq(Entry)]
  BY <1>2, <1>4 DEF TypeOK
<1>8. commited' \in [Server -> Nat]
  <2>1. AloneCommit(i, ents) \in Nat
    BY SMTT(60) DEF AloneCommit, LastIndex, TypeOK
  <2> QED BY <1>4, <2>1 DEF TypeOK
<1>9. next' \in [Server -> [Server -> Nat \ {0}]]
  BY <1>3, <1>4 DEF TypeOK
<1>10. match' \in [Server -> [Server -> Nat]]
  <2>1. last + 1 \in Nat
    BY SMTT(60), <1>1
  <2> QED BY <1>4, <2>1 DEF TypeOK
<1> QED
  BY <1>4, <1>5, <1>6, <1>7, <1>8, <1>9, <1>10 DEF TypeOK, confVars

\* The answer of HandleAppendEntries is a message, and it accepts only what
\* continues the log.
LEMMA AppendAnswerType ==
  ASSUME TypeOK, NEW i \in Server, NEW m \in Message, NEW t \in Nat
  PROVE  /\ AppendAnswer(i, m, t) \in Message
         /\ ~AppendAnswer(i, m, t).reject => m.index <= Len(entries[i])
<1> DEFINE ents == entries[i]
           a == AppendAnswer(i, m, t)
<1>1. /\ m.from \in Server /\ m.index \in Nat
      /\ ents \in Seq(Entry) /\ Len(ents) \in Nat
  BY SMTT(60) DEF TypeOK, Message
<1>2. TermAt(ents, m.index) \in Nat
  BY SMTT(60), <1>1, TermAtType
<1>3. CASE m.index > Len(ents)
  <2>1. a = AppendResponseMsg(i, m.from, t, TRUE, 0, Len(ents) + 1)
    BY <1>3 DEF AppendAnswer, LastIndex
  <2>2. a.reject = TRUE
    BY <2>1 DEF AppendResponseMsg, Msg
  <2>3. Len(ents) + 1 \in Nat
    BY SMTT(60), <1>1
  <2>4. a \in Message
    BY <1>1, <2>1, <2>3, AppendResponseMsgIsMessage
  <2> QED BY <2>2, <2>4
<1>4. CASE /\ m.index <= Len(ents)
           /\ m.index >= 1 /\ TermAt(ents, m.index) # m.logTerm
  <2>1. a = AppendResponseMsg(i, m.from, t, TRUE, TermAt(ents, m.index), m.index - 1)
    <3>1. ~(m.index > Len(ents))
      BY SMTT(60), <1>1, <1>4
    <3> QED BY <1>4, <3>1 DEF AppendAnswer, LastIndex
  <2>2. m.index - 1 \in Nat
    BY SMTT(60), <1>1, <1>4
  <2>3. a \in Message
    BY <1>1, <1>2, <2>1, <2>2, AppendResponseMsgIsMessage
  <2> QED BY <1>4, <2>3
<1>5. CASE /\ m.index <= Len(ents)
           /\ ~(m.index >= 1 /\ TermAt(ents, m.index) # m.logTerm)
  <2>1. a = AppendResponseMsg(i, m.from, t, FALSE, 0, Len(Merge(ents, m)))
    <3>1. ~(m.index > Len(ents))
      BY SMTT(60), <1>1, <1>5
    <3> QED BY <1>5, <3>1 DEF AppendAnswer, LastIndex
  <2>2. Len(Merge(ents, m)) \in Nat
    BY <1>1, <1>5, MergeType, SeqShape
  <2>3. a \in Message
    BY <1>1, <2>1, <2>2, AppendResponseMsgIsMessage
  <2> QED BY <1>5, <2>3
<1> QED BY SMTT(60), <1>1, <1>3, <1>4, <1>5

\* From here on, one lemma per handler: it keeps TypeOK.  DoElection:
LEMMA DoElectionType ==
  ASSUME TypeOK, NEW i \in Server, DoElection(i)
  PROVE  TypeOK'
<1>1. term[i] + 1 \in Nat /\ entries[i] \in Seq(Entry) /\ prs[i] \subseteq Server
  BY SMTT(60) DEF TypeOK
<1>2. votes' \in [Server -> [Server -> Ballot]]
  BY DEF TypeOK, DoElection, Ballot
<1>3. CASE BecomeLeader(i, term[i] + 1, i)
  BY <1>1, <1>2, <1>3, BecomeLeaderType DEF DoElection
<1>4. CASE /\ SetRole(i, Candidate, term[i] + 1, i, None)
           /\ Send({RequestVoteMsg(i, j, term[i] + 1, entries[i]) :
                      j \in prs[i] \ {i}})
           /\ UNCHANGED <<logVars, peerVars>>
  <2>1. ASSUME NEW j \in prs[i] \ {i}
        PROVE  RequestVoteMsg(i, j, term[i] + 1, entries[i]) \in Message
    <3> QED BY <1>1, VoteMsgsAreMessages
  <2>2. msgs' \subseteq Message
    BY <1>4, <2>1 DEF Send, TypeOK
  <2>3. /\ state' \in [Server -> NodeState]
        /\ term' \in [Server -> Nat]
        /\ vote' \in [Server -> Server \cup {None}]
        /\ lead' \in [Server -> Server \cup {None}]
    BY <1>1, <1>4, SetRoleType DEF NodeState
  <2> QED BY <1>2, <1>4, <2>2, <2>3 DEF TypeOK, DoElection, logVars, peerVars, confVars
<1> QED BY <1>3, <1>4 DEF DoElection

\* HandleRequestVote keeps TypeOK.
LEMMA HandleRequestVoteType ==
  ASSUME TypeOK, NEW m \in msgs, HandleRequestVote(m)
  PROVE  TypeOK'
<1> DEFINE reject == \/ Stale(m.to, m)
                     \/ StepVote(m.to, m) \notin {None, m.from}
                     \/ MoreUpToDate(m.to, m)
           v == IF reject THEN StepVote(m.to, m) ELSE m.from
<1>1. m.to \in Server /\ m.from \in Server
  BY DEF TypeOK, Message
<1>2. reject \in BOOLEAN /\ v \in Server \cup {None}
  BY <1>1, StepFieldTypes DEF Stale, MoreUpToDate
<1>3. /\ SetRole(m.to, StepState(m.to, m), StepTerm(m.to, m), v, StepLead(m.to, m))
      /\ SetTransferee(m.to, StepTransferee(m.to, m))
      /\ Send({RequestVoteResponseMsg(m.to, m.from, StepTerm(m.to, m), reject)})
      /\ UNCHANGED <<votes, logVars, peerVars, pendingConfIndex>>
  BY DEF HandleRequestVote
<1> HIDE DEF reject, v
<1>4. /\ state' \in [Server -> NodeState]
      /\ term' \in [Server -> Nat]
      /\ vote' \in [Server -> Server \cup {None}]
      /\ lead' \in [Server -> Server \cup {None}]
  BY <1>1, <1>2, <1>3, StepFieldTypes, SetRoleType
<1>5. leadTransferee' \in [Server -> Server \cup {None}]
  BY <1>3, StepFieldTypes DEF SetTransferee, TypeOK
<1>6. RequestVoteResponseMsg(m.to, m.from, StepTerm(m.to, m), reject) \in Message
  <2>1. entries[m.to] \in Seq(Entry)
    BY <1>1 DEF TypeOK
  <2> QED BY <1>1, <1>2, <2>1, StepFieldTypes, VoteMsgsAreMessages
<1> QED BY <1>3, <1>4, <1>5, <1>6 DEF Send, TypeOK, logVars, peerVars

\* HandleRequestVoteResponse keeps TypeOK, whatever the count of votes.
LEMMA HandleRequestVoteResponseType ==
  ASSUME TypeOK, NEW m \in msgs, HandleRequestVoteResponse(m)
  PROVE  TypeOK'
<1>1. m.to \in Server /\ m.from \in Server
  BY DEF TypeOK, Message
<1>2. votes' \in [Server -> [Server -> Ballot]]
  <2>1. votes' = [votes EXCEPT ![m.to][m.from] =
                    IF m.reject THEN "rejected" ELSE "granted"]
    BY DEF HandleRequestVoteResponse
  <2>2. (IF m.reject THEN "rejected" ELSE "granted") \in Ballot
    BY DEF Ballot
  <2> QED BY <2>1, <2>2 DEF TypeOK
<1>3. term[m.to] \in Nat /\ vote[m.to] \in Server \cup {None}
  BY <1>1 DEF TypeOK
<1>4. UNCHANGED confVars
  BY DEF HandleRequestVoteResponse
<1>5. CASE BecomeLeader(m.to, term[m.to], vote[m.to])
  BY <1>1, <1>2, <1>3, <1>4, <1>5, BecomeLeaderType
<1>6. CASE /\ SetRole(m.to, Follower, term[m.to], None, None)
           /\ UNCHANGED <<logVars, peerVars, msgs>>
  <2>1. /\ state' \in [Server -> NodeState]
        /\ term' \in [Server -> Nat]
        /\ vote' \in [Server -> Server \cup {None}]
        /\ lead' \in [Server -> Server \cup {None}]
    BY <1>1, <1>3, <1>6, SetRoleType DEF NodeState
  <2> QED BY <1>2, <1>4, <1>6, <2>1 DEF TypeOK, logVars, peerVars, confVars
<1>7. CASE UNCHANGED <<roleVars, logVars, peerVars, msgs>>
  BY <1>2, <1>4, <1>7 DEF TypeOK, roleVars, logVars, peerVars, confVars
<1> QED BY <1>5, <1>6, <1>7 DEF HandleRequestVoteResponse

\* HandleAppendEntries keeps TypeOK: refused, or merged and acknowledged.
LEMMA HandleAppendEntriesType ==
  ASSUME TypeOK, NEW m \in msgs, HandleAppendEntries(m)
  PROVE  TypeOK'
<1> DEFINE answer == AppendAnswer(m.to, m, StepTerm(m.to, m))
<1>1. m \in Message /\ m.to \in Server /\ m.from \in Server
  BY DEF TypeOK, Message
<1>2. /\ answer \in Message
      /\ ~answer.reject => m.index <= Len(entries[m.to])
  BY <1>1, StepFieldTypes, AppendAnswerType
<1>3. CASE /\ StepRole(m.to, m)
           /\ Send({AppendResponseMsg(m.to, m.from, term[m.to], TRUE, 0, 0)})
           /\ UNCHANGED logVars
  <2>1. AppendResponseMsg(m.to, m.from, term[m.to], TRUE, 0, 0) \in Message
    BY <1>1, AppendResponseMsgIsMessage DEF TypeOK
  <2> QED BY <1>3, <2>1, StepRoleType
          DEF Send, TypeOK, logVars, peerVars, HandleAppendEntries
<1>4. CASE /\ HeardRole(m.to, m)
           /\ Send({answer})
           /\ UNCHANGED logVars
  BY <1>2, <1>4, HeardRoleType DEF Send, TypeOK, logVars, peerVars, HandleAppendEntries
<1>5. CASE /\ HeardRole(m.to, m)
           /\ Send({answer})
           /\ ~answer.reject
           /\ entries' = [entries EXCEPT ![m.to] = Merge(entries[m.to], m)]
           /\ commited' = [commited EXCEPT ![m.to] = NewCommit(@, m)]
  <2>1. entries[m.to] \in Seq(Entry) /\ commited[m.to] \in Nat
    BY <1>1 DEF TypeOK
  <2>2. entries' \in [Server -> Seq(Entry)]
    BY <1>2, <1>5, MergeType DEF TypeOK
  <2>3. NewCommit(commited[m.to], m) \in Nat
    <3>1. m.commit \in Nat /\ m.index \in Nat /\ Len(m.entries) \in Nat
      BY SMTT(60), <1>1 DEF Message
    <3> QED BY SMTT(60), <2>1, <3>1 DEF NewCommit
  <2>4. commited' \in [Server -> Nat]
    BY <1>5, <2>3 DEF TypeOK
  <2>5. msgs' \subseteq Message
    BY <1>2, <1>5 DEF Send, TypeOK
  <2> HIDE DEF answer
  <2> QED BY <1>5, <2>2, <2>4, <2>5, HeardRoleType DEF TypeOK, peerVars, HandleAppendEntries
<1> QED BY <1>3, <1>4, <1>5 DEF HandleAppendEntries

\* HandleHeartbeat keeps TypeOK.
LEMMA HandleHeartbeatType ==
  ASSUME TypeOK, NEW m \in msgs, HandleHeartbeat(m)
  PROVE  TypeOK'
<1>1. m.to \in Server /\ m.from \in Server /\ Stale(m.to, m) \in BOOLEAN
  BY DEF TypeOK, Message, Stale
<1>2. HeartbeatResponseMsg(m.to, m.from, StepTerm(m.to, m), Stale(m.to, m)) \in Message
  BY <1>1, StepFieldTypes, HeartbeatMsgsAreMessages
<1> QED BY <1>2, StepRoleType, HeardRoleType
        DEF HandleHeartbeat, Send, TypeOK, logVars, peerVars

\* BcastHeartbeat keeps TypeOK.
LEMMA BeatType ==
  ASSUME TypeOK, NEW i \in Server, Beat(i)
  PROVE  TypeOK'
<1>1. ASSUME NEW j \in prs[i] \ {i}
      PROVE  HeartbeatMsg(i, j, term[i]) \in Message
  <2>1. j \in Server /\ term[i] \in Nat
    BY DEF TypeOK
  <2> QED BY <2>1, HeartbeatMsgsAreMessages
<1>2. msgs' \subseteq Message
  BY <1>1 DEF Beat, Send, TypeOK
<1> QED BY <1>2 DEF Beat, TypeOK, roleVars, logVars, peerVars, confVars

\* AppendEntries keeps TypeOK, a dropped configuration change included.
LEMMA ProposeType ==
  ASSUME TypeOK, NEW i \in Server, NEW d \in Payload, Propose(i, d)
  PROVE  TypeOK'
<1> DEFINE dropped == d = ConfChange /\ pendingConfIndex[i] # 0
           ents == IF dropped THEN entries[i]
                   ELSE Append(entries[i], [term |-> term[i], data |-> d])
           nxt  == [next[i] EXCEPT ![i] = LastIndex(ents) + 1]
           cmt  == AloneCommit(i, ents)
<1>1. entries[i] \in Seq(Entry) /\ term[i] \in Nat /\ commited[i] \in Nat
  BY DEF TypeOK
<1>2. ents \in Seq(Entry)
  BY <1>1, AppendEntryType
<1>3. LastIndex(ents) \in Nat /\ LastIndex(ents) + 1 \in Nat \ {0}
  BY SMTT(60) DEF LastIndex
<1>4. nxt \in [Server -> Nat \ {0}]
  BY <1>3 DEF TypeOK
<1>5. cmt \in Nat
  BY <1>1, <1>3 DEF AloneCommit
<1>6. /\ entries' = [entries EXCEPT ![i] = ents]
      /\ \/ pendingConfIndex' = [pendingConfIndex EXCEPT ![i] = LastIndex(ents)]
         \/ pendingConfIndex' = pendingConfIndex
      /\ match' = [match EXCEPT ![i][i] = LastIndex(ents)]
      /\ next' = [next EXCEPT ![i] = nxt]
      /\ msgs' = msgs \cup BcastAppend(i, term[i], ents, commited[i], nxt)
      /\ commited' = [commited EXCEPT ![i] = cmt]
      /\ UNCHANGED <<roleVars, votes, prs, leadTransferee>>
  BY DEF Propose, Send
<1> HIDE DEF ents, nxt, cmt
<1>7. entries' \in [Server -> Seq(Entry)]
  BY <1>2, <1>6 DEF TypeOK
<1>8. pendingConfIndex' \in [Server -> Nat]
  BY <1>3, <1>6 DEF TypeOK
<1>9. match' \in [Server -> [Server -> Nat]]
  BY <1>3, <1>6 DEF TypeOK
<1>10. next' \in [Server -> [Server -> Nat \ {0}]]
  BY <1>4, <1>6 DEF TypeOK
<1>11. msgs' \subseteq Message
  BY <1>2, <1>4, <1>6, BcastAppendIsMessages DEF TypeOK
<1>12. commited' \in [Server -> Nat]
  BY <1>5, <1>6 DEF TypeOK
<1> QED BY <1>6, <1>7, <1>8, <1>9, <1>10, <1>11, <1>12 DEF TypeOK, roleVars

\* The append that answers a MsgHeartbeatResponse keeps TypeOK.
LEMMA HandleHeartbeatResponseType ==
  ASSUME TypeOK, NEW m \in msgs, HandleHeartbeatResponse(m)
  PROVE  TypeOK'
<1>1. m.to \in Server /\ m.from \in Server
  BY DEF TypeOK, Message
<1>2. /\ term[m.to] \in Nat /\ entries[m.to] \in Seq(Entry)
      /\ commited[m.to] \in Nat /\ next[m.to][m.from] \in Nat \ {0}
  BY SMTT(60), <1>1 DEF TypeOK
<1>3. AppendMsg(m.to, m.from, term[m.to], entries[m.to], commited[m.to],
                next[m.to][m.from]) \in Message
  BY <1>1, <1>2, AppendMsgIsMessage
<1> QED BY <1>3
        DEF HandleHeartbeatResponse, Send, TypeOK, roleVars, logVars, peerVars, confVars

\* The next index that a refusal leads to is not 0.
LEMMA RetryIndexType ==
  ASSUME NEW ents \in Seq(Entry), NEW m \in Message, m.index # 0,
         NEW index \in RetryIndex(ents, m)
  PROVE  index \in Nat \ {0}
<1>1. m.index \in Nat /\ m.logTerm \in Nat /\ Len(ents) \in Nat
  BY SeqShape DEF Message
<1>2. CASE m.logTerm = 0
  BY <1>1, <1>2 DEF RetryIndex
<1>3. CASE m.logTerm # 0
  <2>1. PICK f \in FIndex(ents, m.logTerm) :
          index = IF f > 0 /\ ents[f].term = m.logTerm THEN f + 1 ELSE m.index
    BY <1>3 DEF RetryIndex
  <2>2. f \in Int
    BY SMTT(60) DEF FIndex
  <2> QED BY SMTT(60), <1>1, <2>1, <2>2
<1> QED BY <1>2, <1>3

\* A refusal keeps TypeOK: the next index it leads to is at least 1.
LEMMA HandleAppendRejectType ==
  ASSUME TypeOK, NEW m \in msgs, HandleAppendReject(m)
  PROVE  TypeOK'
<1>1. m \in Message /\ m.to \in Server /\ m.from \in Server
  BY DEF TypeOK, Message
<1>2. /\ term[m.to] \in Nat /\ entries[m.to] \in Seq(Entry)
      /\ commited[m.to] \in Nat
  BY <1>1 DEF TypeOK
<1>3. PICK index \in RetryIndex(entries[m.to], m) :
        /\ next' = [next EXCEPT ![m.to][m.from] = index]
        /\ Send({AppendMsg(m.to, m.from, term[m.to], entries[m.to],
                           commited[m.to], index)})
  BY DEF HandleAppendReject
<1>4. index \in Nat \ {0}
  BY <1>1, <1>2, RetryIndexType DEF HandleAppendReject
<1>5. AppendMsg(m.to, m.from, term[m.to], entries[m.to], commited[m.to], index)
        \in Message
  BY <1>1, <1>2, <1>4, AppendMsgIsMessage
<1>6. next' \in [Server -> [Server -> Nat \ {0}]]
  BY <1>3, <1>4 DEF TypeOK
<1>7. msgs' \subseteq Message
  BY <1>3, <1>5 DEF Send, TypeOK
<1> QED BY <1>6, <1>7 DEF HandleAppendReject, TypeOK, roleVars, logVars, confVars

\* An acknowledgement, LeaderCommit and the hand-over keep TypeOK.
LEMMA HandleAppendAckType ==
  ASSUME TypeOK, NEW m \in msgs, HandleAppendAck(m)
  PROVE  TypeOK'
<1> DEFINE i == m.to
           commits(n) == n > commited[i] /\ TermAt(entries[i], n) = term[i]
           cmt(n) == IF commits(n) THEN n ELSE commited[i]
<1>1. m \in Message /\ i \in Server /\ m.from \in Server /\ m.index \in Nat
  BY DEF TypeOK, Message
<1>2. /\ term[i] \in Nat /\ entries[i] \in Seq(Entry) /\ commited[i] \in Nat
      /\ prs[i] \subseteq Server
  BY <1>1 DEF TypeOK
<1>3. /\ match' = [match EXCEPT ![i][m.from] = m.index]
      /\ next' = [next EXCEPT ![i][m.from] = m.index + 1]
  BY DEF HandleAppendAck
<1>4. match' \in [Server -> [Server -> Nat]]
  BY <1>1, <1>3 DEF TypeOK
<1>5. next' \in [Server -> [Server -> Nat \ {0}]]
  <2>1. m.index + 1 \in Nat \ {0}
    BY SMTT(60), <1>1
  <2> QED BY <1>3, <2>1 DEF TypeOK
<1>6. PICK n \in RankedMatch(i, match'[i]) :
        /\ commited' = [commited EXCEPT ![i] = cmt(n)]
        /\ Send((IF commits(n)
                 THEN BcastAppend(i, term[i], entries[i], cmt(n), next'[i])
                 ELSE {})
                \cup (IF HandsOver(i, m) THEN {TimeoutNowMsg(i, m.from)} ELSE {}))
  BY DEF HandleAppendAck
<1>7. cmt(n) \in Nat
  <2>1. n \in {match'[i][j] : j \in prs[i]}
    BY DEF RankedMatch
  <2>2. n \in Nat
    BY <1>1, <1>2, <1>4, <2>1
  <2> QED BY <1>2, <2>2
<1>8. commited' \in [Server -> Nat]
  BY <1>6, <1>7 DEF TypeOK
<1>9. msgs' \subseteq Message
  <2>1. TimeoutNowMsg(i, m.from) \in Message
    BY <1>1, TransferMsgsAreMessages
  <2>2. next'[i] \in [Server -> Nat \ {0}]
    BY <1>1, <1>5
  <2>3. BcastAppend(i, term[i], entries[i], cmt(n), next'[i]) \subseteq Message
    <3> HIDE DEF cmt
    <3> QED BY <1>1, <1>2, <1>7, <2>2, BcastAppendIsMessages
  <2> HIDE DEF cmt, commits
  <2> QED BY <1>6, <2>1, <2>3 DEF Send, TypeOK
<1>10. leadTransferee' \in [Server -> Server \cup {None}]
  <2>2. \/ leadTransferee' = [leadTransferee EXCEPT ![i] = None]
        \/ leadTransferee' = [leadTransferee EXCEPT ![i] = leadTransferee[i]]
    BY DEF HandleAppendAck, SetTransferee
  <2> QED BY <2>2 DEF TypeOK
<1> QED BY <1>4, <1>5, <1>8, <1>9, <1>10 DEF HandleAppendAck, TypeOK, roleVars

\* Starting or forwarding a leadership transfer keeps TypeOK.
LEMMA StepTransferLeaderType ==
  ASSUME TypeOK, NEW i \in Server, NEW j \in Server, StepTransferLeader(i, j)
  PROVE  TypeOK'
<1>1. /\ term[i] \in Nat /\ entries[i] \in Seq(Entry) /\ commited[i] \in Nat
      /\ next[i][j] \in Nat \ {0} /\ lead[i] \in Server \cup {None}
  BY DEF TypeOK
<1>2. /\ TimeoutNowMsg(i, j) \in Message
      /\ AppendMsg(i, j, term[i], entries[i], commited[i], next[i][j]) \in Message
  BY <1>1, TransferMsgsAreMessages, AppendMsgIsMessage
<1>3. CASE state[i] = Leader
  <2>1. msgs' \subseteq Message
    BY <1>2, <1>3 DEF StepTransferLeader, Send, TypeOK
  <2>2. leadTransferee' \in [Server -> Server \cup {None}]
    BY <1>3 DEF StepTransferLeader, SetTransferee, TypeOK
  <2> QED BY <1>3, <2>1, <2>2 DEF StepTransferLeader, TypeOK, roleVars, logVars, peerVars
<1>4. CASE state[i] # Leader
  <2>1. Msg("MsgTransferLeader", j, lead[i], 0) \in Message
    BY <1>1, <1>4, TransferMsgsAreMessages DEF StepTransferLeader
  <2> QED BY <1>4, <2>1
          DEF StepTransferLeader, Send, TypeOK, roleVars, logVars, peerVars, confVars
<1> QED BY <1>3, <1>4

\* Every step of the cluster keeps TypeOK: one step of the proof per action.
LEMMA TypeStep ==
  ASSUME TypeOK, [Next]_vars
  PROVE  TypeOK'
<1>1. ASSUME NEW i \in Server, Hup(i)
      PROVE  TypeOK'
  BY <1>1, DoElectionType DEF Hup
<1>2. ASSUME NEW m \in msgs, HandleRequestVote(m)
      PROVE  TypeOK'
  BY <1>2, HandleRequestVoteType
<1>3. ASSUME NEW m \in msgs, HandleRequestVoteResponse(m)
      PROVE  TypeOK'
  BY <1>3, HandleRequestVoteResponseType
<1>4. ASSUME NEW m \in msgs, StepNewerResponse(m)
      PROVE  TypeOK'
  BY <1>4, StepRoleType DEF StepNewerResponse, TypeOK, logVars, peerVars
<1>5. ASSUME NEW i \in Server, NEW d \in Payload, Propose(i, d)
      PROVE  TypeOK'
  BY <1>5, ProposeType
<1>6. ASSUME NEW m \in msgs, HandleAppendEntries(m)
      PROVE  TypeOK'
  BY <1>6, HandleAppendEntriesType
<1>7. ASSUME NEW m \in msgs, HandleAppendReject(m)
      PROVE  TypeOK'
  BY <1>7, HandleAppendRejectType
<1>8. ASSUME NEW m \in msgs, HandleAppendAck(m)
      PROVE  TypeOK'
  BY <1>8, HandleAppendAckType
<1>9. ASSUME NEW i \in Server, Beat(i)
      PROVE  TypeOK'
  BY <1>9, BeatType
<1>10. ASSUME NEW m \in msgs, HandleHeartbeat(m)
       PROVE  TypeOK'
  BY <1>10, HandleHeartbeatType
<1>11. ASSUME NEW m \in msgs, HandleHeartbeatResponse(m)
       PROVE  TypeOK'
  BY <1>11, HandleHeartbeatResponseType
<1>12. ASSUME NEW i \in Server, NEW j \in Server, TransferLeader(i, j)
       PROVE  TypeOK'
  BY <1>12, StepTransferLeaderType DEF TransferLeader
<1>13. ASSUME NEW m \in msgs, HandleTransferLeader(m)
       PROVE  TypeOK'
  <2>1. m.to \in Server /\ m.from \in Server
    BY DEF TypeOK, Message
  <2> QED BY <1>13, <2>1, StepTransferLeaderType DEF HandleTransferLeader
<1>14. ASSUME NEW m \in msgs, HandleTimeoutNow(m)
       PROVE  TypeOK'
  <2>1. m.to \in Server
    BY DEF TypeOK, Message
  <2> QED BY <1>14, <2>1, DoElectionType DEF HandleTimeoutNow
<1>15. ASSUME NEW i \in Server, TransferTimeout(i)
       PROVE  TypeOK'
  BY <1>15 DEF TransferTimeout, SetTransferee, TypeOK, roleVars, logVars, peerVars
<1>16. CASE UNCHANGED vars
  BY <1>16 DEF TypeOK, vars, roleVars, logVars, peerVars, confVars
<1>17. Value \subseteq Payload /\ ConfChange \in Payload
  BY DEF Payload
<1>18. CASE Election
  BY <1>1, <1>2, <1>3, <1>4, <1>18 DEF Election
<1>19. CASE Replication
  BY <1>5, <1>6, <1>7, <1>8, <1>17, <1>19 DEF Replication, HandleAppendEntriesResponse
<1>20. CASE Heartbeat
  BY <1>9, <1>10, <1>11, <1>20 DEF Heartbeat
<1>21. CASE Transfer
  BY <1>12, <1>13, <1>14, <1>15, <1>21 DEF Transfer
<1>22. CASE ProposeConfChange
  BY <1>5, <1>17, <1>22 DEF ProposeConfChange
<1> QED BY <1>16, <1>18, <1>19, <1>20, <1>21, <1>22 DEF Next

\* The constructor leaves well-typed fields.
LEMMA TypeInit ==
  ASSUME Init
  PROVE  TypeOK
<1>3. pendingConfIndex \in [Server -> Nat]
  BY UninitAssumption DEF Init
<1> QED BY SMTT(60), <1>3 DEF Init, TypeOK, NodeState, Ballot

\* Every field of every RaftContext and every message stays well typed: in
\* particular no subtraction the handlers do on an index (next - 1 in
\* SendAppend, the hint of a refusal) goes below 0.
THEOREM TypeCorrect == Spec => []TypeOK
<1>1. Init => TypeOK
  BY TypeInit
<1>2. TypeOK /\ [Next]_vars => TypeOK'
  BY TypeStep
<1> QED BY <1>1, <1>2, PTL DEF Spec

\* A message that says nothing about votes.
NoVoteMsg(m) == m.type \notin {"MsgRequestVote", "MsgRequestVoteResponse"}

\* A step that changes no role and sends, besides answers that do not matter
\* here, only messages of a leader of its own term: proposals, heartbeats,
\* the retries and acknowledgements of replication, leadership transfer.
LEMMA QuietStep ==
  ASSUME Counting, TypeOK, ElectionInv, TypeOK',
         UNCHANGED <<roleVars, votes, prs>>, msgs \subseteq msgs',
         \A m \in msgs' \ msgs :
           /\ NoVoteMsg(m)
           /\ FromLeader(m) => state[m.from] = Leader /\ m.term = term[m.from]
  PROVE  ElectionInv'
<1>1. /\ state' = state /\ term' = term /\ vote' = vote /\ votes' = votes
      /\ prs' = prs
  BY DEF roleVars
<1>2. \A m \in msgs' : ~NoVoteMsg(m) => m \in msgs
  OBVIOUS
<1>3. \A m \in msgs' : IsGrant(m) => m \in msgs
  BY <1>2 DEF IsGrant, NoVoteMsg
<1>4. \A m \in msgs' : m \in Message /\ m.from \in Server /\ m.term \in Nat
  BY DEF TypeOK, Message
<1>5. /\ FixedPeers' /\ OwnVote'
  BY <1>1 DEF ElectionInv, FixedPeers, OwnVote
<1>6. VoteMsgs'
  BY <1>1 DEF ElectionInv, VoteMsgs, NoVoteMsg
<1>7. GrantRemembered' /\ GrantUnique'
  BY <1>1, <1>3 DEF ElectionInv, GrantRemembered, GrantUnique, IsGrant
<1>8. BallotsGranted'
  <2> SUFFICES ASSUME NEW i \in Server, NEW j \in Server,
                      state[i] = Candidate, votes[i][j] = "granted"
               PROVE  j \in Supporters(i, term[i])'
    BY <1>1 DEF BallotsGranted
  <2>1. j \in Supporters(i, term[i]) /\ term[i] \in Nat
    BY DEF ElectionInv, BallotsGranted, TypeOK
  <2> QED BY <1>1, <2>1 DEF Supporters
<1>9. LeaderMsgs'
  <2> SUFFICES ASSUME NEW m \in msgs', FromLeader(m)
               PROVE  /\ m.term <= term[m.from]
                      /\ m.term = term[m.from] => state[m.from] = Leader
    BY <1>1 DEF LeaderMsgs, FromLeader
  <2>1. CASE m \in msgs
    BY <2>1 DEF ElectionInv, LeaderMsgs
  <2>2. CASE m \notin msgs
    BY SMTT(60), <1>4, <2>2
  <2> QED BY <2>1, <2>2
<1>10. LeaderGrantsNone'
  <2> SUFFICES ASSUME NEW m1 \in msgs', NEW m2 \in msgs', FromLeader(m1),
                      IsGrant(m2), m1.from = m2.from
               PROVE  m1.term # m2.term
    BY DEF LeaderGrantsNone, FromLeader, IsGrant
  <2>1. m2 \in msgs
    BY <1>3
  <2>2. CASE m1 \in msgs
    BY <2>1, <2>2 DEF ElectionInv, LeaderGrantsNone
  <2>3. CASE m1 \notin msgs
    <3>1. state[m2.from] = Leader /\ m1.term = term[m2.from]
      BY <2>3
    <3> QED BY <2>1, <3>1 DEF ElectionInv, GrantRemembered, Leader, Follower
  <2> QED BY <2>2, <2>3
<1>11. LeadersElected'
  <2>1. ASSUME NEW i \in Server, state[i] = Leader
        PROVE  Elected(i, term[i])'
    <3>1. Elected(i, term[i]) /\ term[i] \in Nat
      BY <2>1 DEF ElectionInv, LeadersElected, TypeOK
    <3> QED BY <1>1, <3>1, ElectedGrows
  <2>2. ASSUME NEW m \in msgs', FromLeader(m)
        PROVE  Elected(m.from, m.term)'
    <3>1. Elected(m.from, m.term)
      BY <1>4, <2>2 DEF ElectionInv, LeadersElected
    <3> QED BY <1>4, <3>1, ElectedGrows
  <2> QED BY <1>1, <2>1, <2>2 DEF LeadersElected, FromLeader
<1> QED BY <1>5, <1>6, <1>7, <1>8, <1>9, <1>10, <1>11 DEF ElectionInv

\* A step that may make nodes followers or raise their terms, but makes no
\* candidate and no leader, deposes no leader within its term, and sends no
\* message of a leader, keeps what ElectionInv says of leaders and ballots.
LEMMA FollowersStep ==
  ASSUME Counting, TypeOK, ElectionInv, TypeOK', UNCHANGED prs, msgs \subseteq msgs',
         \A k, j \in Server : state[k] = Candidate /\ votes'[k][j] = "granted"
                               => j \in Supporters(k, term[k]),
         \A k \in Server :
           /\ term[k] <= term'[k]
           /\ state'[k] # Follower =>
                state'[k] = state[k] /\ term'[k] = term[k] /\ vote'[k] = vote[k]
           /\ state[k] = Leader /\ term'[k] = term[k] => state'[k] = Leader,
         \A m \in msgs' : FromLeader(m) => m \in msgs
  PROVE  /\ FixedPeers' /\ OwnVote' /\ BallotsGranted'
         /\ LeaderMsgs' /\ LeadersElected'
<1>1. \A m \in msgs' : m \in Message /\ m.from \in Server /\ m.term \in Nat
  BY DEF TypeOK, Message
<1>2. \A k \in Server : term[k] \in Nat /\ term'[k] \in Nat
  BY DEF TypeOK
<1>3. FixedPeers' /\ OwnVote'
  BY DEF ElectionInv, FixedPeers, OwnVote
<1>4. BallotsGranted'
  <2> SUFFICES ASSUME NEW k \in Server, NEW j \in Server,
                      state'[k] = Candidate, votes'[k][j] = "granted"
               PROVE  j \in Supporters(k, term[k])'
    BY DEF BallotsGranted
  <2>1. state[k] = Candidate /\ term'[k] = term[k]
    BY DEF Candidate, Follower
  <2> QED BY SMTT(60), <2>1 DEF Supporters
<1>5. LeaderMsgs'
  <2> SUFFICES ASSUME NEW m \in msgs', FromLeader(m)
               PROVE  /\ m.term <= term'[m.from]
                      /\ m.term = term'[m.from] => state'[m.from] = Leader
    BY DEF LeaderMsgs, FromLeader
  <2>1. m \in msgs /\ m.from \in Server /\ m.term \in Nat
    BY <1>1
  <2>2. /\ m.term <= term[m.from]
        /\ m.term = term[m.from] => state[m.from] = Leader
    BY DEF ElectionInv, LeaderMsgs
  <2>3. m.term <= term'[m.from]
    BY SMTT(60), <1>2, <2>1, <2>2
  <2>4. ASSUME m.term = term'[m.from]
        PROVE  state'[m.from] = Leader
    <3>1. m.term = term[m.from] /\ term'[m.from] = term[m.from]
      BY SMTT(60), <1>2, <2>1, <2>2, <2>4
    <3> QED BY <2>1, <2>2, <3>1
  <2> QED BY <2>3, <2>4
<1>6. LeadersElected'
  <2>1. ASSUME NEW k \in Server, state'[k] = Leader
        PROVE  Elected(k, term[k])'
    <3>1. state[k] = Leader /\ term'[k] = term[k] /\ term[k] \in Nat
      BY <1>2, <2>1 DEF Leader, Follower
    <3>2. PICK t \in Nat : t = term[k]
      BY <3>1
    <3>3. Elected(k, t)
      BY <3>1, <3>2 DEF ElectionInv, LeadersElected
    <3>4. Elected(k, t)'
      BY <3>3, ElectedGrows
    <3> QED BY <3>1, <3>2, <3>4
  <2>2. ASSUME NEW m \in msgs', FromLeader(m)
        PROVE  Elected(m.from, m.term)'
    <3>1. Elected(m.from, m.term)
      BY <2>2 DEF ElectionInv, LeadersElected
    <3> QED BY <1>1, <3>1, ElectedGrows
  <2> QED BY <2>1, <2>2 DEF LeadersElected, FromLeader
<1> QED BY <1>3, <1>4, <1>5, <1>6

\* A step in which node i hears of a newer term, or a candidate hears from
\* the leader of its own term or has lost, or nothing happens to its role;
\* what it sends is neither about votes nor a leader's.
LEMMA HeardStep ==
  ASSUME Counting, TypeOK, ElectionInv, TypeOK', NEW i \in Server,
         UNCHANGED prs, msgs \subseteq msgs',
         \A k, j \in Server : state[k] = Candidate /\ votes'[k][j] = "granted"
                               => j \in Supporters(k, term[k]),
         \A k \in Server \ {i} :
           state'[k] = state[k] /\ term'[k] = term[k] /\ vote'[k] = vote[k],
         \/ state'[i] = state[i] /\ term'[i] = term[i] /\ vote'[i] = vote[i]
         \/ state'[i] = Follower /\ term'[i] > term[i]
         \/ state'[i] = Follower /\ term'[i] = term[i] /\ state[i] = Candidate,
         \A m \in msgs' \ msgs : NoVoteMsg(m) /\ ~FromLeader(m)
  PROVE  ElectionInv'
<1>2. \A m \in msgs' : IsGrant(m) => m \in msgs
  BY DEF IsGrant, NoVoteMsg
<1>3. \A m \in msgs' : m \in Message /\ m.from \in Server /\ m.term \in Nat
  BY DEF TypeOK, Message
<1>4. \A k \in Server : term[k] \in Nat /\ term'[k] \in Nat
  BY DEF TypeOK
<1>5. ASSUME NEW k \in Server
      PROVE  /\ term[k] <= term'[k]
             /\ state'[k] # Follower =>
                  state'[k] = state[k] /\ term'[k] = term[k] /\ vote'[k] = vote[k]
             /\ state[k] = Leader /\ term'[k] = term[k] => state'[k] = Leader
  <2>1. CASE k # i
    BY SMTT(60), <1>4, <2>1
  <2>2. CASE k = i
    BY SMTT(60), <1>4 DEF Leader, Candidate
  <2> QED BY <2>1, <2>2
<1>6. FixedPeers' /\ OwnVote' /\ BallotsGranted' /\ LeaderMsgs' /\ LeadersElected'
  BY <1>5, FollowersStep
<1>7. VoteMsgs'
  <2> SUFFICES ASSUME NEW m \in msgs', ~NoVoteMsg(m)
               PROVE  m.term # 0 /\ m.from # m.to /\ m.term <= term'[m.from]
    BY DEF VoteMsgs, NoVoteMsg
  <2>1. m.term # 0 /\ m.from # m.to /\ m.term <= term[m.from]
    BY DEF ElectionInv, VoteMsgs, NoVoteMsg
  <2> QED BY SMTT(60), <1>3, <1>4, <2>1
<1>8. GrantRemembered'
  <2> SUFFICES ASSUME NEW m \in msgs', IsGrant(m), m.term = term'[m.from]
               PROVE  state'[m.from] = Follower /\ vote'[m.from] = m.to
    BY DEF GrantRemembered, IsGrant
  <2>1. m \in msgs /\ m.from \in Server /\ m.term <= term[m.from]
    BY <1>2, <1>3 DEF ElectionInv, VoteMsgs, IsGrant
  <2>2. m.term = term[m.from]
    BY SMTT(60), <1>4, <2>1
  <2>3. state[m.from] = Follower /\ vote[m.from] = m.to
    BY <2>1, <2>2 DEF ElectionInv, GrantRemembered
  <2>4. CASE m.from # i
    BY <2>1, <2>3, <2>4
  <2>5. CASE m.from = i
    <3>1. state[i] # Candidate
      BY <2>3, <2>5 DEF Follower, Candidate
    <3>2. ~(term'[i] > term[i])
      <4>1. term'[i] = term[i]
        BY <2>2, <2>5
      <4> QED BY SMTT(60), <1>4, <4>1
    <3> QED BY <2>3, <2>5, <3>1, <3>2
  <2> QED BY <2>4, <2>5
<1>9. GrantUnique'
  BY <1>2 DEF ElectionInv, GrantUnique, IsGrant
<1>10. LeaderGrantsNone'
  BY <1>2 DEF ElectionInv, LeaderGrantsNone
<1> QED BY <1>6, <1>7, <1>8, <1>9, <1>10 DEF ElectionInv

\* A step in which node i becomes a candidate in a newer term, or a leader
\* that was elected, and sends the messages of its new role.
LEMMA RiseStep ==
  ASSUME Counting, TypeOK, ElectionInv, TypeOK', NEW i \in Server,
         UNCHANGED prs, msgs \subseteq msgs',
         \A k \in Server \ {i} :
           /\ state'[k] = state[k] /\ term'[k] = term[k] /\ vote'[k] = vote[k]
           /\ votes'[k] = votes[k],
         state'[i] # Follower, vote'[i] = i,
         \/ term'[i] = term[i] /\ state[i] = Candidate /\ state'[i] = Leader
         \/ term'[i] > term[i],
         \A j \in Server : state'[i] = Candidate /\ votes'[i][j] = "granted" => j = i,
         state'[i] = Leader => Elected(i, term[i])',
         \A m \in msgs' \ msgs :
           /\ m.from = i /\ m.term = term'[i] /\ m.term # 0
           /\ \/ m.type = "MsgAppend" /\ state'[i] = Leader
              \/ m.type = "MsgRequestVote" /\ m.to # i
  PROVE  ElectionInv'
<1>1. \A m \in msgs' : IsGrant(m) => m \in msgs
  BY DEF IsGrant
<1>2. \A m \in msgs' : m \in Message /\ m.from \in Server /\ m.term \in Nat
  BY DEF TypeOK, Message
<1>3. \A k \in Server : term[k] \in Nat /\ term'[k] \in Nat /\ term[k] <= term'[k]
  <2>1. \A k \in Server : term[k] \in Nat /\ term'[k] \in Nat
    BY DEF TypeOK
  <2> QED BY SMTT(60), <2>1
<1>4. FixedPeers' /\ OwnVote'
  BY DEF ElectionInv, FixedPeers, OwnVote
<1>5. VoteMsgs'
  <2> SUFFICES ASSUME NEW m \in msgs', ~NoVoteMsg(m)
               PROVE  m.term # 0 /\ m.from # m.to /\ m.term <= term'[m.from]
    BY DEF VoteMsgs, NoVoteMsg
  <2>1. CASE m \in msgs
    <3>1. m.term # 0 /\ m.from # m.to /\ m.term <= term[m.from]
      BY <2>1 DEF ElectionInv, VoteMsgs, NoVoteMsg
    <3> QED BY SMTT(60), <1>2, <1>3, <3>1
  <2>2. CASE m \notin msgs
    BY SMTT(60), <1>2, <2>2 DEF NoVoteMsg
  <2> QED BY <2>1, <2>2
<1>6. ASSUME NEW m \in msgs, IsGrant(m), m.from = i
      PROVE  m.term # term'[i]
  <2>1. m.term <= term[i] /\ (m.term = term[i] => state[i] = Follower)
    BY <1>6 DEF ElectionInv, VoteMsgs, GrantRemembered, IsGrant
  <2> QED BY SMTT(60), <1>3, <2>1 DEF Follower, Candidate
<1>7. GrantRemembered'
  <2> SUFFICES ASSUME NEW m \in msgs', IsGrant(m), m.term = term'[m.from]
               PROVE  state'[m.from] = Follower /\ vote'[m.from] = m.to
    BY DEF GrantRemembered, IsGrant
  <2>1. m \in msgs /\ m.from \in Server
    BY <1>1, <1>2
  <2>2. m.from # i
    BY <1>6, <2>1
  <2> QED BY <2>1, <2>2 DEF ElectionInv, GrantRemembered
<1>8. GrantUnique'
  BY DEF ElectionInv, GrantUnique, IsGrant
<1>9. BallotsGranted'
  <2> SUFFICES ASSUME NEW k \in Server, NEW j \in Server,
                      state'[k] = Candidate, votes'[k][j] = "granted"
               PROVE  j \in Supporters(k, term[k])'
    BY DEF BallotsGranted
  <2>1. CASE k = i
    BY <2>1 DEF Supporters
  <2>2. CASE k # i
    <3>1. j \in Supporters(k, term[k]) /\ term'[k] = term[k]
      BY <2>2 DEF ElectionInv, BallotsGranted
    <3> QED BY <3>1 DEF Supporters
  <2> QED BY <2>1, <2>2
<1>10. LeaderMsgs'
  <2> SUFFICES ASSUME NEW m \in msgs', FromLeader(m)
               PROVE  /\ m.term <= term'[m.from]
                      /\ m.term = term'[m.from] => state'[m.from] = Leader
    BY DEF LeaderMsgs, FromLeader
  <2>1. CASE m \notin msgs
    <3>1. m.from = i /\ m.term = term'[i] /\ state'[i] = Leader
      BY <2>1 DEF FromLeader
    <3> QED BY SMTT(60), <1>3, <3>1
  <2>2. CASE m \in msgs
    <3>1. /\ m.term <= term[m.from]
          /\ m.term = term[m.from] => state[m.from] = Leader
      BY <2>2 DEF ElectionInv, LeaderMsgs
    <3>2. m.from \in Server /\ m.term \in Nat
      BY <1>2
    <3>3. CASE m.from = i
      BY SMTT(60), <1>3, <3>1, <3>2 DEF Leader, Candidate
    <3>4. CASE m.from # i
      BY <3>1, <3>2, <3>4
    <3> QED BY <3>3, <3>4
  <2> QED BY <2>1, <2>2
<1>11. LeaderGrantsNone'
  <2> SUFFICES ASSUME NEW m1 \in msgs', NEW m2 \in msgs', FromLeader(m1),
                      IsGrant(m2), m1.from = m2.from
               PROVE  m1.term # m2.term
    BY DEF LeaderGrantsNone, FromLeader, IsGrant
  <2>1. m2 \in msgs
    BY <1>1
  <2>2. CASE m1 \in msgs
    BY <2>1, <2>2 DEF ElectionInv, LeaderGrantsNone
  <2>3. CASE m1 \notin msgs
    BY <1>6, <2>1, <2>3
  <2> QED BY <2>2, <2>3
<1>12. LeadersElected'
  <2>1. ASSUME NEW k \in Server, state'[k] = Leader, k # i
        PROVE  Elected(k, term[k])'
    <3>1. PICK t \in Nat : t = term[k] /\ t = term'[k]
      BY <1>3, <2>1
    <3>2. Elected(k, t)
      BY <2>1, <3>1 DEF ElectionInv, LeadersElected
    <3>3. Elected(k, t)'
      BY <3>2, ElectedGrows
    <3> QED BY <3>1, <3>3
  <2>2. ASSUME NEW m \in msgs', FromLeader(m)
        PROVE  Elected(m.from, m.term)'
    <3>1. CASE m \in msgs
      <4>1. Elected(m.from, m.term)
        BY <2>2, <3>1 DEF ElectionInv, LeadersElected
      <4> QED BY <1>2, <4>1, ElectedGrows
    <3>2. CASE m \notin msgs
      <4>1. m.from = i /\ m.term = term'[i] /\ state'[i] = Leader
        BY <2>2, <3>2 DEF FromLeader
      <4> QED BY <4>1
    <3> QED BY <3>1, <3>2
  <2> QED BY <2>1, <2>2 DEF LeadersElected, FromLeader
<1> QED BY <1>4, <1>5, <1>7, <1>8, <1>9, <1>10, <1>11, <1>12 DEF ElectionInv

\* The heads of the messages that the Send* functions build.
LEMMA AppendMsgHead ==
  ASSUME NEW i, NEW j, NEW t, NEW ents, NEW cmt, NEW n
  PROVE  /\ AppendMsg(i, j, t, ents, cmt, n).type = "MsgAppend"
         /\ AppendMsg(i, j, t, ents, cmt, n).from = i
         /\ AppendMsg(i, j, t, ents, cmt, n).term = t
BY DEF AppendMsg, Msg

\* BcastAppend sends appends of the node's term.
LEMMA BcastAppendHeads ==
  ASSUME NEW i, NEW t, NEW ents, NEW cmt, NEW nxt,
         NEW m \in BcastAppend(i, t, ents, cmt, nxt)
  PROVE  m.type = "MsgAppend" /\ m.from = i /\ m.term = t
BY SMTT(60), AppendMsgHead DEF BcastAppend

\* Answering a vote request: a rejection, or a grant by a node that becomes
\* or stays a follower and remembers the candidate.
LEMMA VoteStep ==
  ASSUME Counting, TypeOK, ElectionInv, TypeOK', NEW m \in msgs, HandleRequestVote(m)
  PROVE  ElectionInv'
<1> DEFINE i == m.to
           reject == \/ Stale(i, m)
                     \/ StepVote(i, m) \notin {None, m.from}
                     \/ MoreUpToDate(i, m)
           r == RequestVoteResponseMsg(i, m.from, StepTerm(i, m), reject)
<1>1. /\ i \in Server /\ m.from \in Server /\ m.term \in Nat /\ i # m.from
      /\ m.term # 0
  BY DEF TypeOK, Message, ElectionInv, VoteMsgs, HandleRequestVote
<1>2. /\ state' = [state EXCEPT ![i] = StepState(i, m)]
      /\ term' = [term EXCEPT ![i] = StepTerm(i, m)]
      /\ vote' = [vote EXCEPT ![i] = IF reject THEN StepVote(i, m) ELSE m.from]
      /\ msgs' = msgs \cup {r}
      /\ votes' = votes /\ prs' = prs
  BY DEF HandleRequestVote, SetRole, Send, peerVars
<1>3. /\ r.type = "MsgRequestVoteResponse" /\ r.from = i /\ r.to = m.from
      /\ r.term = StepTerm(i, m) /\ r.reject = reject
  BY DEF RequestVoteResponseMsg, Msg
<1>4. ~reject => StepVote(i, m) \in {None, m.from}
  OBVIOUS
<1> HIDE DEF i, reject, r
<1>5. \A k \in Server : term[k] \in Nat /\ term'[k] \in Nat
  BY DEF TypeOK
<1>6. /\ state'[i] = StepState(i, m) /\ term'[i] = StepTerm(i, m)
      /\ vote'[i] = IF reject THEN StepVote(i, m) ELSE m.from
      /\ \A k \in Server \ {i} :
           state'[k] = state[k] /\ term'[k] = term[k] /\ vote'[k] = vote[k]
  BY SMTT(60), <1>2 DEF TypeOK
<1>7. /\ term'[i] >= term[i] /\ r.term # 0
      /\ term'[i] = term[i] => /\ state'[i] = state[i]
                               /\ StepVote(i, m) = vote[i]
      /\ term'[i] # term[i] => /\ state'[i] = Follower
                               /\ StepVote(i, m) = None
  BY SMTT(60), <1>1, <1>3, <1>5, <1>6 DEF StepTerm, StepState, StepVote, Newer
<1>8. ~reject => state'[i] = Follower /\ vote'[i] = m.from
  <2>1. CASE term'[i] # term[i]
    BY <1>6, <1>7, <2>1
  <2>2. CASE term'[i] = term[i]
    <3>1. ~reject => vote[i] \in {None, m.from}
      BY <1>4, <1>7, <2>2
    <3>2. vote[i] = i => vote[i] \notin {None, m.from}
      BY <1>1, ServerAssumption
    <3>3. ~reject => state[i] = Follower
      BY <1>1, <3>1, <3>2 DEF ElectionInv, OwnVote
    <3> QED BY <1>6, <1>7, <3>3
  <2> QED BY <2>1, <2>2
<1>9. ASSUME NEW k \in Server
      PROVE  /\ term[k] <= term'[k]
             /\ state'[k] # Follower =>
                  state'[k] = state[k] /\ term'[k] = term[k] /\ vote'[k] = vote[k]
             /\ state[k] = Leader /\ term'[k] = term[k] => state'[k] = Leader
  <2>1. CASE k # i
    BY SMTT(60), <1>5, <1>6, <2>1
  <2>2. CASE k = i
    BY <1>6, <1>7, <1>8, <2>2
  <2> QED BY <2>1, <2>2
<1>10. \A n \in msgs' : FromLeader(n) => n \in msgs
  BY <1>2, <1>3 DEF FromLeader
<1>11. FixedPeers' /\ OwnVote' /\ BallotsGranted' /\ LeaderMsgs' /\ LeadersElected'
  <2>1. \A k, j \in Server : state[k] = Candidate /\ votes'[k][j] = "granted"
                               => j \in Supporters(k, term[k])
    BY <1>2 DEF ElectionInv, BallotsGranted
  <2>2. UNCHANGED prs /\ msgs \subseteq msgs'
    BY <1>2
  <2> QED BY <1>9, <1>10, <2>1, <2>2, FollowersStep
<1>12. VoteMsgs'
  <2> SUFFICES ASSUME NEW n \in msgs', ~NoVoteMsg(n)
               PROVE  n.term # 0 /\ n.from # n.to /\ n.term <= term'[n.from]
    BY DEF VoteMsgs, NoVoteMsg
  <2>1. CASE n \in msgs
    <3>1. /\ n.term # 0 /\ n.from # n.to /\ n.term <= term[n.from]
          /\ n.from \in Server /\ n.term \in Nat
      BY <2>1 DEF ElectionInv, VoteMsgs, NoVoteMsg, TypeOK, Message
    <3> QED BY SMTT(60), <1>5, <1>9, <3>1
  <2>2. CASE n = r
    BY SMTT(60), <1>1, <1>3, <1>5, <1>6, <1>7, <2>2
  <2> QED BY <1>2, <2>1, <2>2
<1>13. GrantRemembered'
  <2> SUFFICES ASSUME NEW n \in msgs', IsGrant(n), n.term = term'[n.from]
               PROVE  state'[n.from] = Follower /\ vote'[n.from] = n.to
    BY DEF GrantRemembered, IsGrant
  <2>1. CASE n = r
    BY <1>3, <1>8, <2>1 DEF IsGrant
  <2>2. CASE n \in msgs
    <3>1. /\ n.term <= term[n.from] /\ n.from \in Server /\ n.term \in Nat
          /\ n.to \in Server
      BY <2>2 DEF ElectionInv, VoteMsgs, IsGrant, TypeOK, Message
    <3>2. n.term = term[n.from] /\ term'[n.from] = term[n.from]
      BY SMTT(60), <1>5, <1>9, <3>1
    <3>3. state[n.from] = Follower /\ vote[n.from] = n.to
      BY <2>2, <3>2 DEF ElectionInv, GrantRemembered
    <3>4. CASE n.from # i
      BY <1>6, <3>1, <3>3, <3>4
    <3>5. CASE n.from = i
      <4>1. StepVote(i, m) = n.to /\ state'[i] = Follower
        BY <1>7, <3>2, <3>3, <3>5
      <4>2. n.to # None
        BY <3>1, ServerAssumption
      <4>3. ~reject => n.to = m.from
        BY <1>4, <4>1, <4>2
      <4>4. vote'[i] = n.to
        BY <1>6, <4>1, <4>3
      <4> QED BY <3>5, <4>1, <4>4
    <3> QED BY <3>4, <3>5
  <2> QED BY <1>2, <2>1, <2>2
<1>14. GrantUnique'
  <2> SUFFICES ASSUME NEW m1 \in msgs', NEW m2 \in msgs', IsGrant(m1), IsGrant(m2),
                      m1.from = m2.from, m1.term = m2.term
               PROVE  m1.to = m2.to
    BY DEF GrantUnique, IsGrant
  <2>1. CASE m1 \in msgs /\ m2 \in msgs
    BY <2>1 DEF ElectionInv, GrantUnique
  <2>2. CASE m1 = r \/ m2 = r
    <3>1. m1.term = term'[m1.from] /\ m2.term = term'[m2.from]
      BY SMTT(60), <1>3, <1>6, <2>2
    <3> QED BY <1>13, <3>1 DEF GrantRemembered, IsGrant
  <2> QED BY <1>2, <2>1, <2>2
<1>15. LeaderGrantsNone'
  <2> SUFFICES ASSUME NEW m1 \in msgs', NEW m2 \in msgs', FromLeader(m1),
                      IsGrant(m2), m1.from = m2.from, m1.term = m2.term
               PROVE  FALSE
    BY DEF LeaderGrantsNone, FromLeader, IsGrant
  <2>1. m1 \in msgs
    BY <1>10
  <2>2. CASE m2 \in msgs
    BY <2>1, <2>2 DEF ElectionInv, LeaderGrantsNone
  <2>3. CASE m2 = r
    <3>1. m1.from = i /\ m1.term = term'[i]
      BY <1>3, <1>6, <2>3
    <3>2. state'[i] = Leader
      BY <1>11, <3>1 DEF LeaderMsgs, FromLeader
    <3>3. state'[i] = Follower
      BY <1>3, <1>8, <2>3 DEF IsGrant
    <3> QED BY <3>2, <3>3 DEF Leader, Follower
  <2> QED BY <1>2, <2>2, <2>3
<1> QED BY <1>11, <1>12, <1>13, <1>14, <1>15 DEF ElectionInv

\* What BecomeLeader does to the fields that matter here.
LEMMA BecomeLeaderRole ==
  ASSUME NEW i, NEW t, NEW v, BecomeLeader(i, t, v)
  PROVE  /\ state' = [state EXCEPT ![i] = Leader]
         /\ term' = [term EXCEPT ![i] = t]
         /\ vote' = [vote EXCEPT ![i] = v]
         /\ prs' = prs /\ msgs \subseteq msgs'
         /\ \A n \in msgs' \ msgs : n.type = "MsgAppend" /\ n.from = i /\ n.term = t
<1>1. /\ state' = [state EXCEPT ![i] = Leader]
      /\ term' = [term EXCEPT ![i] = t]
      /\ vote' = [vote EXCEPT ![i] = v]
      /\ prs' = prs
      /\ \E ents, nxt : msgs' = msgs \cup BcastAppend(i, t, ents, commited[i], nxt)
  BY DEF BecomeLeader, SetRole, Send
<1> QED BY SMTT(60), <1>1, BcastAppendHeads

\* Counting a ballot: the ballots counted as granted are grants, so a
\* candidate that has won is elected.
LEMMA CountStep ==
  ASSUME Counting, TypeOK, ElectionInv, TypeOK', NEW m \in msgs, HandleRequestVoteResponse(m)
  PROVE  ElectionInv'
<1> DEFINE i == m.to
           won  == Cardinality(With(i, "granted")) > Cardinality(prs[i]) \div 2
           lost == Cardinality(With(i, "rejected")) > Cardinality(prs[i]) \div 2
<1>1. /\ i \in Server /\ m.from \in Server /\ m.term \in Nat /\ term[i] \in Nat
      /\ m.type = "MsgRequestVoteResponse" /\ m.term # 0
      /\ state[i] = Candidate /\ ~Newer(i, m) /\ ~Stale(i, m)
  BY DEF TypeOK, Message, ElectionInv, VoteMsgs, HandleRequestVoteResponse
<1>2. /\ votes' = [votes EXCEPT ![i][m.from] =
                     IF m.reject THEN "rejected" ELSE "granted"]
      /\ \/ won /\ BecomeLeader(i, term[i], vote[i])
         \/ /\ SetRole(i, Follower, term[i], None, None)
            /\ UNCHANGED <<logVars, peerVars, msgs>>
         \/ UNCHANGED <<roleVars, logVars, peerVars, msgs>>
  BY DEF HandleRequestVoteResponse
<1>3. won => Cardinality(With(i, "granted")) > Cardinality(prs[i]) \div 2
  OBVIOUS
<1> HIDE DEF i, won, lost
<1>4. m.term = term[i]
  BY SMTT(60), <1>1 DEF Newer, Stale
<1>5. prs[i] = Server /\ vote[i] = i
  BY <1>1 DEF ElectionInv, FixedPeers, OwnVote, Candidate, Follower
<1>6. ASSUME NEW k \in Server, NEW j \in Server, state[k] = Candidate,
             votes'[k][j] = "granted"
      PROVE  j \in Supporters(k, term[k])
  <2>1. CASE k = i /\ j = m.from
    <3>1. ~m.reject
      <4>1. PICK b : /\ votes' = [votes EXCEPT ![i][m.from] = b]
                     /\ b = IF m.reject THEN "rejected" ELSE "granted"
        BY <1>2
      <4>2. votes \in [Server -> [Server -> Ballot]]
        BY DEF TypeOK
      <4>3. votes'[i][m.from] = b
        BY <1>1, <4>1, <4>2
      <4>4. "granted" # "rejected"
        OBVIOUS
      <4> QED BY <1>6, <2>1, <4>1, <4>3, <4>4
    <3>2. IsGrant(m) /\ m.to = k
      BY <1>1, <2>1, <3>1 DEF IsGrant, i
    <3> QED BY <1>4, <2>1, <3>2 DEF Supporters
  <2>2. CASE ~(k = i /\ j = m.from)
    <3>1. votes[k][j] = "granted"
      BY SMTT(60), <1>2, <1>6, <2>2
    <3> QED BY <1>6, <3>1 DEF ElectionInv, BallotsGranted
  <2> QED BY <2>1, <2>2
<1>7. \A k \in Server \ {i} : votes'[k] = votes[k]
  BY <1>2 DEF TypeOK
<1>8. CASE won /\ BecomeLeader(i, term[i], vote[i])
  <2>1. /\ state' = [state EXCEPT ![i] = Leader]
        /\ term' = [term EXCEPT ![i] = term[i]]
        /\ vote' = [vote EXCEPT ![i] = vote[i]]
        /\ prs' = prs /\ msgs \subseteq msgs'
        /\ \A n \in msgs' \ msgs : n.type = "MsgAppend" /\ n.from = i /\ n.term = term[i]
    BY <1>8, BecomeLeaderRole
  <2>2. /\ state'[i] = Leader /\ term'[i] = term[i] /\ vote'[i] = i
        /\ \A k \in Server \ {i} :
             state'[k] = state[k] /\ term'[k] = term[k] /\ vote'[k] = vote[k]
    BY SMTT(60), <1>5, <2>1 DEF TypeOK
  <2>3. PICK t \in Nat : t = term[i]
    BY <1>1
  <2>4. Elected(i, t)
    <3>1. With(i, "granted") \subseteq Supporters(i, t)
      BY <1>1, <1>6, <2>3 DEF With
    <3>2. With(i, "granted") \in SUBSET Server /\ Supporters(i, t) \in SUBSET Server
      BY <1>1 DEF With, Supporters
    <3>3. Cardinality(With(i, "granted")) <= Cardinality(Supporters(i, t))
      BY <3>1, <3>2, LargerSet
    <3>4. Cardinality(With(i, "granted")) > Cardinality(Server) \div 2
      BY <1>3, <1>5, <1>8
    <3>5. /\ Cardinality(With(i, "granted")) \in Nat /\ Cardinality(Server) \in Nat
          /\ Cardinality(Supporters(i, t)) \in Nat
      BY <3>2, SizesOfSets
    <3> QED BY SMTT(60), <3>3, <3>4, <3>5 DEF Elected
  <2>5. Elected(i, t)'
    BY <1>1, <2>1, <2>4, ElectedGrows
  <2>6. Elected(i, term[i])'
    BY <2>2, <2>3, <2>5
  <2>7. state'[i] # Follower /\ state'[i] # Candidate
    BY <2>2 DEF Follower, Candidate, Leader
  <2> QED BY SMTT(60), <1>1, <1>4, <1>7, <2>1, <2>2, <2>6, <2>7, RiseStep
<1>9. CASE /\ SetRole(i, Follower, term[i], None, None)
           /\ UNCHANGED <<logVars, peerVars, msgs>>
  <2>1. /\ state'[i] = Follower /\ term'[i] = term[i]
        /\ \A k \in Server \ {i} :
             state'[k] = state[k] /\ term'[k] = term[k] /\ vote'[k] = vote[k]
        /\ UNCHANGED prs /\ msgs' = msgs
    BY SMTT(60), <1>9 DEF SetRole, peerVars, TypeOK
  <2> QED BY <1>1, <1>6, <2>1, HeardStep
<1>10. CASE UNCHANGED <<roleVars, logVars, peerVars, msgs>>
  <2>1. /\ state' = state /\ term' = term /\ vote' = vote
        /\ UNCHANGED prs /\ msgs' = msgs
    BY <1>10 DEF roleVars, peerVars
  <2> QED BY <1>1, <1>6, <2>1, HeardStep
<1> QED BY <1>2, <1>8, <1>9, <1>10

\* Starting an election: a node alone in its cluster is elected at once, any
\* other becomes a candidate of a new term with its own vote only.
LEMMA CampaignStep ==
  ASSUME Counting, TypeOK, ElectionInv, TypeOK', NEW i \in Server, DoElection(i)
  PROVE  ElectionInv'
<1>1. /\ votes' = [votes EXCEPT ![i] =
                     [j \in Server |-> IF j = i THEN "granted" ELSE "none"]]
      /\ \/ /\ Cardinality(prs[i]) = 1
            /\ BecomeLeader(i, term[i] + 1, i)
         \/ /\ SetRole(i, Candidate, term[i] + 1, i, None)
            /\ Send({RequestVoteMsg(i, j, term[i] + 1, entries[i]) :
                       j \in prs[i] \ {i}})
            /\ UNCHANGED <<logVars, peerVars>>
  BY DEF DoElection
<1>2. term[i] \in Nat /\ prs[i] = Server
  BY DEF TypeOK, ElectionInv, FixedPeers
<1>3. /\ \A k \in Server \ {i} : votes'[k] = votes[k]
      /\ \A j \in Server : votes'[i][j] = "granted" => j = i
  <2>1. votes \in [Server -> [Server -> Ballot]]
    BY DEF TypeOK
  <2>2. votes' = [votes EXCEPT ![i] =
                    [j \in Server |-> IF j = i THEN "granted" ELSE "none"]]
    BY <1>1
  <2> QED BY <2>1, <2>2
<1>4. CASE Cardinality(prs[i]) = 1 /\ BecomeLeader(i, term[i] + 1, i)
  <2>1. /\ state' = [state EXCEPT ![i] = Leader]
        /\ term' = [term EXCEPT ![i] = term[i] + 1]
        /\ vote' = [vote EXCEPT ![i] = i]
        /\ prs' = prs /\ msgs \subseteq msgs'
        /\ \A n \in msgs' \ msgs :
             n.type = "MsgAppend" /\ n.from = i /\ n.term = term[i] + 1
    BY SMTT(60), <1>4, BecomeLeaderRole
  <2>2. /\ state'[i] = Leader /\ term'[i] = term[i] + 1 /\ vote'[i] = i
        /\ \A k \in Server \ {i} :
             state'[k] = state[k] /\ term'[k] = term[k] /\ vote'[k] = vote[k]
    BY SMTT(60), <2>1 DEF TypeOK
  <2>3. Elected(i, term[i])'
    <3>1. i \in Supporters(i, term[i])' /\ Supporters(i, term[i])' \in SUBSET Server
      BY DEF Supporters
    <3>2. Cardinality(Supporters(i, term[i])') \in Nat
      BY <3>1, SizesOfSets
    <3>3. Cardinality(Supporters(i, term[i])') # 0
      <4>1. PICK S \in SUBSET Server : S = Supporters(i, term[i])' /\ S # {}
        BY <3>1
      <4> QED BY <4>1 DEF Counting
    <3> QED BY SMTT(60), <1>2, <1>4, <3>2, <3>3 DEF Elected
  <2>4. state'[i] # Follower /\ state'[i] # Candidate
    BY <2>2 DEF Follower, Candidate, Leader
  <2>5. term'[i] > term[i] /\ term'[i] # 0
    BY SMTT(60), <1>2, <2>2
  <2> QED BY SMTT(60), <1>3, <2>1, <2>2, <2>3, <2>4, <2>5, RiseStep
<1>5. CASE /\ SetRole(i, Candidate, term[i] + 1, i, None)
           /\ Send({RequestVoteMsg(i, j, term[i] + 1, entries[i]) :
                      j \in prs[i] \ {i}})
           /\ UNCHANGED <<logVars, peerVars>>
  <2>1. /\ state'[i] = Candidate /\ term'[i] = term[i] + 1 /\ vote'[i] = i
        /\ \A k \in Server \ {i} :
             state'[k] = state[k] /\ term'[k] = term[k] /\ vote'[k] = vote[k]
        /\ UNCHANGED prs
    BY SMTT(60), <1>5 DEF SetRole, peerVars, TypeOK
  <2>2. /\ msgs \subseteq msgs'
        /\ \A n \in msgs' \ msgs : \E j \in prs[i] \ {i} :
             n = RequestVoteMsg(i, j, term[i] + 1, entries[i])
    BY <1>5 DEF Send
  <2>3. \A n \in msgs' \ msgs :
          n.type = "MsgRequestVote" /\ n.from = i /\ n.term = term'[i] /\ n.to # i
    BY <2>1, <2>2 DEF RequestVoteMsg, Msg
  <2>4. state'[i] # Follower /\ state'[i] # Leader
    BY <2>1 DEF Follower, Candidate, Leader
  <2>5. term'[i] > term[i] /\ term'[i] # 0
    BY SMTT(60), <1>2, <2>1
  <2> QED BY <1>3, <2>1, <2>2, <2>3, <2>4, <2>5, RiseStep
<1> QED BY <1>1, <1>4, <1>5

\* The steps of a leader that change no role.
LEMMA LeaderStep ==
  ASSUME Counting, TypeOK, ElectionInv, TypeOK', NEW i \in Server, state[i] = Leader,
         UNCHANGED <<roleVars, votes, prs>>, msgs \subseteq msgs',
         \A n \in msgs' \ msgs :
           \/ n.type = "MsgTimeoutNow"
           \/ FromLeader(n) /\ n.from = i /\ n.term = term[i]
  PROVE  ElectionInv'
<1>1. \A n \in msgs' \ msgs : NoVoteMsg(n)
  BY DEF NoVoteMsg, FromLeader
<1>2. \A n \in msgs' \ msgs :
        FromLeader(n) => state[n.from] = Leader /\ n.term = term[n.from]
  BY DEF FromLeader
<1> QED BY <1>1, <1>2, QuietStep

\* A proposal is a leader's step.
LEMMA ProposeElection ==
  ASSUME Counting, TypeOK, ElectionInv, TypeOK', NEW i \in Server, NEW d, Propose(i, d)
  PROVE  ElectionInv'
<1>1. /\ state[i] = Leader /\ UNCHANGED <<roleVars, votes, prs>>
      /\ \E ents, nxt : msgs' = msgs \cup BcastAppend(i, term[i], ents, commited[i], nxt)
  BY DEF Propose, Send
<1>2. \A n \in msgs' \ msgs : FromLeader(n) /\ n.from = i /\ n.term = term[i]
  BY SMTT(60), <1>1, BcastAppendHeads DEF FromLeader
<1> QED BY <1>1, <1>2, LeaderStep

\* So is a heartbeat,
LEMMA BeatElection ==
  ASSUME Counting, TypeOK, ElectionInv, TypeOK', NEW i \in Server, Beat(i)
  PROVE  ElectionInv'
<1>1. /\ state[i] = Leader /\ UNCHANGED <<roleVars, votes, prs>>
      /\ msgs' = msgs \cup {HeartbeatMsg(i, j, term[i]) : j \in prs[i] \ {i}}
  BY DEF Beat, Send, peerVars
<1>2. \A n \in msgs' \ msgs : FromLeader(n) /\ n.from = i /\ n.term = term[i]
  BY SMTT(60), <1>1 DEF FromLeader, HeartbeatMsg, Msg
<1> QED BY <1>1, <1>2, LeaderStep

\* the append a heartbeat response leads to,
LEMMA HandleHeartbeatResponseElection ==
  ASSUME Counting, TypeOK, ElectionInv, TypeOK', NEW m \in msgs, HandleHeartbeatResponse(m)
  PROVE  ElectionInv'
<1>1. /\ m.to \in Server /\ state[m.to] = Leader /\ UNCHANGED <<roleVars, votes, prs>>
      /\ msgs' = msgs \cup {AppendMsg(m.to, m.from, term[m.to], entries[m.to],
                                      commited[m.to], next[m.to][m.from])}
  BY DEF HandleHeartbeatResponse, Send, peerVars, TypeOK, Message
<1>2. \A n \in msgs' \ msgs :
        n = AppendMsg(m.to, m.from, term[m.to], entries[m.to], commited[m.to],
                      next[m.to][m.from])
  BY <1>1
<1>3. SUFFICES ASSUME NEW n \in msgs' \ msgs
               PROVE  FromLeader(n) /\ n.from = m.to /\ n.term = term[m.to]
  BY <1>1, LeaderStep
<1>4. n.type = "MsgAppend" /\ n.from = m.to /\ n.term = term[m.to]
  BY <1>2 DEF AppendMsg, Msg
<1> QED BY <1>4 DEF FromLeader

\* the retry after a refusal,
LEMMA HandleAppendRejectElection ==
  ASSUME Counting, TypeOK, ElectionInv, TypeOK', NEW m \in msgs, HandleAppendReject(m)
  PROVE  ElectionInv'
<1>1. /\ m.to \in Server /\ state[m.to] = Leader /\ UNCHANGED <<roleVars, votes, prs>>
      /\ \E index : msgs' = msgs \cup {AppendMsg(m.to, m.from, term[m.to],
                                         entries[m.to], commited[m.to], index)}
  BY DEF HandleAppendReject, Send, peerVars, TypeOK, Message
<1>2. PICK index : msgs' = msgs \cup {AppendMsg(m.to, m.from, term[m.to],
                                         entries[m.to], commited[m.to], index)}
  BY <1>1
<1>3. \A n \in msgs' \ msgs :
        n = AppendMsg(m.to, m.from, term[m.to], entries[m.to], commited[m.to],
                      index)
  BY <1>2
<1>5. SUFFICES ASSUME NEW n \in msgs' \ msgs
               PROVE  FromLeader(n) /\ n.from = m.to /\ n.term = term[m.to]
  BY <1>1, LeaderStep
<1>6. n.type = "MsgAppend" /\ n.from = m.to /\ n.term = term[m.to]
  BY <1>3 DEF AppendMsg, Msg
<1> QED BY <1>6 DEF FromLeader

\* and an acknowledgement, with the commit and the hand-over it may bring.
LEMMA HandleAppendAckElection ==
  ASSUME Counting, TypeOK, ElectionInv, TypeOK', NEW m \in msgs, HandleAppendAck(m)
  PROVE  ElectionInv'
<1>1. m.to \in Server
  BY DEF TypeOK, Message
<1>2. /\ state[m.to] = Leader /\ UNCHANGED <<roleVars, votes, prs>>
      /\ \E cmt, commits, handover :
           msgs' = msgs \cup
             ((IF commits THEN BcastAppend(m.to, term[m.to], entries[m.to], cmt,
                                           next'[m.to])
                          ELSE {})
              \cup (IF handover THEN {TimeoutNowMsg(m.to, m.from)} ELSE {}))
  BY DEF HandleAppendAck, Send
<1>3. TimeoutNowMsg(m.to, m.from).type = "MsgTimeoutNow"
  BY DEF TimeoutNowMsg, Msg
<1>4. /\ msgs \subseteq msgs'
      /\ \A n \in msgs' \ msgs :
           \/ n = TimeoutNowMsg(m.to, m.from)
           \/ \E cmt : n \in BcastAppend(m.to, term[m.to], entries[m.to], cmt,
                                       next'[m.to])
  BY <1>2
<1>5. \A n \in msgs' \ msgs : \/ n.type = "MsgTimeoutNow"
                              \/ FromLeader(n) /\ n.from = m.to /\ n.term = term[m.to]
  BY SMTT(60), <1>3, <1>4, BcastAppendHeads DEF FromLeader
<1> QED BY <1>1, <1>2, <1>5, LeaderStep

\* A transfer is started by a leader and forwarded by any other node.
LEMMA StepTransferLeaderElection ==
  ASSUME Counting, TypeOK, ElectionInv, TypeOK', NEW i \in Server, NEW j \in Server,
         StepTransferLeader(i, j)
  PROVE  ElectionInv'
<1>1. UNCHANGED <<roleVars, votes, prs>> /\ msgs \subseteq msgs'
  BY DEF StepTransferLeader, Send, peerVars
<1>2. CASE state[i] = Leader
  <2>1. \E n : msgs' = msgs \cup
                 {IF n THEN TimeoutNowMsg(i, j)
                  ELSE AppendMsg(i, j, term[i], entries[i], commited[i], next[i][j])}
    BY <1>2 DEF StepTransferLeader, Send
  <2>2. \A n \in msgs' \ msgs : \/ n.type = "MsgTimeoutNow"
                                \/ FromLeader(n) /\ n.from = i /\ n.term = term[i]
    BY SMTT(60), <2>1, AppendMsgHead DEF FromLeader, TimeoutNowMsg, Msg
  <2> QED BY <1>1, <1>2, <2>2, LeaderStep
<1>3. CASE state[i] # Leader
  <2>1. \A n \in msgs' \ msgs : n.type = "MsgTransferLeader"
    BY SMTT(60), <1>3 DEF StepTransferLeader, Send, Msg
  <2>2. \A n \in msgs' \ msgs : NoVoteMsg(n) /\ ~FromLeader(n)
    BY <2>1 DEF NoVoteMsg, FromLeader
  <2> QED BY <1>1, <2>2, QuietStep
<1> QED BY <1>2, <1>3

\* What a node does to its role when a message reaches it that is not about
\* votes: nothing, or it follows a newer term, or a candidate steps down.
LEMMA HeardRoles ==
  ASSUME TypeOK, NEW m \in msgs, StepRole(m.to, m) \/ HeardRole(m.to, m)
  PROVE  /\ \A k \in Server \ {m.to} :
              state'[k] = state[k] /\ term'[k] = term[k] /\ vote'[k] = vote[k]
         /\ \/ /\ state'[m.to] = state[m.to] /\ term'[m.to] = term[m.to]
               /\ vote'[m.to] = vote[m.to]
            \/ state'[m.to] = Follower /\ term'[m.to] > term[m.to]
            \/ /\ state'[m.to] = Follower /\ term'[m.to] = term[m.to]
               /\ state[m.to] = Candidate
<1> DEFINE i == m.to
<1>1. i \in Server /\ m.term \in Nat /\ term[i] \in Nat
  BY DEF TypeOK, Message
<1>2. PICK s, v : /\ state' = [state EXCEPT ![i] = s]
                  /\ term' = [term EXCEPT ![i] = StepTerm(i, m)]
                  /\ vote' = [vote EXCEPT ![i] = v]
                  /\ \/ s = StepState(i, m) /\ v = StepVote(i, m)
                     \/ s = HeardState(i, m) /\ v = HeardVote(i, m)
  BY DEF StepRole, HeardRole, SetRole
<1>3. /\ \A k \in Server \ {i} :
           state'[k] = state[k] /\ term'[k] = term[k] /\ vote'[k] = vote[k]
      /\ state'[i] = s /\ term'[i] = StepTerm(i, m) /\ vote'[i] = v
  BY <1>1, <1>2 DEF TypeOK
<1>4. CASE Newer(i, m)
  <2>1. StepTerm(i, m) > term[i] /\ StepState(i, m) = Follower
    BY <1>4 DEF Newer, StepTerm, StepState
  <2>2. s = Follower
    BY <1>2, <2>1 DEF HeardState
  <2> QED BY <1>3, <2>1, <2>2
<1>5. CASE ~Newer(i, m)
  <2>1. /\ StepTerm(i, m) = term[i] /\ StepState(i, m) = state[i]
        /\ StepVote(i, m) = vote[i]
    BY <1>5 DEF StepTerm, StepState, StepVote
  <2>2. \/ s = state[i] /\ v = vote[i]
        \/ s = Follower /\ state[i] = Candidate
    BY <1>2, <2>1 DEF HeardState, HeardVote, StepsDown
  <2> QED BY <1>3, <2>1, <2>2
<1> QED BY <1>4, <1>5

\* So an action that does no more than that, and answers, keeps ElectionInv.
LEMMA AnswerStep ==
  ASSUME Counting, TypeOK, ElectionInv, TypeOK', NEW m \in msgs,
         StepRole(m.to, m) \/ HeardRole(m.to, m),
         UNCHANGED <<votes, prs>>, msgs \subseteq msgs',
         \A n \in msgs' \ msgs : NoVoteMsg(n) /\ ~FromLeader(n)
  PROVE  ElectionInv'
<1>1. m.to \in Server
  BY DEF TypeOK, Message
<1>2. \A k, j \in Server : state[k] = Candidate /\ votes'[k][j] = "granted"
                             => j \in Supporters(k, term[k])
  BY DEF ElectionInv, BallotsGranted
<1>3. /\ \A k \in Server \ {m.to} :
           state'[k] = state[k] /\ term'[k] = term[k] /\ vote'[k] = vote[k]
      /\ \/ /\ state'[m.to] = state[m.to] /\ term'[m.to] = term[m.to]
            /\ vote'[m.to] = vote[m.to]
         \/ state'[m.to] = Follower /\ term'[m.to] > term[m.to]
         \/ /\ state'[m.to] = Follower /\ term'[m.to] = term[m.to]
            /\ state[m.to] = Candidate
  BY HeardRoles
<1> QED BY <1>1, <1>2, <1>3, HeardStep

\* An append makes the node follow its sender, at most.
LEMMA HandleAppendEntriesElection ==
  ASSUME Counting, TypeOK, ElectionInv, TypeOK', NEW m \in msgs, HandleAppendEntries(m)
  PROVE  ElectionInv'
<1>1. /\ StepRole(m.to, m) \/ HeardRole(m.to, m)
      /\ UNCHANGED <<votes, prs>>
      /\ \E reject, logTerm, index, t :
           msgs' = msgs \cup {AppendResponseMsg(m.to, m.from, t, reject, logTerm, index)}
  <2>1. \E reject, logTerm, index :
          AppendAnswer(m.to, m, StepTerm(m.to, m)) =
            AppendResponseMsg(m.to, m.from, StepTerm(m.to, m), reject, logTerm, index)
    BY DEF AppendAnswer
  <2> QED BY <2>1 DEF HandleAppendEntries, Send, peerVars
<1>2. \A n \in msgs' \ msgs : n.type = "MsgAppendResponse"
  BY <1>1 DEF AppendResponseMsg, Msg
<1>3. msgs \subseteq msgs' /\ \A n \in msgs' \ msgs : NoVoteMsg(n) /\ ~FromLeader(n)
  BY <1>1, <1>2 DEF NoVoteMsg, FromLeader
<1> QED BY <1>1, <1>3, AnswerStep

\* So does a heartbeat.
LEMMA HandleHeartbeatElection ==
  ASSUME Counting, TypeOK, ElectionInv, TypeOK', NEW m \in msgs, HandleHeartbeat(m)
  PROVE  ElectionInv'
<1>1. /\ StepRole(m.to, m) \/ HeardRole(m.to, m)
      /\ UNCHANGED <<votes, prs>>
      /\ \E reject, t :
           msgs' = msgs \cup {HeartbeatResponseMsg(m.to, m.from, t, reject)}
  BY DEF HandleHeartbeat, Send, peerVars
<1>2. \A n \in msgs' \ msgs : n.type = "MsgHeartbeatResponse"
  BY <1>1 DEF HeartbeatResponseMsg, Msg
<1>3. msgs \subseteq msgs' /\ \A n \in msgs' \ msgs : NoVoteMsg(n) /\ ~FromLeader(n)
  BY <1>1, <1>2 DEF NoVoteMsg, FromLeader
<1> QED BY <1>1, <1>3, AnswerStep

\* Nothing was sent and nobody campaigned.
LEMMA ElectionInit ==
  ASSUME Init
  PROVE  ElectionInv
<1>1. /\ FixedPeers /\ OwnVote /\ BallotsGranted
      /\ \A i \in Server : state[i] # Leader
  BY DEF Init, FixedPeers, OwnVote, BallotsGranted, Follower, Candidate, Leader
<1>2. /\ VoteMsgs /\ GrantRemembered /\ GrantUnique /\ LeaderMsgs
      /\ LeaderGrantsNone /\ LeadersElected
  BY <1>1
  DEF Init, VoteMsgs, GrantRemembered, GrantUnique, LeaderMsgs, LeaderGrantsNone,
      LeadersElected
<1> QED BY <1>1, <1>2 DEF ElectionInv

\* Every step keeps ElectionInv: one step of the proof per action.
LEMMA ElectionStep ==
  ASSUME Counting, TypeOK, ElectionInv, [Next]_vars
  PROVE  ElectionInv'
<1> USE TypeStep
<1>1. ASSUME NEW i \in Server, Hup(i)
      PROVE  ElectionInv'
  BY <1>1, CampaignStep DEF Hup
<1>2. ASSUME NEW m \in msgs, HandleRequestVote(m)
      PROVE  ElectionInv'
  BY <1>2, VoteStep
<1>3. ASSUME NEW m \in msgs, HandleRequestVoteResponse(m)
      PROVE  ElectionInv'
  BY <1>3, CountStep
<1>4. ASSUME NEW m \in msgs, StepNewerResponse(m)
      PROVE  ElectionInv'
  <2>1. StepRole(m.to, m) /\ UNCHANGED <<votes, prs>> /\ msgs' = msgs
    BY <1>4 DEF StepNewerResponse, peerVars
  <2> QED BY <2>1, AnswerStep
<1>5. ASSUME NEW i \in Server, NEW d, Propose(i, d)
      PROVE  ElectionInv'
  BY <1>5, ProposeElection
<1>6. ASSUME NEW m \in msgs, HandleAppendEntries(m)
      PROVE  ElectionInv'
  BY <1>6, HandleAppendEntriesElection
<1>7. ASSUME NEW m \in msgs, HandleAppendReject(m)
      PROVE  ElectionInv'
  BY <1>7, HandleAppendRejectElection
<1>8. ASSUME NEW m \in msgs, HandleAppendAck(m)
      PROVE  ElectionInv'
  BY <1>8, HandleAppendAckElection
<1>9. ASSUME NEW i \in Server, Beat(i)
      PROVE  ElectionInv'
  BY <1>9, BeatElection
<1>10. ASSUME NEW m \in msgs, HandleHeartbeat(m)
       PROVE  ElectionInv'
  BY <1>10, HandleHeartbeatElection
<1>11. ASSUME NEW m \in msgs, HandleHeartbeatResponse(m)
       PROVE  ElectionInv'
  BY <1>11, HandleHeartbeatResponseElection
<1>12. ASSUME NEW i \in Server, NEW j \in Server, TransferLeader(i, j)
       PROVE  ElectionInv'
  BY <1>12, StepTransferLeaderElection DEF TransferLeader
<1>13. ASSUME NEW m \in msgs, HandleTransferLeader(m)
       PROVE  ElectionInv'
  <2>1. m.to \in Server /\ m.from \in Server
    BY DEF TypeOK, Message
  <2> QED BY <1>13, <2>1, StepTransferLeaderElection DEF HandleTransferLeader
<1>14. ASSUME NEW m \in msgs, HandleTimeoutNow(m)
       PROVE  ElectionInv'
  <2>1. m.to \in Server
    BY DEF TypeOK, Message
  <2> QED BY <1>14, <2>1, CampaignStep DEF HandleTimeoutNow
<1>15. CASE (\E i \in Server : TransferTimeout(i)) \/ UNCHANGED vars
  <2>1. UNCHANGED <<roleVars, votes, prs>> /\ msgs' = msgs
    BY <1>15 DEF TransferTimeout, vars, peerVars
  <2> QED BY <2>1, QuietStep
<1>16. CASE Election
  BY <1>1, <1>2, <1>3, <1>4, <1>16 DEF Election
<1>17. CASE Replication
  BY <1>5, <1>6, <1>7, <1>8, <1>17 DEF Replication, HandleAppendEntriesResponse
<1>18. CASE Heartbeat
  BY <1>9, <1>10, <1>11, <1>18 DEF Heartbeat
<1>19. CASE Transfer
  BY <1>12, <1>13, <1>14, <1>15, <1>19 DEF Transfer
<1>20. CASE ProposeConfChange
  BY <1>5, <1>20 DEF ProposeConfChange
<1> QED BY <1>15, <1>16, <1>17, <1>18, <1>19, <1>20 DEF Next

\* Two nodes that were both elected in a term share a supporter, and no node
\* supports two: not by two grants, and not by leading and granting.
LEMMA ElectionSafety ==
  ASSUME Counting, TypeOK, ElectionInv
  PROVE  OneLeaderPerTerm
<1> SUFFICES ASSUME NEW i \in Server, NEW j \in Server, NEW t \in Nat,
                    Led(i, t), Led(j, t), i # j
             PROVE  FALSE
  BY SMTT(60) DEF OneLeaderPerTerm
<1>1. ASSUME NEW k \in Server, Led(k, t)
      PROVE  Elected(k, t)
  BY <1>1 DEF Led, ElectionInv, LeadersElected
<1>2. ASSUME NEW k \in Server, NEW l \in Server, Led(k, t), k # l
      PROVE  k \notin Supporters(l, t)
  <2> SUFFICES ASSUME NEW g \in msgs, IsGrant(g), g.from = k, g.term = t
               PROVE  FALSE
    BY <1>2 DEF Supporters
  <2>1. CASE state[k] = Leader /\ term[k] = t
    BY <2>1 DEF ElectionInv, GrantRemembered, Leader, Follower
  <2>2. CASE \E m \in msgs : FromLeader(m) /\ m.from = k /\ m.term = t
    BY <2>2 DEF ElectionInv, LeaderGrantsNone
  <2> QED BY <1>2, <2>1, <2>2 DEF Led
<1>3. Supporters(i, t) \in SUBSET Server /\ Supporters(j, t) \in SUBSET Server
  BY DEF Supporters
<1>4. /\ Cardinality(Supporters(i, t)) \in Nat /\ Cardinality(Supporters(j, t)) \in Nat
      /\ Cardinality(Server) \in Nat
  BY <1>3, SizesOfSets
<1>5. Cardinality(Supporters(i, t)) + Cardinality(Supporters(j, t)) > Cardinality(Server)
  BY SMTT(60), <1>1, <1>4 DEF Elected
<1>6. PICK k \in Server : k \in Supporters(i, t) /\ k \in Supporters(j, t)
  BY <1>3, <1>5, MajoritiesMeet
<1>7. k # i /\ k # j
  BY <1>2, <1>6
<1>8. PICK g1 \in msgs : IsGrant(g1) /\ g1.from = k /\ g1.to = i /\ g1.term = t
  BY <1>6, <1>7 DEF Supporters
<1>9. PICK g2 \in msgs : IsGrant(g2) /\ g2.from = k /\ g2.to = j /\ g2.term = t
  BY <1>6, <1>7 DEF Supporters
<1> QED BY <1>8, <1>9 DEF ElectionInv, GrantUnique

-----------------------------------------------------------------------------
(* The leaders of the past *)

\* No leader receives an append of its own term.
LEMMA AppendsToFollowers ==
  ASSUME Counting, TypeOK, ElectionInv, OthersAddressed, NEW m \in msgs, m.type = "MsgAppend",
         state[m.to] = Leader
  PROVE  m.term # term[m.to]
<1> SUFFICES ASSUME m.term = term[m.to]
             PROVE  FALSE
  OBVIOUS
<1>1. PICK i \in Server, j \in Server : i = m.to /\ j = m.from
  BY DEF TypeOK, Message
<1>2. FromLeader(m)
  BY DEF FromLeader
<1>3. Elected(j, term[i])
  BY <1>1, <1>2 DEF ElectionInv, LeadersElected
<1>4. term[i] <= term[j] /\ (term[i] = term[j] => state[j] = Leader)
  BY <1>1, <1>2 DEF ElectionInv, LeaderMsgs
<1>5. \A n \in msgs : IsGrant(n) /\ n.from = j => n.term # term[i]
  BY <1>1, <1>2 DEF ElectionInv, LeaderGrantsNone
<1>6. LedOnce(j, term[i])
  BY <1>3, <1>4, <1>5 DEF LedOnce
<1>7. i = j
  BY <1>1, <1>6, LedOnceUnique
<1>8. m.from # m.to
  BY DEF OthersAddressed
<1> QED BY <1>1, <1>7, <1>8

-----------------------------------------------------------------------------
(* Helpers *)

-----------------------------------------------------------------------------
(* Creates *)

\* An elected node appends the entry of its term.
LEMMA BecomeLeaderKind ==
  ASSUME Counting, TypeOK, FixedPeers, NEW i \in Server, NEW t \in Nat, NEW v,
         BecomeLeader(i, t, v), t # 0,
         (Cardinality(Server) = 1 /\ t > term[i]) \/ (state[i] = Candidate /\ t = term[i])
  PROVE  Creates(i)
<1> DEFINE last == LastIndex(entries[i])
           x    == [term |-> t, data |-> Noop]
           nxt  == [j \in Server |-> CASE j = i      -> last + 2
                                       [] j \in prs[i] \ {i} -> last + 1
                                       [] OTHER      -> next[i][j]]
<1>1. entries[i] \in Seq(Entry) /\ last \in Nat /\ last = Len(entries[i])
  BY SMTT(60) DEF TypeOK, LastIndex
<1>2. prs[i] = Server
  BY DEF FixedPeers
<1>3. x \in Entry /\ x.term = t
  BY DEF Entry, Payload
<1>4. /\ state' = [state EXCEPT ![i] = Leader] /\ term' = [term EXCEPT ![i] = t]
      /\ entries' = [entries EXCEPT ![i] = Append(entries[i], x)]
      /\ next' = [next EXCEPT ![i] = nxt]
      /\ match' = [match EXCEPT ![i][i] = last + 1]
      /\ msgs' = msgs \cup BcastAppend(i, t, Append(entries[i], x), commited[i], nxt)
      /\ commited' = [commited EXCEPT ![i] = AloneCommit(i, Append(entries[i], x))]
  BY DEF BecomeLeader, SetRole, Send
<1>5. nxt[i] = last + 2 /\ \A j \in Server \ {i} : nxt[j] = last + 1
  BY <1>2
<1>6. Len(Append(entries[i], x)) = last + 1
  BY SMTT(60), <1>1
<1> HIDE DEF last, x, nxt
<1>7. /\ \A k \in Server \ {i} : /\ state'[k] = state[k] /\ term'[k] = term[k]
                                 /\ next'[k] = next[k] /\ match'[k] = match[k]
      /\ state'[i] = Leader /\ term'[i] = t /\ next'[i] = nxt
      /\ \A j \in Server \ {i} : match'[i][j] = match[i][j]
      /\ match'[i][i] = last + 1
      /\ entries'[i] = Append(entries[i], x)
  BY <1>4 DEF TypeOK
<1>8. \/ commited' = commited /\ Cardinality(Server) # 1
      \/ /\ Cardinality(Server) = 1
         /\ commited' = [commited EXCEPT ![i] = last + 1]
  <2>1. CASE Cardinality(Server) = 1
    BY <1>2, <1>4, <1>6, <2>1 DEF AloneCommit, LastIndex
  <2>2. CASE Cardinality(Server) # 1
    <3>1. commited' = [commited EXCEPT ![i] = commited[i]]
      BY <1>2, <1>4, <2>2 DEF AloneCommit
    <3> QED BY <2>2, <3>1 DEF TypeOK
  <2> QED BY <2>1, <2>2
<1>9. msgs' = msgs \cup {AppendMsg(i, j, term'[i], entries'[i], commited'[i], next'[i][j]) :
                           j \in Server \ {i}}
  <2>1. msgs' = msgs \cup {AppendMsg(i, j, t, entries'[i], commited[i], nxt[j]) :
                             j \in Server \ {i}}
    BY SMTT(60), <1>2, <1>4, <1>7 DEF BcastAppend
  <2>2. CASE commited' = commited
    BY <1>7, <2>1, <2>2
  <2>3. CASE Cardinality(Server) = 1
    <3>1. Server \ {i} = {}
      BY <2>3, OnlyNode
    <3> QED BY <2>1, <3>1
  <2> QED BY <1>8, <2>2, <2>3
<1> QED BY <1>1, <1>3, <1>4, <1>5, <1>7, <1>8, <1>9 DEF Creates

\* A proposal is appended, or dropped and the log broadcast all the same.
LEMMA ProposeKind ==
  ASSUME Counting, TypeOK, FixedPeers, OthersAddressed, NEW i \in Server, NEW d \in Payload,
         Propose(i, d)
  PROVE  Creates(i) \/ Sends
<1>1. /\ entries[i] \in Seq(Entry) /\ term[i] \in Nat /\ Len(entries[i]) \in Nat
      /\ next[i] \in [Server -> Nat \ {0}] /\ prs[i] = Server
  BY SMTT(60) DEF TypeOK, FixedPeers
<1>2. /\ state[i] = Leader /\ UNCHANGED <<state, term>>
      /\ \E ents, nxt :
           /\ \/ ents = entries[i]
              \/ ents = Append(entries[i], [term |-> term[i], data |-> d])
           /\ nxt = [next[i] EXCEPT ![i] = LastIndex(ents) + 1]
           /\ entries' = [entries EXCEPT ![i] = ents]
           /\ next' = [next EXCEPT ![i] = nxt]
           /\ match' = [match EXCEPT ![i][i] = LastIndex(ents)]
           /\ commited' = [commited EXCEPT ![i] = AloneCommit(i, ents)]
           /\ msgs' = msgs \cup BcastAppend(i, term[i], ents, commited[i], nxt)
  BY DEF Propose, Send, roleVars
<1>3. PICK ents, nxt :
        /\ \/ ents = entries[i]
           \/ ents = Append(entries[i], [term |-> term[i], data |-> d])
        /\ nxt = [next[i] EXCEPT ![i] = LastIndex(ents) + 1]
        /\ entries' = [entries EXCEPT ![i] = ents]
        /\ next' = [next EXCEPT ![i] = nxt]
        /\ match' = [match EXCEPT ![i][i] = LastIndex(ents)]
        /\ commited' = [commited EXCEPT ![i] = AloneCommit(i, ents)]
        /\ msgs' = msgs \cup BcastAppend(i, term[i], ents, commited[i], nxt)
  BY <1>2
<1>4. /\ \A k \in Server \ {i} : next'[k] = next[k] /\ match'[k] = match[k]
      /\ \A j \in Server \ {i} : next'[i][j] = next[i][j] /\ match'[i][j] = match[i][j]
      /\ next'[i] = nxt /\ next'[i][i] = Len(ents) + 1 /\ match'[i][i] = Len(ents)
      /\ entries'[i] = ents
  BY <1>3 DEF TypeOK, LastIndex
<1>5. \/ commited' = commited /\ Cardinality(Server) # 1
      \/ /\ Cardinality(Server) = 1
         /\ commited' = [commited EXCEPT ![i] = Len(ents)]
  <2>1. CASE Cardinality(Server) = 1
    BY <1>1, <1>3, <2>1 DEF AloneCommit, LastIndex
  <2>2. CASE Cardinality(Server) # 1
    <3>1. commited' = [commited EXCEPT ![i] = commited[i]]
      BY <1>1, <1>3, <2>2 DEF AloneCommit
    <3> QED BY <2>2, <3>1 DEF TypeOK
  <2> QED BY <2>1, <2>2
<1>6. msgs' = msgs \cup {AppendMsg(i, j, term'[i], entries'[i], commited'[i], next'[i][j]) :
                           j \in Server \ {i}}
  <2>1. msgs' = msgs \cup {AppendMsg(i, j, term[i], entries'[i], commited[i], nxt[j]) :
                             j \in Server \ {i}}
    BY SMTT(60), <1>1, <1>3, <1>4 DEF BcastAppend
  <2>2. CASE commited' = commited
    BY <1>2, <1>4, <2>1, <2>2
  <2>3. CASE Cardinality(Server) = 1
    <3>1. Server \ {i} = {}
      BY <2>3, OnlyNode
    <3> QED BY <2>1, <3>1
  <2> QED BY <1>5, <2>2, <2>3
<1>7. CASE ents = entries[i]
  <2>1. entries' = entries /\ UNCHANGED <<state, term>>
    BY <1>2, <1>3, <1>7 DEF TypeOK
  <2>2. ASSUME NEW n \in msgs' \ msgs
        PROVE  \E k \in Server : \E j \in Server \ {k} :
                 /\ state[k] = Leader
                 /\ n = AppendMsg(k, j, term[k], entries[k], commited'[k], next'[k][j])
    <3>1. PICK j \in Server \ {i} :
            n = AppendMsg(i, j, term[i], entries[i], commited'[i], next'[i][j])
      BY <1>6, <2>1
    <3> QED BY <1>2, <3>1
  <2>3. ASSUME NEW k \in Server, NEW j \in Server
        PROVE  MatchTracks(k, j) /\ NextTracks(k, j)
    BY SMTT(60), <1>4, <1>7 DEF MatchTracks, NextTracks
  <2>4. \/ commited' = commited
        \/ /\ Cardinality(Server) = 1
           /\ \E k \in Server : commited' = [commited EXCEPT ![k] = Len(entries[k])]
    BY <1>5, <1>7
  <2>5. msgs \subseteq msgs'
    BY <1>6
  <2> QED BY <2>1, <2>2, <2>3, <2>4, <2>5 DEF Sends
<1>8. CASE ents = Append(entries[i], [term |-> term[i], data |-> d])
  <2>1. PICK x \in Entry : x = [term |-> term[i], data |-> d]
    <3>1. [term |-> term[i], data |-> d] \in Entry
      BY <1>1 DEF Entry
    <3> QED BY <3>1
  <2>2. /\ x.term = term'[i] /\ entries' = [entries EXCEPT ![i] = Append(entries[i], x)]
        /\ Len(ents) = Len(entries[i]) + 1
    <3>1. x.term = term'[i]
      BY <1>2, <2>1
    <3>2. ents = Append(entries[i], x)
      BY <1>8, <2>1
    <3>3. entries' = [entries EXCEPT ![i] = Append(entries[i], x)]
      BY <1>3, <3>2
    <3>4. Len(ents) = Len(entries[i]) + 1
      BY SMTT(60), <3>2
    <3> QED BY <3>1, <3>3, <3>4
  <2>3. state'[i] = Leader /\ term'[i] = term[i] /\ term'[i] # 0
    BY <1>2 DEF OthersAddressed, Leader, Follower
  <2>4. /\ match'[i][i] = Len(entries[i]) + 1 /\ next'[i][i] = Len(entries[i]) + 2
        /\ \/ commited' = commited /\ Cardinality(Server) # 1
           \/ /\ Cardinality(Server) = 1
              /\ commited' = [commited EXCEPT ![i] = Len(entries[i]) + 1]
    BY SMTT(60), <1>4, <1>5, <2>2
  <2> QED BY <1>2, <1>4, <1>6, <2>2, <2>3, <2>4 DEF Creates
<1> QED BY <1>3, <1>7, <1>8

-----------------------------------------------------------------------------
(* Hears *)

\* Campaigning: alone, the node becomes leader at once.
LEMMA CampaignKind ==
  ASSUME Counting, TypeOK, FixedPeers, NEW i \in Server, DoElection(i)
  PROVE  Creates(i) \/ Hears(i)
<1>1. term[i] \in Nat /\ term[i] + 1 \in Nat /\ term[i] + 1 # 0 /\ term[i] + 1 > term[i]
  BY SMTT(60) DEF TypeOK
<1>2. CASE Cardinality(prs[i]) = 1 /\ BecomeLeader(i, term[i] + 1, i)
  <2>1. PICK t \in Nat : t = term[i] + 1
    BY <1>1
  <2>2. BecomeLeader(i, t, i) /\ t # 0 /\ t > term[i] /\ Cardinality(Server) = 1
    BY <1>1, <1>2, <2>1 DEF FixedPeers
  <2> QED BY <2>2, BecomeLeaderKind
<1>3. CASE /\ SetRole(i, Candidate, term[i] + 1, i, None)
           /\ Send({RequestVoteMsg(i, j, term[i] + 1, entries[i]) : j \in prs[i] \ {i}})
           /\ UNCHANGED <<logVars, peerVars>>
  <2>1. /\ state' = [state EXCEPT ![i] = Candidate]
        /\ term' = [term EXCEPT ![i] = term[i] + 1]
        /\ msgs' = msgs \cup {RequestVoteMsg(i, j, term[i] + 1, entries[i]) :
                                j \in prs[i] \ {i}}
        /\ UNCHANGED <<entries, commited, next, match>>
    BY <1>3 DEF SetRole, Send, logVars, peerVars
  <2>2. /\ \A k \in Server \ {i} : state'[k] = state[k] /\ term'[k] = term[k]
        /\ state'[i] = Candidate /\ term'[i] = term[i] + 1
    BY <2>1 DEF TypeOK
  <2>3. ASSUME NEW n \in msgs' \ msgs
        PROVE  /\ n.type = "MsgRequestVote" /\ n.from = i /\ n.term = term'[i]
               /\ n.from # n.to /\ n.index = Len(entries[i])
               /\ n.logTerm = LastTerm(entries[i])
    <3>1. PICK j \in prs[i] \ {i} : n = RequestVoteMsg(i, j, term[i] + 1, entries[i])
      BY <2>1
    <3> QED BY <2>2, <3>1 DEF RequestVoteMsg, Msg, LastIndex
  <2>5. term'[i] > term[i] /\ state'[i] \in {Follower, Candidate}
    BY <1>1, <2>2
  <2> QED BY <2>1, <2>2, <2>3, <2>5 DEF Hears
<1>4. (Cardinality(prs[i]) = 1 /\ BecomeLeader(i, term[i] + 1, i)) \/
        /\ SetRole(i, Candidate, term[i] + 1, i, None)
        /\ Send({RequestVoteMsg(i, j, term[i] + 1, entries[i]) : j \in prs[i] \ {i}})
        /\ UNCHANGED <<logVars, peerVars>>
  BY DEF DoElection
<1> QED BY <1>2, <1>3, <1>4

\* Answering a vote request.
LEMMA HandleRequestVoteKind ==
  ASSUME TypeOK, VoteMsgs, NEW m \in msgs, HandleRequestVote(m)
  PROVE  Hears(m.to)
<1>1. m.to \in Server /\ m.term \in Nat /\ term[m.to] \in Nat
  BY DEF TypeOK, Message
<1>2. PICK reject :
        /\ reject = (\/ Stale(m.to, m)
                     \/ StepVote(m.to, m) \notin {None, m.from}
                     \/ MoreUpToDate(m.to, m))
        /\ m.type = "MsgRequestVote"
        /\ state' = [state EXCEPT ![m.to] = StepState(m.to, m)]
        /\ term' = [term EXCEPT ![m.to] = StepTerm(m.to, m)]
        /\ UNCHANGED <<entries, commited, next, match>>
        /\ msgs' = msgs \cup {RequestVoteResponseMsg(m.to, m.from, StepTerm(m.to, m), reject)}
  BY DEF HandleRequestVote, SetRole, Send, logVars, peerVars
<1>3. /\ \A k \in Server \ {m.to} : state'[k] = state[k] /\ term'[k] = term[k]
      /\ state'[m.to] = StepState(m.to, m) /\ term'[m.to] = StepTerm(m.to, m)
  BY <1>1, <1>2 DEF TypeOK
<1>4. \/ term'[m.to] > term[m.to] /\ state'[m.to] = Follower
      \/ term'[m.to] = term[m.to] /\ state'[m.to] = state[m.to]
  BY <1>3 DEF StepState, StepTerm, Newer
<1>5. m.from # m.to /\ m.term # 0
  BY <1>2 DEF VoteMsgs
<1>6. ASSUME NEW n \in msgs' \ msgs
      PROVE  /\ n.type = "MsgRequestVoteResponse" /\ n.from = m.to /\ n.term = term'[m.to]
             /\ n.from # n.to
             /\ ~n.reject => Grants(m.to, n)
  <2>1. n = RequestVoteResponseMsg(m.to, m.from, StepTerm(m.to, m), reject)
    BY <1>2
  <2>2. /\ n.type = "MsgRequestVoteResponse" /\ n.from = m.to /\ n.to = m.from
        /\ n.term = StepTerm(m.to, m) /\ n.reject = reject
    BY <2>1 DEF RequestVoteResponseMsg, Msg
  <2>3. ASSUME ~n.reject
        PROVE  Grants(m.to, n)
    <3>1. ~Stale(m.to, m) /\ ~MoreUpToDate(m.to, m)
      BY <1>2, <2>2, <2>3
    <3>2. n.term = m.term
      BY SMTT(60), <1>1, <1>5, <2>2, <3>1 DEF Stale, StepTerm, Newer
    <3> QED BY <1>2, <2>2, <3>1, <3>2 DEF Grants
  <2> QED BY <1>3, <1>5, <2>2, <2>3
<1> QED BY <1>2, <1>3, <1>4, <1>6 DEF Hears

\* A node that changes at most its role, as a message makes it, and sends
\* an answer that is no vote and no acknowledgement.
LEMMA HeardKind ==
  ASSUME TypeOK, NEW m \in msgs, StepRole(m.to, m) \/ HeardRole(m.to, m),
         UNCHANGED <<entries, commited, next, match>>, msgs \subseteq msgs',
         m.from # m.to \/ msgs' = msgs,
         \A n \in msgs' \ msgs :
           /\ n.from = m.to /\ n.to = m.from /\ n.term = term'[m.to]
           /\ \/ n.type = "MsgHeartbeatResponse"
              \/ /\ n.type = "MsgAppendResponse" /\ n.reject
                 /\ (n.index = 0 /\ n.logTerm = 0) \/ Refuses(m.to, n)
  PROVE  Hears(m.to)
<1>1. /\ \A k \in Server \ {m.to} :
           state'[k] = state[k] /\ term'[k] = term[k] /\ vote'[k] = vote[k]
      /\ \/ /\ state'[m.to] = state[m.to] /\ term'[m.to] = term[m.to]
            /\ vote'[m.to] = vote[m.to]
         \/ state'[m.to] = Follower /\ term'[m.to] > term[m.to]
         \/ /\ state'[m.to] = Follower /\ term'[m.to] = term[m.to]
            /\ state[m.to] = Candidate
  BY HeardRoles
<1> QED BY <1>1 DEF Hears

\* The term after a message.
LEMMA StepTermNext ==
  ASSUME TypeOK, NEW m \in msgs, StepRole(m.to, m) \/ HeardRole(m.to, m)
  PROVE  term'[m.to] = StepTerm(m.to, m)
<1>1. m.to \in Server
  BY DEF TypeOK, Message
<1>2. term' = [term EXCEPT ![m.to] = StepTerm(m.to, m)]
  BY DEF StepRole, HeardRole, SetRole
<1> QED BY <1>1, <1>2 DEF TypeOK

\* A heartbeat makes a node follow its sender, at most.
LEMMA HandleHeartbeatKind ==
  ASSUME TypeOK, OthersAddressed, NEW m \in msgs, HandleHeartbeat(m)
  PROVE  Hears(m.to)
<1>1. /\ StepRole(m.to, m) \/ HeardRole(m.to, m)
      /\ m.type = "MsgHeartbeat" /\ UNCHANGED <<entries, commited, next, match>>
      /\ \E reject :
           msgs' = msgs \cup {HeartbeatResponseMsg(m.to, m.from, StepTerm(m.to, m), reject)}
  BY DEF HandleHeartbeat, Send, logVars, peerVars
<1>2. m.from # m.to
  BY <1>1 DEF OthersAddressed
<1>3. term'[m.to] = StepTerm(m.to, m)
  BY <1>1, StepTermNext
<1>4. ASSUME NEW n \in msgs' \ msgs
      PROVE  /\ n.type = "MsgHeartbeatResponse" /\ n.from = m.to /\ n.to = m.from
             /\ n.term = term'[m.to]
  BY SMTT(60), <1>1, <1>3 DEF HeartbeatResponseMsg, Msg
<1> QED BY <1>1, <1>2, <1>4, HeardKind

\* A response of a newer term makes a node a follower.
LEMMA StepNewerResponseKind ==
  ASSUME TypeOK, NEW m \in msgs, StepNewerResponse(m)
  PROVE  Hears(m.to)
<1>1. StepRole(m.to, m) /\ UNCHANGED <<entries, commited, next, match>> /\ msgs' = msgs
  BY DEF StepNewerResponse, logVars, peerVars
<1> QED BY <1>1, HeardKind

\* Counting a ballot.
LEMMA HandleRequestVoteResponseKind ==
  ASSUME Counting, TypeOK, FixedPeers, OthersAddressed, NEW m \in msgs, HandleRequestVoteResponse(m)
  PROVE  Creates(m.to) \/ Hears(m.to)
<1>1. m.to \in Server /\ term[m.to] \in Nat
  BY DEF TypeOK, Message
<1>2. state[m.to] = Candidate
  BY DEF HandleRequestVoteResponse
<1>3. \/ BecomeLeader(m.to, term[m.to], vote[m.to])
      \/ /\ SetRole(m.to, Follower, term[m.to], None, None)
         /\ UNCHANGED <<logVars, peerVars, msgs>>
      \/ UNCHANGED <<roleVars, logVars, peerVars, msgs>>
  BY DEF HandleRequestVoteResponse
<1>4. CASE BecomeLeader(m.to, term[m.to], vote[m.to])
  <2>1. term[m.to] # 0
    BY <1>1, <1>2 DEF OthersAddressed, Candidate, Follower
  <2> QED BY <1>1, <1>2, <1>4, <2>1, BecomeLeaderKind
<1>5. CASE /\ SetRole(m.to, Follower, term[m.to], None, None)
           /\ UNCHANGED <<logVars, peerVars, msgs>>
  <2>1. /\ state' = [state EXCEPT ![m.to] = Follower]
        /\ term' = [term EXCEPT ![m.to] = term[m.to]]
        /\ UNCHANGED <<entries, commited, next, match>> /\ msgs' = msgs
    BY <1>5 DEF SetRole, logVars, peerVars
  <2> QED BY SMTT(60), <1>2, <2>1 DEF Hears
<1>6. CASE UNCHANGED <<roleVars, logVars, peerVars, msgs>>
  BY <1>6 DEF roleVars, logVars, peerVars, Hears
<1> QED BY <1>3, <1>4, <1>5, <1>6

-----------------------------------------------------------------------------
(* Merges *)

\* An append is refused, or merged into the log of a follower.
LEMMA HandleAppendEntriesKind ==
  ASSUME Counting, TypeOK, ElectionInv, OthersAddressed, NEW m \in msgs, HandleAppendEntries(m)
  PROVE  Hears(m.to) \/ Merges(m)
<1> DEFINE a == AppendAnswer(m.to, m, StepTerm(m.to, m))
<1>1. /\ m \in Message /\ m.to \in Server /\ m.from \in Server /\ m.term \in Nat
      /\ m.index \in Nat /\ term[m.to] \in Nat /\ entries[m.to] \in Seq(Entry)
      /\ Len(entries[m.to]) \in Nat
  <2>1. /\ m \in Message /\ m.to \in Server /\ m.from \in Server /\ m.term \in Nat
        /\ m.index \in Nat /\ term[m.to] \in Nat /\ entries[m.to] \in Seq(Entry)
    BY DEF TypeOK, Message
  <2> QED BY SMTT(60), <2>1
<1>2. m.type = "MsgAppend"
  BY DEF HandleAppendEntries
<1>3. m.from # m.to /\ m.term # 0
  BY <1>2 DEF OthersAddressed
<1>4. \/ /\ Stale(m.to, m) /\ StepRole(m.to, m)
         /\ msgs' = msgs \cup {AppendResponseMsg(m.to, m.from, term[m.to], TRUE, 0, 0)}
         /\ UNCHANGED <<entries, commited, next, match>>
      \/ /\ ~Stale(m.to, m) /\ HeardRole(m.to, m) /\ msgs' = msgs \cup {a}
         /\ a.reject /\ UNCHANGED <<entries, commited, next, match>>
      \/ /\ ~Stale(m.to, m) /\ HeardRole(m.to, m) /\ msgs' = msgs \cup {a}
         /\ ~a.reject
         /\ entries' = [entries EXCEPT ![m.to] = Merge(entries[m.to], m)]
         /\ commited' = [commited EXCEPT ![m.to] = NewCommit(@, m)]
         /\ UNCHANGED <<next, match>>
  BY DEF HandleAppendEntries, Send, logVars, peerVars
<1>5. CASE /\ Stale(m.to, m) /\ StepRole(m.to, m)
           /\ msgs' = msgs \cup {AppendResponseMsg(m.to, m.from, term[m.to], TRUE, 0, 0)}
           /\ UNCHANGED <<entries, commited, next, match>>
  <2>1. term'[m.to] = term[m.to]
    <3>1. term'[m.to] = StepTerm(m.to, m)
      BY <1>5, StepTermNext
    <3> QED BY SMTT(60), <1>1, <1>5, <3>1 DEF StepTerm, Newer, Stale
  <2>2. ASSUME NEW n \in msgs' \ msgs
        PROVE  /\ n.from = m.to /\ n.to = m.from /\ n.term = term'[m.to]
               /\ n.type = "MsgAppendResponse" /\ n.reject /\ n.index = 0 /\ n.logTerm = 0
    BY <1>5, <2>1 DEF AppendResponseMsg, Msg
  <2> QED BY <1>3, <1>5, <2>2, HeardKind
<1>6. CASE ~Stale(m.to, m) /\ HeardRole(m.to, m) /\ msgs' = msgs \cup {a}
  <2>1. term[m.to] <= m.term /\ StepTerm(m.to, m) = m.term
    BY SMTT(60), <1>1, <1>3, <1>6 DEF Stale, StepTerm, Newer
  <2>2. term'[m.to] = m.term
    BY <1>6, <2>1, StepTermNext
  <2>3. CASE a.reject /\ UNCHANGED <<entries, commited, next, match>>
    <3>1. /\ a.from = m.to /\ a.to = m.from /\ a.term = term'[m.to]
          /\ a.type = "MsgAppendResponse"
      BY <2>1, <2>2 DEF AppendAnswer, AppendResponseMsg, Msg
    <3>2. Refuses(m.to, a)
      <4>1. \/ /\ m.index > Len(entries[m.to])
               /\ a.logTerm = 0 /\ a.index = Len(entries[m.to]) + 1
            \/ /\ m.index <= Len(entries[m.to]) /\ m.index >= 1
               /\ TermAt(entries[m.to], m.index) # m.logTerm
               /\ a.logTerm = TermAt(entries[m.to], m.index) /\ a.index = m.index - 1
        BY SMTT(60), <1>1, <2>3 DEF AppendAnswer, AppendResponseMsg, Msg, LastIndex
      <4>2. m.index \in 1..Len(entries[m.to]) =>
              TermAt(entries[m.to], m.index) = entries[m.to][m.index].term
        BY DEF TermAt
      <4> HIDE DEF a
      <4>3. \/ /\ m.index > Len(entries[m.to])
               /\ a.logTerm = 0 /\ a.index = Len(entries[m.to]) + 1
            \/ /\ m.index \in 1..Len(entries[m.to])
               /\ entries[m.to][m.index].term # m.logTerm
               /\ a.logTerm = entries[m.to][m.index].term /\ a.index = m.index - 1
        BY SMTT(60), <1>1, <4>1, <4>2
      <4> QED BY <1>2, <2>2, <3>1, <4>3 DEF Refuses
    <3> HIDE DEF a
    <3> QED BY <1>3, <1>6, <2>3, <3>1, <3>2, HeardKind
  <2>4. CASE /\ ~a.reject
             /\ entries' = [entries EXCEPT ![m.to] = Merge(entries[m.to], m)]
             /\ commited' = [commited EXCEPT ![m.to] = NewCommit(@, m)]
             /\ UNCHANGED <<next, match>>
    <3>1. /\ m.index <= Len(entries[m.to])
          /\ m.index >= 1 => TermAt(entries[m.to], m.index) = m.logTerm
          /\ a = AppendResponseMsg(m.to, m.from, StepTerm(m.to, m), FALSE, 0,
                                   Len(Merge(entries[m.to], m)))
      BY SMTT(60), <1>1, <2>4 DEF AppendAnswer, AppendResponseMsg, Msg, LastIndex
    <3> HIDE DEF a
    <3>2. m.index >= 1 => entries[m.to][m.index].term = m.logTerm
      BY SMTT(60), <1>1, <3>1 DEF TermAt
    <3>3. msgs' = msgs \cup {AppendResponseMsg(m.to, m.from, m.term, FALSE, 0,
                                                Len(Merge(entries[m.to], m)))}
      BY <1>6, <2>1, <3>1
    <3>4. state[m.to] = Leader => term[m.to] < m.term
      BY SMTT(60), <1>1, <1>2, <2>1, AppendsToFollowers
    <3>5. /\ \A k \in Server \ {m.to} : state'[k] = state[k] /\ term'[k] = term[k]
          /\ state'[m.to] = HeardState(m.to, m)
      BY <1>1, <1>6 DEF HeardRole, SetRole, TypeOK
    <3>6. state'[m.to] = Follower
      <4>1. state[m.to] \in {Follower, Candidate, Leader}
        BY <1>1 DEF TypeOK, NodeState
      <4> QED BY <2>1, <3>4, <3>5, <4>1 DEF HeardState, StepsDown, StepState, Newer
    <3> QED BY <1>2, <2>1, <2>2, <2>4, <3>1, <3>2, <3>3, <3>4, <3>5, <3>6 DEF Merges
  <2> QED BY <1>4, <1>6, <2>3, <2>4
<1> QED BY <1>4, <1>5, <1>6

-----------------------------------------------------------------------------
(* Sends *)

\* Steps that change neither Progress nor the commit index.
LEMMA QuietKind ==
  ASSUME UNCHANGED <<state, term, entries, commited, next, match>>, msgs \subseteq msgs',
         \A n \in msgs' \ msgs :
           \/ n.type = "MsgTransferLeader" \/ HandsTo(n)
           \/ n.type = "MsgHeartbeat" /\ n.from # n.to
           \/ \E i \in Server : \E j \in Server \ {i} :
                /\ state[i] = Leader
                /\ n = AppendMsg(i, j, term[i], entries[i], commited[i], next[i][j])
  PROVE  Sends
<1>1. \A i, j \in Server : MatchTracks(i, j) /\ NextTracks(i, j)
  BY DEF MatchTracks, NextTracks
<1> QED BY SMTT(60), <1>1 DEF Sends

\* Heartbeats,
LEMMA BeatKind ==
  ASSUME NEW i \in Server, Beat(i)
  PROVE  Sends
<1>1. /\ UNCHANGED <<state, term, entries, commited, next, match>>
      /\ msgs' = msgs \cup {HeartbeatMsg(i, j, term[i]) : j \in prs[i] \ {i}}
  BY DEF Beat, Send, roleVars, logVars, peerVars
<1>2. ASSUME NEW n \in msgs' \ msgs
      PROVE  n.type = "MsgHeartbeat" /\ n.from # n.to
  <2>1. PICK j \in prs[i] \ {i} : n = HeartbeatMsg(i, j, term[i])
    BY <1>1
  <2> QED BY <2>1 DEF HeartbeatMsg, Msg
<1> QED BY <1>1, <1>2, QuietKind

\* the answers to heartbeats,
LEMMA HandleHeartbeatResponseKind ==
  ASSUME TypeOK, OthersAddressed, NEW m \in msgs, HandleHeartbeatResponse(m)
  PROVE  Sends
<1>1. m.to \in Server /\ m.from \in Server
  BY DEF TypeOK, Message
<1>2. /\ m.type = "MsgHeartbeatResponse" /\ state[m.to] = Leader
      /\ UNCHANGED <<state, term, entries, commited, next, match>>
      /\ msgs' = msgs \cup {AppendMsg(m.to, m.from, term[m.to], entries[m.to],
                                      commited[m.to], next[m.to][m.from])}
  BY DEF HandleHeartbeatResponse, Send, roleVars, logVars, peerVars
<1>3. m.from # m.to
  BY <1>2 DEF OthersAddressed
<1>4. ASSUME NEW n \in msgs' \ msgs
      PROVE  \E i \in Server : \E j \in Server \ {i} :
               /\ state[i] = Leader
               /\ n = AppendMsg(i, j, term[i], entries[i], commited[i], next[i][j])
  <2>2. m.from \in Server \ {m.to}
    BY <1>1, <1>3
  <2> QED BY <1>1, <1>2, <2>2
<1> QED BY <1>2, <1>4, QuietKind

\* transfers,
LEMMA StepTransferLeaderKind ==
  ASSUME NEW i \in Server, NEW j \in Server, StepTransferLeader(i, j)
  PROVE  Sends
<1>1. UNCHANGED <<state, term, entries, commited, next, match>>
  BY DEF StepTransferLeader, roleVars, logVars, peerVars
<1>2. \/ /\ state[i] = Leader /\ j # i
         /\ msgs' = msgs \cup
              {IF match[i][j] = LastIndex(entries[i]) THEN TimeoutNowMsg(i, j)
               ELSE AppendMsg(i, j, term[i], entries[i], commited[i], next[i][j])}
      \/ msgs' = msgs \cup {Msg("MsgTransferLeader", j, lead[i], 0)}
  BY DEF StepTransferLeader, Send
<1>3. ASSUME NEW n \in msgs' \ msgs
      PROVE  \/ n.type = "MsgTransferLeader" \/ HandsTo(n)
             \/ /\ state[i] = Leader /\ j \in Server \ {i}
                /\ n = AppendMsg(i, j, term[i], entries[i], commited[i], next[i][j])
  <2>1. /\ TimeoutNowMsg(i, j).type = "MsgTimeoutNow"
        /\ TimeoutNowMsg(i, j).from = i /\ TimeoutNowMsg(i, j).to = j
    BY DEF TimeoutNowMsg, Msg
  <2>2. match' = match
    BY <1>1
  <2>3. Msg("MsgTransferLeader", j, lead[i], 0).type = "MsgTransferLeader"
    BY DEF Msg
  <2> QED BY <1>2, <2>1, <2>2, <2>3 DEF HandsTo, LastIndex
<1>4. ASSUME NEW n \in msgs' \ msgs
      PROVE  \/ n.type = "MsgTransferLeader" \/ HandsTo(n)
             \/ \E k \in Server : \E l \in Server \ {k} :
                  /\ state[k] = Leader
                  /\ n = AppendMsg(k, l, term[k], entries[k], commited[k], next[k][l])
  BY <1>3
<1>5. msgs \subseteq msgs'
  BY <1>2
<1> QED BY <1>1, <1>4, <1>5, QuietKind

\* refusals,
LEMMA HandleAppendRejectKind ==
  ASSUME TypeOK, OthersAddressed, NEW m \in msgs, HandleAppendReject(m)
  PROVE  Sends
<1>1. m.to \in Server /\ m.from \in Server /\ m.term \in Nat /\ term[m.to] \in Nat
  BY DEF TypeOK, Message
<1>2. PICK index \in RetryIndex(entries[m.to], m) :
        /\ m.type = "MsgAppendResponse" /\ state[m.to] = Leader
        /\ ~Newer(m.to, m) /\ ~Stale(m.to, m) /\ m.reject /\ m.index # 0
        /\ UNCHANGED <<state, term, entries, commited, match>>
        /\ next' = [next EXCEPT ![m.to][m.from] = index]
        /\ msgs' = msgs \cup {AppendMsg(m.to, m.from, term[m.to], entries[m.to],
                                        commited[m.to], index)}
  BY DEF HandleAppendReject, Send, roleVars, logVars
<1>3. m.from # m.to
  BY <1>2 DEF OthersAddressed
<1>4. Answers(m, m.to, m.from)
  BY SMTT(60), <1>1, <1>2 DEF Answers, Newer, Stale
<1>5. PICK i \in Server, j \in Server : i = m.to /\ j = m.from
  BY <1>1
<1>6. /\ next'[i][j] = index
      /\ \A k, l \in Server : k # i \/ l # j => next'[k][l] = next[k][l]
  BY <1>2, <1>5 DEF TypeOK
<1>7. ASSUME NEW k \in Server, NEW l \in Server
      PROVE  MatchTracks(k, l) /\ NextTracks(k, l)
  <2>1. MatchTracks(k, l)
    BY <1>2 DEF MatchTracks
  <2>2. CASE k = i /\ l = j
    BY <1>2, <1>4, <1>5, <1>6, <2>1 DEF NextTracks
  <2>3. CASE k # i \/ l # j
    BY <1>6, <2>1, <2>3 DEF NextTracks
  <2> QED BY <2>2, <2>3
<1>8. ASSUME NEW n \in msgs' \ msgs
      PROVE  \E k \in Server : \E l \in Server \ {k} :
               /\ state[k] = Leader
               /\ n = AppendMsg(k, l, term[k], entries[k], commited'[k], next'[k][l])
  <2>1. n = AppendMsg(i, j, term[i], entries[i], commited'[i], next'[i][j])
    BY <1>2, <1>5, <1>6
  <2>2. j \in Server \ {i} /\ state[i] = Leader
    BY <1>2, <1>3, <1>5
  <2> QED BY <2>1, <2>2
<1> QED BY <1>2, <1>7, <1>8 DEF Sends

\* and acknowledgements, after which the leader may commit.
LEMMA HandleAppendAckKind ==
  ASSUME TypeOK, FixedPeers, OthersAddressed, NEW m \in msgs, HandleAppendAck(m)
  PROVE  Sends
<1>1. m.to \in Server /\ m.from \in Server /\ m.term \in Nat /\ term[m.to] \in Nat
  BY DEF TypeOK, Message
<1>2. /\ m.type = "MsgAppendResponse" /\ state[m.to] = Leader
      /\ ~Newer(m.to, m) /\ ~Stale(m.to, m) /\ ~m.reject
      /\ UNCHANGED <<state, term, entries>>
      /\ match' = [match EXCEPT ![m.to][m.from] = m.index]
      /\ next' = [next EXCEPT ![m.to][m.from] = m.index + 1]
      /\ \E cmt, commits :
           /\ commited' = [commited EXCEPT ![m.to] = cmt]
           /\ msgs' = msgs \cup
                ((IF commits THEN BcastAppend(m.to, term[m.to], entries[m.to], cmt,
                                              next'[m.to])
                             ELSE {})
                 \cup (IF HandsOver(m.to, m) THEN {TimeoutNowMsg(m.to, m.from)} ELSE {}))
  BY DEF HandleAppendAck, Send, roleVars
<1>3. PICK i \in Server, j \in Server : i = m.to /\ j = m.from
  BY <1>1
<1>4. /\ msgs \subseteq msgs'
      /\ \A n \in msgs' \ msgs :
           \/ HandsOver(i, m) /\ n = TimeoutNowMsg(i, j)
           \/ n \in BcastAppend(i, term[i], entries[i], commited'[i], next'[i])
  BY <1>2, <1>3 DEF TypeOK
<1>5. /\ TimeoutNowMsg(i, j).type = "MsgTimeoutNow"
      /\ TimeoutNowMsg(i, j).from = i /\ TimeoutNowMsg(i, j).to = j
  BY DEF TimeoutNowMsg, Msg
<1>6. Answers(m, i, j)
  BY SMTT(60), <1>1, <1>2, <1>3 DEF Answers, Newer, Stale
<1>7. /\ next'[i][j] = m.index + 1 /\ match'[i][j] = m.index
      /\ \A k, l \in Server : k # i \/ l # j =>
           next'[k][l] = next[k][l] /\ match'[k][l] = match[k][l]
  <2>1. /\ next \in [Server -> [Server -> Nat]] /\ match \in [Server -> [Server -> Nat]]
        /\ match' = [match EXCEPT ![i][j] = m.index]
        /\ next' = [next EXCEPT ![i][j] = m.index + 1]
    BY SMTT(60), <1>2, <1>3 DEF TypeOK
  <2> QED BY <2>1
<1>8. ASSUME NEW n \in msgs' \ msgs
      PROVE  \/ HandsTo(n)
             \/ \E k \in Server : \E l \in Server \ {k} :
                  /\ state[k] = Leader
                  /\ n = AppendMsg(k, l, term[k], entries[k], commited'[k], next'[k][l])
  <2>1. CASE n \in BcastAppend(i, term[i], entries[i], commited'[i], next'[i])
    <3>1. PICK l \in prs[i] \ {i} :
            n = AppendMsg(i, l, term[i], entries[i], commited'[i], next'[i][l])
      BY <2>1 DEF BcastAppend
    <3>2. l \in Server \ {i} /\ state[i] = Leader
      BY <1>2, <1>3 DEF FixedPeers
    <3> QED BY <3>1, <3>2
  <2>2. CASE HandsOver(i, m) /\ n = TimeoutNowMsg(i, j)
    <3>1. m.index = Len(entries[i]) /\ j # i
      BY <1>2, <1>3, <2>2 DEF HandsOver, LastIndex, OthersAddressed
    <3> QED BY <1>2, <1>3, <1>5, <1>7, <2>2, <3>1 DEF HandsTo
  <2> QED BY <1>4, <2>1, <2>2
<1>9. ASSUME NEW k \in Server, NEW l \in Server
      PROVE  MatchTracks(k, l) /\ NextTracks(k, l)
  <2>1. CASE k = i /\ l = j
    BY <1>2, <1>6, <1>7 DEF MatchTracks, NextTracks
  <2>2. CASE k # i \/ l # j
    BY <1>7, <2>2 DEF MatchTracks, NextTracks
  <2> QED BY <2>1, <2>2
<1> QED BY <1>2, <1>8, <1>9 DEF Sends

-----------------------------------------------------------------------------
(* All of them *)

\* Every step is of one of the four kinds.
LEMMA StepKinds ==
  ASSUME Counting, TypeOK, ElectionInv, OthersAddressed, [Next]_vars
  PROVE  \/ Sends
         \/ \E i \in Server : Hears(i)
         \/ \E i \in Server : Creates(i)
         \/ \E m \in msgs : Merges(m)
<1> DEFINE Kind == \/ Sends
                   \/ \E i \in Server : Hears(i)
                   \/ \E i \in Server : Creates(i)
                   \/ \E m \in msgs : Merges(m)
<1>1. FixedPeers /\ VoteMsgs
  BY DEF ElectionInv
<1>2. \A m \in msgs : m.to \in Server /\ m.from \in Server
  BY DEF TypeOK, Message
<1>3. ASSUME NEW i \in Server, DoElection(i)
      PROVE  Kind
  BY <1>1, <1>3, CampaignKind
<1>4. ASSUME NEW m \in msgs, HandleRequestVote(m)
      PROVE  Kind
  BY <1>1, <1>2, <1>4, HandleRequestVoteKind
<1>5. ASSUME NEW m \in msgs, HandleRequestVoteResponse(m)
      PROVE  Kind
  BY <1>1, <1>2, <1>5, HandleRequestVoteResponseKind
<1>6. ASSUME NEW m \in msgs, StepNewerResponse(m)
      PROVE  Kind
  BY <1>2, <1>6, StepNewerResponseKind
<1>7. ASSUME NEW i \in Server, NEW d \in Payload, Propose(i, d)
      PROVE  Kind
  BY <1>1, <1>7, ProposeKind
<1>8. ASSUME NEW m \in msgs, HandleAppendEntries(m)
      PROVE  Kind
  BY <1>2, <1>8, HandleAppendEntriesKind
<1>9. ASSUME NEW m \in msgs, HandleAppendReject(m)
      PROVE  Kind
  BY <1>9, HandleAppendRejectKind
<1>10. ASSUME NEW m \in msgs, HandleAppendAck(m)
       PROVE  Kind
  BY <1>1, <1>10, HandleAppendAckKind
<1>11. ASSUME NEW i \in Server, Beat(i)
       PROVE  Kind
  BY <1>11, BeatKind
<1>12. ASSUME NEW m \in msgs, HandleHeartbeat(m)
       PROVE  Kind
  BY <1>2, <1>12, HandleHeartbeatKind
<1>13. ASSUME NEW m \in msgs, HandleHeartbeatResponse(m)
       PROVE  Kind
  BY <1>13, HandleHeartbeatResponseKind
<1>14. ASSUME NEW i \in Server, NEW j \in Server, StepTransferLeader(i, j)
       PROVE  Kind
  BY <1>14, StepTransferLeaderKind
<1>15. ASSUME (\E i \in Server : TransferTimeout(i)) \/ UNCHANGED vars
       PROVE  Kind
  <2>1. UNCHANGED <<state, term, entries, commited, next, match>> /\ msgs' = msgs
    BY <1>15 DEF TransferTimeout, vars, roleVars, logVars, peerVars
  <2>2. Sends
    BY <2>1, QuietKind
  <2> QED BY <2>2
<1> HIDE DEF Kind
<1>16. ASSUME Election PROVE Kind
  BY <1>3, <1>4, <1>5, <1>6, <1>16 DEF Election, Hup
<1>17. ASSUME Replication PROVE Kind
  BY <1>7, <1>8, <1>9, <1>10, <1>17 DEF Replication, HandleAppendEntriesResponse, Payload
<1>18. ASSUME Heartbeat PROVE Kind
  BY <1>11, <1>12, <1>13, <1>18 DEF Heartbeat
<1>19. ASSUME Transfer PROVE Kind
  BY <1>2, <1>3, <1>14, <1>15, <1>19
  DEF Transfer, TransferLeader, HandleTransferLeader, HandleTimeoutNow
<1>20. ASSUME ProposeConfChange PROVE Kind
  BY <1>7, <1>20 DEF ProposeConfChange, Payload
<1>21. Kind
  BY <1>15, <1>16, <1>17, <1>18, <1>19, <1>20 DEF Next
<1> QED BY <1>21 DEF Kind
=============================================================================
