--------------------------- MODULE RaftCoreProofs ---------------------------
(***************************************************************************)
(* The theorems about RaftCore, for every cluster.  Each invariant is      *)
(* inductive relative to those before it; the steps are proved in the      *)
(* modules extended here, for any step that is one of the four kinds.      *)
(***************************************************************************)
EXTENDS ElectionProofs, ReplicationProofs, CommitProofs, FiniteSetTheorems

\* A leaf is Zenon's unless it names the SMT solver, for arithmetic.
USE ZenonT(60)

\* The sizes of sets of nodes are what the arguments take them to be, since a
\* cluster is finite.
LEMMA CountingHolds == Counting
<1>1. ASSUME NEW S \in SUBSET Server
      PROVE  /\ IsFiniteSet(S) /\ Cardinality(S) \in Nat
             /\ Cardinality(S) = 0 => S = {}
             /\ Cardinality(Server \ S) = Cardinality(Server) - Cardinality(S)
  <2>1. IsFiniteSet(S)
    BY ServerAssumption, FS_Subset
  <2>2. Cardinality(S) \in Nat /\ (Cardinality(S) = 0 => S = {})
    BY <2>1, FS_CardinalityType, FS_EmptySet
  <2>3. Server \cap S = S
    OBVIOUS
  <2>4. Cardinality(Server \ S) = Cardinality(Server) - Cardinality(Server \cap S)
    BY <2>1, ServerAssumption, FS_Difference
  <2> QED BY <2>1, <2>2, <2>3, <2>4
<1>2. ASSUME NEW S \in SUBSET Server, NEW T \in SUBSET Server
      PROVE  /\ S \subseteq T => Cardinality(S) <= Cardinality(T)
             /\ Cardinality(S) + Cardinality(T) > Cardinality(Server) => S \cap T # {}
  <2>1. ASSUME S \subseteq T
        PROVE  Cardinality(S) <= Cardinality(T)
    <3>1. IsFiniteSet(T)
      BY <1>1
    <3> QED BY <2>1, <3>1, FS_Subset
  <2>2. Cardinality(S) + Cardinality(T) > Cardinality(Server) => S \cap T # {}
    BY <1>1, ServerAssumption, FS_MajoritiesIntersect
  <2> QED BY <2>1, <2>2
<1>3. ASSUME NEW i \in Server, NEW j \in Server
      PROVE  Cardinality({i, j}) = IF i = j THEN 1 ELSE 2
  <2>1. IsFiniteSet({i}) /\ Cardinality({i}) = 1
    BY FS_Singleton
  <2>2. CASE i = j
    <3>1. {i, j} = {i}
      BY <2>2
    <3> QED BY <2>1, <2>2, <3>1
  <2>3. CASE i # j
    <3>1. Cardinality({i} \cup {j}) = Cardinality({i}) + 1
      BY <2>1, <2>3, FS_AddElement
    <3>2. {i, j} = {i} \cup {j}
      OBVIOUS
    <3> QED BY SMTT(60), <2>1, <2>3, <3>1, <3>2
  <2> QED BY <2>2, <2>3
<1>4. \A S \in SUBSET Server :
        /\ Cardinality(S) \in Nat
        /\ Cardinality(S) = 0 => S = {}
        /\ Cardinality(Server \ S) = Cardinality(Server) - Cardinality(S)
  BY <1>1
<1> QED BY <1>2, <1>3, <1>4 DEF Counting

\* Every step of the specification is one of the four kinds.
LEMMA NextMoves == TypeOK /\ ElectionInv /\ LogInv /\ [Next]_vars => Moves
BY StepKinds, CountingHolds DEF LogInv, Moves

-----------------------------------------------------------------------------
(* Elections *)

\* ElectionInv is an invariant of every cluster: what vote_, votes_ and the
\* vote messages say of each other survives that BecomeFollower clears vote_
\* within a term.
THEOREM ElectionInvariant == Spec => []ElectionInv
<1>1. Init => ElectionInv
  BY ElectionInit
<1>2. TypeOK /\ ElectionInv /\ [Next]_vars => ElectionInv'
  BY ElectionStep, CountingHolds
<1> QED BY <1>1, <1>2, TypeCorrect, PTL DEF Spec

\* At most one node leads a term, in a cluster of any size: two leaders or
\* late MsgAppend and MsgHeartbeat of one term never come from two nodes.
THEOREM ElectionSafe == Spec => []OneLeaderPerTerm
<1>1. TypeOK /\ ElectionInv => OneLeaderPerTerm
  BY ElectionSafety, CountingHolds
<1> QED BY <1>1, TypeCorrect, ElectionInvariant, PTL

-----------------------------------------------------------------------------
(* Log matching *)

\* What LogMatching rests on, for every cluster and every bound: the entries
\* of every log and of every MsgAppend that was ever sent agree, and only the
\* leader of a term creates entries of it.
THEOREM LogInvariant == Spec => []LogInv
<1>1. Init => LogInv
  BY LogInit
<1>2. TypeOK /\ ElectionInv /\ LogInv /\ TypeOK' /\ ElectionInv' /\ [Next]_vars => LogInv'
  BY NextMoves, LogStep, CountingHolds
<1> QED BY <1>1, <1>2, TypeCorrect, ElectionInvariant, PTL DEF Spec

\* Two logs with an entry of one term at one index are equal up to it, in a
\* cluster of any size and with any messages lost, repeated or reordered: the
\* test of HandleAppendEntries on the entry before the new ones is enough.
THEOREM LogsMatch == Spec => []LogMatching
<1>1. TypeOK /\ LogInv => LogMatching
  BY LogsAgree
<1> QED BY <1>1, TypeCorrect, LogInvariant, PTL

-----------------------------------------------------------------------------
(* Replication *)

\* The replication invariant holds throughout: what the handlers of MsgAppend
\* and MsgAppendResponse may rely on, whatever was lost, delayed or repeated.
THEOREM ReplInvariant == Spec => []ReplInv
<1>1. Init => ReplInv
  BY ReplInit
<1>2. /\ TypeOK /\ ElectionInv /\ LogInv /\ ReplInv /\ TypeOK' /\ ElectionInv' /\ [Next]_vars
      => ReplInv'
  BY NextMoves, ReplStep, CountingHolds
<1> QED BY <1>1, <1>2, TypeCorrect, ElectionInvariant, LogInvariant, PTL DEF Spec

\* A leader's prs_[j]->match tells the truth about every follower of its term,
\* for any number of nodes and any order of the messages, as long as it leads
\* for the first time; LeaderCommit counts these.
THEOREM MatchesReplicated == Spec => []MatchIsReplicated
<1>1. TypeOK /\ ElectionInv /\ LogInv /\ ReplInv => MatchIsReplicated
  <2> SUFFICES ASSUME TypeOK, ElectionInv, LogInv, ReplInv, NEW i \in Server, NEW j \in Server,
                      LeadsFirst(i), term[j] = term[i]
               PROVE  /\ match[i][j] <= Len(entries[j]) /\ match[i][j] <= Len(entries[i])
                      /\ SubSeq(entries[j], 1, match[i][j]) = SubSeq(entries[i], 1, match[i][j])
    BY DEF MatchIsReplicated
  <2>1. /\ entries[i] \in Seq(Entry) /\ entries[j] \in Seq(Entry) /\ match[i][j] \in Nat
        /\ Len(entries[i]) \in Nat /\ Len(entries[j]) \in Nat
    BY NodeLogs DEF TypeOK, LogsShown, LogShown
  <2>2. CASE i = j
    BY SMTT(60), <2>1, <2>2 DEF ReplInv, OwnProgress, LeadsFirst
  <2>3. CASE match[i][j] = 0
    BY SMTT(60), <2>1, <2>3, SamePrefix
  <2>4. CASE i # j /\ match[i][j] # 0
    <3>1. PICK m \in msgs : /\ IsAck(m) /\ m.from = j /\ m.to = i /\ m.term = term[i]
                            /\ m.index = match[i][j]
      BY SMTT(60), <2>4, FirstMatch
    <3>2. state[i] = Leader
      BY DEF LeadsFirst
    <3>3. /\ m.index \in 1..Len(entries[i]) /\ m.index \in 1..Len(entries[j])
          /\ \A l \in 1..m.index : entries[j][l] = entries[i][l]
      BY <3>1, <3>2, AckedAgrees
    <3> QED BY SMTT(60), <2>1, <3>1, <3>3, SamePrefix
  <2> QED BY <2>2, <2>3, <2>4
<1> QED BY <1>1, TypeCorrect, ElectionInvariant, LogInvariant, ReplInvariant, PTL

\* SendAppend never reads past a leader's last entry, whatever answers come
\* late, and while a node leads for the first time neither does LeaderCommit.
THEOREM ProgressInBounds == Spec => []NextInBounds
<1>1. TypeOK /\ ElectionInv /\ LogInv /\ ReplInv => NextInBounds
  <2> SUFFICES ASSUME TypeOK, ElectionInv, LogInv, ReplInv, NEW i \in Server, NEW j \in Server
               PROVE  /\ state[i] = Leader => next[i][j] <= Len(entries[i]) + 1
                      /\ LeadsFirst(i) => match[i][j] <= Len(entries[i])
    BY DEF NextInBounds
  <2>1. state[i] = Leader => next[i][j] <= Len(entries[i]) + 1
    BY DEF ReplInv, OwnProgress
  <2>2. ASSUME LeadsFirst(i)
        PROVE  match[i][j] <= Len(entries[i])
    <3>1. Len(entries[i]) \in Nat
      BY NodeLogs DEF LogsShown, LogShown
    <3>2. CASE i = j
      BY SMTT(60), <2>2, <3>1, <3>2 DEF ReplInv, OwnProgress, LeadsFirst
    <3>3. CASE i # j /\ match[i][j] # 0
      BY <2>2, <3>3, FirstMatch
    <3> QED BY SMTT(60), <3>1, <3>2, <3>3
  <2> QED BY <2>1, <2>2
<1> QED BY <1>1, TypeCorrect, ElectionInvariant, LogInvariant, ReplInvariant, PTL

\* The uninitialised fIndex of HandleAppendEntriesResponse is never read: the
\* term a refusal names is below the leader's, and its log ends with its own.
THEOREM FIndexNeverUninitialised == Spec => []FIndexInitialised
<1>1. TypeOK /\ LogInv /\ ReplInv => FIndexInitialised
  <2> SUFFICES ASSUME TypeOK, LogInv, ReplInv, NEW m \in msgs, m.type = "MsgAppendResponse",
                      m.reject, m.logTerm # 0, state[m.to] = Leader, m.term = term[m.to]
               PROVE  \E k \in 1..Len(entries[m.to]) : entries[m.to][k].term > m.logTerm
    BY DEF FIndexInitialised
  <2>1. m.to \in Server /\ m.logTerm \in Nat /\ m.term \in Nat
    BY MessageFields DEF TypeOK
  <2>2. m.logTerm < m.term
    BY DEF ReplInv, RefusalTerms
  <2>3. LogShown(m.to) /\ LastTerm(entries[m.to]) = m.term
    BY <2>1, NodeLogs DEF LogsShown, ReplInv, OwnLast
  <2>4. /\ Len(entries[m.to]) \in Nat /\ TermIn(Log(m.to), Len(entries[m.to])) = m.term
        /\ TermIn(Log(m.to), 0) = 0
    BY <2>3 DEF LogShown
  <2>5. Len(entries[m.to]) \in 1..Len(entries[m.to])
    BY SMTT(60), <2>1, <2>2, <2>4
  <2>6. entries[m.to][Len(entries[m.to])].term = m.term
    BY <2>3, <2>4, <2>5 DEF LogShown
  <2> QED BY <2>1, <2>2, <2>5, <2>6
<1> QED BY <1>1, TypeCorrect, LogInvariant, ReplInvariant, PTL

\* A leader that leads for the first time hands over only to a node that has
\* all of its log, so the successor that MsgTimeoutNow makes loses nothing.
THEOREM HandsOverWholeLog == Spec => HandoverComplete
<1>1. ASSUME TypeOK, ElectionInv, LogInv, ReplInv, [Next]_vars,
             NEW m \in msgs' \ msgs, m.type = "MsgTimeoutNow",
             LeadsFirst(m.from), term[m.to] = term[m.from]
      PROVE  entries[m.to] = entries[m.from]
  <2>1. /\ m.from \in Server /\ m.to \in Server /\ m.from # m.to
        /\ state[m.from] = Leader /\ match'[m.from][m.to] = Len(entries[m.from])
        /\ MatchTracks(m.from, m.to)
    BY <1>1, NextMoves, HandoverKind
  <2>2. Len(entries[m.from]) # 0
    <3>1. LastTerm(entries[m.from]) = term[m.from] /\ term[m.from] # 0
      BY <1>1, <2>1 DEF ReplInv, OwnLast, LogInv, OthersAddressed, Leader, Follower
    <3>2. LogShown(m.from)
      BY <1>1, <2>1, NodeLogs DEF LogsShown
    <3> QED BY <3>1, <3>2 DEF LogShown
  <2>3. \E a \in msgs : /\ IsAck(a) /\ a.from = m.to /\ a.to = m.from
                        /\ a.term = term[m.from] /\ a.index = Len(entries[m.from])
    <3>1. CASE match'[m.from][m.to] = match[m.from][m.to]
      BY SMTT(60), <1>1, <2>1, <2>2, <3>1, FirstMatch
    <3>2. CASE \E a : /\ Answers(a, m.from, m.to) /\ ~a.reject
                      /\ match'[m.from][m.to] = a.index
      <4>1. PICK a : Answers(a, m.from, m.to) /\ ~a.reject /\ match'[m.from][m.to] = a.index
        BY <3>2
      <4>2. a \in msgs /\ IsAck(a) /\ a.from = m.to /\ a.to = m.from
        BY <4>1 DEF Answers, IsAck
      <4> QED BY <1>1, <2>1, <4>1, <4>2, FirstAnswers
    <3> QED BY <2>1, <3>1, <3>2 DEF MatchTracks
  <2> QED BY <1>1, <2>1, <2>3, WholeLog
<1>2. TypeOK /\ ElectionInv /\ LogInv /\ ReplInv /\ [Next]_vars =>
        [\A m \in msgs' \ msgs :
           m.type = "MsgTimeoutNow" /\ LeadsFirst(m.from) /\ term[m.to] = term[m.from]
             => entries[m.to] = entries[m.from]]_vars
  BY <1>1
<1> QED BY <1>2, TypeCorrect, ElectionInvariant, LogInvariant, ReplInvariant, PTL
        DEF Spec, HandoverComplete

\* A leader without peers has committed its whole log: no acknowledgement will
\* ever reach it, and BecomeLeader and AppendEntries commit for it.
THEOREM LoneLeaderCommits == Spec => []AloneCommitsAll
<1>1. Init => AloneCommitsAll
  BY DEF Init, AloneCommitsAll, Leader, Follower
<1>2. ASSUME TypeOK, ElectionInv, LogInv, AloneCommitsAll, TypeOK', ElectionInv', [Next]_vars
      PROVE  AloneCommitsAll'
  <2> SUFFICES ASSUME NEW i \in Server, state'[i] = Leader, prs'[i] = {i}
               PROVE  commited'[i] = Len(entries'[i])
    BY DEF AloneCommitsAll, LastIndex
  <2>1. Server = {i} /\ prs[i] = {i} /\ Cardinality(Server) = 1
    <3>1. Server = {i} /\ prs[i] = Server
      BY <1>2 DEF ElectionInv, FixedPeers
    <3> QED BY <3>1, CountingHolds DEF Counting
  <2>2. \A m \in msgs : m.from = m.to
    BY <1>2, <2>1, MessageFields DEF TypeOK
  <2>3. state[i] = Leader => commited[i] = Len(entries[i])
    BY <1>2, <2>1 DEF AloneCommitsAll, LastIndex
  <2>4. ASSUME Sends
        PROVE  commited'[i] = Len(entries'[i])
    <3>1. state'[i] = state[i] /\ entries' = entries
      BY <2>4 DEF Sends
    <3>2. ~\E m \in msgs : HandleAppendAck(m)
      BY <1>2, <2>2 DEF HandleAppendAck, LogInv, OthersAddressed
    <3>3. CASE \E k \in Server : commited' = [commited EXCEPT ![k] = Len(entries[k])]
      BY SMTT(60), <1>2, <2>1, <3>1, <3>3 DEF TypeOK
    <3> QED BY <2>3, <2>4, <3>1, <3>2, <3>3 DEF Sends
  <2>5. ASSUME NEW k \in Server, Hears(k)
        PROVE  commited'[i] = Len(entries'[i])
    <3>1. k = i /\ entries' = entries /\ commited' = commited /\ state'[i] = state[i]
      BY <2>1, <2>5 DEF Hears, Leader, Follower, Candidate
    <3> QED BY <2>3, <3>1
  <2>6. ASSUME NEW k \in Server, Creates(k)
        PROVE  commited'[i] = Len(entries'[i])
    <3>1. k = i
      BY <2>1
    <3>2. PICK x \in Entry : entries' = [entries EXCEPT ![i] = Append(entries[i], x)]
      BY <2>6, <3>1 DEF Creates
    <3>3. commited' = [commited EXCEPT ![i] = Len(entries[i]) + 1]
      BY <2>1, <2>6, <3>1 DEF Creates
    <3>4. /\ entries'[i] = Append(entries[i], x) /\ entries[i] \in Seq(Entry)
          /\ commited'[i] = Len(entries[i]) + 1
      BY <1>2, <3>2, <3>3 DEF TypeOK
    <3> QED BY SMTT(60), <3>4
  <2>7. ~\E m \in msgs : Merges(m)
    BY <1>2, <2>2 DEF Merges, LogInv, OthersAddressed
  <2>8. Moves
    BY <1>2, NextMoves
  <2> QED BY <2>4, <2>5, <2>6, <2>7, <2>8 DEF Moves
<1> QED BY <1>1, <1>2, TypeCorrect, ElectionInvariant, LogInvariant, PTL DEF Spec

-----------------------------------------------------------------------------
(* Commitment *)

\* In every cluster of several nodes, an entry that more than half of the nodes
\* acknowledged in the term of its leader is in every log and every append of a
\* later term: what the comparison of logs in HandleRequestVote and the
\* prevIndex / prevLogTerm test of HandleAppendEntries are there for, whatever
\* the match indexes say.
THEOREM AckInvariant == Spec => [](Many => AckInv)
<1>1. Init => (Many => AckInv)
  BY AckInit
<1>2. /\ TypeOK /\ ElectionInv /\ LogInv /\ ReplInv /\ (Many => AckInv)
      /\ TypeOK' /\ ElectionInv' /\ LogInv' /\ ReplInv' /\ [Next]_vars
      => (Many => AckInv)'
  <2>1. Many' <=> Many
    BY DEF Many
  <2> QED BY <2>1, NextMoves, OnwardStep, AckStep, CountingHolds
<1> QED BY <1>1, <1>2, TypeCorrect, ElectionInvariant, LogInvariant, ReplInvariant, PTL DEF Spec

\* As long as LeaderCommit counts right, in a cluster of any size, everything
\* that is committed or announced as committed is chosen: acknowledged, in the
\* term of its leader, by more than half of the nodes.
THEOREM CommitInvariant == Spec /\ []CountsRight => []CommitOK
<1>1. Init => CommitOK
  BY AckInit, CommitInit DEF CommitOK
<1>2. /\ TypeOK /\ ElectionInv /\ LogInv /\ ReplInv /\ CommitOK /\ CountsRight
      /\ TypeOK' /\ ElectionInv' /\ LogInv' /\ ReplInv' /\ (Many => AckInv)' /\ CountsRight'
      /\ [Next]_vars
      => CommitOK'
  <2>1. Many' <=> Many
    BY DEF Many
  <2> QED BY <2>1, NextMoves, CommitOKStep, CountingHolds DEF CountsRight
<1> QED BY <1>1, <1>2, TypeCorrect, ElectionInvariant, LogInvariant, ReplInvariant,
           AckInvariant, PTL DEF Spec

\* As long as LeaderCommit counts right, in a cluster of any size: no two nodes
\* commit different entries at one index, a leader has what was committed up to
\* its term, more than half of the nodes have what a leader committed, and no
\* step of a handler takes back or overwrites what a node has committed.
THEOREM CommitsSafely ==
  Spec /\ []CountsRight =>
    []StateMachineSafety /\ []LeaderCompleteness /\ []CommittedOnMajority /\ CommittedIsStable
<1>1. TypeOK /\ ElectionInv /\ LogInv /\ ReplInv /\ CommitOK =>
        StateMachineSafety /\ LeaderCompleteness /\ CommittedOnMajority
  BY CommitOKSafe, CountingHolds
<1>2. /\ TypeOK /\ ElectionInv /\ LogInv /\ ReplInv /\ CommitOK /\ CountsRight
      /\ TypeOK' /\ ReplInv' /\ CommitOK' /\ [Next]_vars
      => [\A i \in Server :
            /\ commited'[i] >= commited[i]
            /\ Len(entries'[i]) >= commited[i]
            /\ SubSeq(entries'[i], 1, commited[i]) = CommittedPrefix(i)]_vars
  BY NextMoves, CommitOKStable, CountingHolds DEF CountsRight
<1> QED BY <1>1, <1>2, TypeCorrect, ElectionInvariant, LogInvariant, ReplInvariant,
           CommitInvariant, PTL DEF Spec, CommittedIsStable

\* LeaderCommit counts right as long as no node leads a second time and the
\* number of nodes is odd: what BecomeLeader keeps of an earlier term is all
\* that can mislead it.
THEOREM FirstLeadersCountRight ==
  ASSUME Cardinality(Server) % 2 = 1
  PROVE  Spec /\ [](\A i \in Server : state[i] = Leader => LeadsFirst(i)) => []CountsRight
<1>1. /\ TypeOK /\ ElectionInv /\ LogInv /\ ReplInv
      /\ (\A i \in Server : state[i] = Leader => LeadsFirst(i))
      => CountsRight
  BY FirstCountsOwnTerm DEF CountsRight, CountsMajority
<1> QED BY <1>1, TypeCorrect, ElectionInvariant, LogInvariant, ReplInvariant, PTL

\* In a cluster of one or of three nodes LeaderCommit counts right, whoever
\* leads how often.
THEOREM ThreeCountRight ==
  ASSUME Cardinality(Server) \in {1, 3}
  PROVE  Spec => []CountsRight
<1>1. TypeOK /\ ElectionInv /\ LogInv /\ ReplInv /\ (Many => AckInv) => CountsRight
  <2> SUFFICES ASSUME TypeOK, ElectionInv, LogInv, ReplInv, Many => AckInv
               PROVE  CountsRight
    OBVIOUS
  <2>1. CountsMajority
    BY SMTT(60) DEF CountsMajority
  <2>2. CASE Many
    BY SMTT(60), <2>1, <2>2, ThreeCountOwnTerm, CountingHolds DEF CountsRight
  <2>3. CASE ~Many
    <3>1. \A i, j \in Server : i = j
      BY <2>3, OnlyNode, CountingHolds DEF Many
    <3> QED BY <2>1, <3>1 DEF CountsRight, CountsOwnTerm
  <2> QED BY <2>2, <2>3
<1> QED BY <1>1, TypeCorrect, ElectionInvariant, LogInvariant, ReplInvariant, AckInvariant, PTL

\* In a cluster of one or of three nodes no two nodes commit different entries
\* at one index, so they apply the same commands in the same order.
THEOREM ThreeApplyTheSame ==
  ASSUME Cardinality(Server) \in {1, 3}
  PROVE  Spec => []StateMachineSafety
BY ThreeCountRight, CommitsSafely, PTL

\* In a cluster of one or of three nodes a leader has everything that was
\* committed up to its term: the comparison of logs in HandleRequestVote and the
\* commit rule of LeaderCommit work together.
THEOREM ThreeLeadersComplete ==
  ASSUME Cardinality(Server) \in {1, 3}
  PROVE  Spec => []LeaderCompleteness
BY ThreeCountRight, CommitsSafely, PTL

\* In a cluster of one or of three nodes what a leader commits in its term is in
\* the logs of more than half of the nodes.
THEOREM ThreeCommitOnMajority ==
  ASSUME Cardinality(Server) \in {1, 3}
  PROVE  Spec => []CommittedOnMajority
BY ThreeCountRight, CommitsSafely, PTL

\* In a cluster of one or of three nodes commited never falls, and no merge of
\* an append cuts or overwrites an entry that the node has committed.
THEOREM ThreeKeepCommitted ==
  ASSUME Cardinality(Server) \in {1, 3}
  PROVE  Spec => CommittedIsStable
BY ThreeCountRight, CommitsSafely, PTL
=============================================================================
