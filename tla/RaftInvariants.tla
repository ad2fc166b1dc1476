--------------------------- MODULE RaftInvariants ---------------------------
(***************************************************************************)
(* The words in which the proofs about RaftCore speak: what a stretch of a *)
(* log shows, what a step of any handler amounts to, and the invariant of  *)
(* replication.                                                            *)
(***************************************************************************)
EXTENDS RaftCore

\* Stretches of logs are typed.
StretchType == [index : Nat, logTerm : Nat, entries : Seq(Entry)]

\* The end of a log from index n on, as SendAppend cuts it off.
Suffix(ents, n) == Stretch(n - 1, TermAt(ents, n - 1), SubSeq(ents, n, Len(ents)))

-----------------------------------------------------------------------------
(* The terms that a stretch shows *)

\* A stretch shows the terms from its index on, and holds the entries after it.
Last(f)      == f.index + Len(f.entries)

Shown(f)     == f.index..Last(f)
Held(f)      == (f.index + 1)..Last(f)
TermIn(f, k) == IF k = f.index THEN f.logTerm ELSE f.entries[k - f.index].term

\* Terms never fall along a stretch.
Ascends(f) == \A k, l \in Shown(f) : k <= l => TermIn(f, k) <= TermIn(f, l)

\* If f holds a term and g shows it later, then g shows it all the way between.
Runs(f, g) ==
  \A x \in Held(f) : \A z, y \in Shown(g) :
    x <= z /\ z <= y /\ TermIn(g, y) = TermIn(f, x) => TermIn(g, z) = TermIn(f, x)

\* f shows a part of what w shows, up to the end of it.
Cut(f, w) ==
  /\ w.index <= f.index /\ Last(f) = Last(w)
  /\ \A k \in Shown(f) : TermIn(f, k) = TermIn(w, k)

\* The log w after a merge of c, whose first term it shows.
Merged(r, w, c) ==
  /\ w.index = 0 /\ r.index = 0 /\ c.index <= Last(w)
  /\ TermIn(w, c.index) = TermIn(c, c.index)
  /\ Last(c) <= Last(r)
  /\ \A k \in Shown(c) : TermIn(r, k) = TermIn(c, k)
  /\ \A k \in 0..c.index : TermIn(r, k) = TermIn(w, k)
  /\ \/ r = w
     \/ /\ Last(r) = Last(c)
        /\ Last(w) < Last(c) \/ \E k \in Held(c) : TermIn(w, k) # TermIn(c, k)

-----------------------------------------------------------------------------
(* What a step does *)

\* An answer to an append that a leader i takes for one of j of its own term.
Answers(m, i, j) ==
  /\ m \in msgs /\ m.type = "MsgAppendResponse" /\ m.from = j /\ m.to = i
  /\ state[i] = Leader /\ m.term \in {0, term[i]}

\* What a step in which only leaders send does to prs_[j]->match,
MatchTracks(i, j) ==
  \/ match'[i][j] = match[i][j]
  \/ i = j /\ match'[i][j] = Len(entries[i])
  \/ \E m : Answers(m, i, j) /\ ~m.reject /\ match'[i][j] = m.index

\* and to prs_[j]->next.
NextTracks(i, j) ==
  \/ next'[i][j] = next[i][j]
  \/ i = j /\ next'[i][j] = Len(entries[i]) + 1
  \/ \E m : Answers(m, i, j) /\ ~m.reject /\ next'[i][j] = m.index + 1
  \/ \E m : /\ Answers(m, i, j) /\ m.reject /\ m.index # 0
            /\ next'[i][j] \in RetryIndex(entries[i], m)

\* A leader asks a node to take over once it has the whole log, as far as the
\* leader knows.
HandsTo(n) ==
  /\ n.type = "MsgTimeoutNow"
  /\ n.from \in Server /\ n.to \in Server /\ n.from # n.to
  /\ state[n.from] = Leader /\ match'[n.from][n.to] = Len(entries[n.from])

\* Leaders send heartbeats and the ends of their logs, and keep track of what
\* their followers answer.
Sends ==
  /\ UNCHANGED <<state, term, entries>>
  /\ msgs \subseteq msgs'
  /\ \A n \in msgs' \ msgs :
       \/ n.type = "MsgTransferLeader" \/ HandsTo(n)
       \/ n.type = "MsgHeartbeat" /\ n.from # n.to
       \/ \E i \in Server : \E j \in Server \ {i} :
            /\ state[i] = Leader
            /\ n = AppendMsg(i, j, term[i], entries[i], commited'[i], next'[i][j])
  /\ \A i, j \in Server : MatchTracks(i, j) /\ NextTracks(i, j)
  /\ \/ commited' = commited
     \/ /\ Cardinality(Server) = 1
        /\ \E i \in Server : commited' = [commited EXCEPT ![i] = Len(entries[i])]
     \/ \E m \in msgs : HandleAppendAck(m)

\* A vote granted to a node whose log is not behind.
Grants(i, n) ==
  \E r \in msgs : /\ r.type = "MsgRequestVote" /\ r.to = i
                  /\ r.from = n.to /\ r.term = n.term /\ ~MoreUpToDate(i, r)

\* An append refused: the log is too short, or has another term before the
\* new entries.
Refuses(i, n) ==
  \E a \in msgs :
    /\ a.type = "MsgAppend" /\ a.to = i /\ a.from = n.to /\ a.term = n.term
    /\ \/ /\ a.index > Len(entries[i])
          /\ n.logTerm = 0 /\ n.index = Len(entries[i]) + 1
       \/ /\ a.index \in 1..Len(entries[i])
          /\ entries[i][a.index].term # a.logTerm
          /\ n.logTerm = entries[i][a.index].term /\ n.index = a.index - 1

\* Node i campaigns, or answers a message.
Hears(i) ==
  /\ UNCHANGED <<entries, commited, next, match>>
  /\ msgs \subseteq msgs'
  /\ \A k \in Server \ {i} : state'[k] = state[k] /\ term'[k] = term[k]
  /\ \/ term'[i] = term[i] /\ state'[i] = state[i]
     \/ term'[i] = term[i] /\ state'[i] = Follower /\ state[i] = Candidate
     \/ term'[i] > term[i] /\ state'[i] \in {Follower, Candidate}
  /\ \A n \in msgs' \ msgs :
       /\ n.from = i /\ n.term = term'[i] /\ n.from # n.to
       /\ \/ n.type = "MsgHeartbeatResponse"
          \/ /\ n.type = "MsgRequestVote" /\ n.index = Len(entries[i])
             /\ n.logTerm = LastTerm(entries[i])
          \/ n.type = "MsgRequestVoteResponse" /\ (~n.reject => Grants(i, n))
          \/ /\ n.type = "MsgAppendResponse" /\ n.reject
             /\ (n.index = 0 /\ n.logTerm = 0) \/ Refuses(i, n)

\* Node i, a leader, perhaps from this step on, appends an entry of its term
\* and broadcasts its log.
Creates(i) ==
  /\ \E x \in Entry : /\ x.term = term'[i]
                      /\ entries' = [entries EXCEPT ![i] = Append(entries[i], x)]
  /\ state'[i] = Leader /\ term'[i] # 0
  /\ \A k \in Server \ {i} :
       /\ state'[k] = state[k] /\ term'[k] = term[k]
       /\ next'[k] = next[k] /\ match'[k] = match[k]
  /\ \/ state[i] = Leader /\ term'[i] = term[i]
     \/ state[i] = Candidate /\ term'[i] = term[i]
     \/ Cardinality(Server) = 1 /\ term'[i] > term[i]
  /\ \A j \in Server \ {i} :
       /\ match'[i][j] = match[i][j]
       /\ \/ next'[i][j] = Len(entries[i]) + 1
          \/ state[i] = Leader /\ next'[i][j] = next[i][j]
  /\ match'[i][i] = Len(entries[i]) + 1 /\ next'[i][i] = Len(entries[i]) + 2
  /\ msgs' = msgs \cup {AppendMsg(i, j, term'[i], entries'[i], commited'[i], next'[i][j]) :
                          j \in Server \ {i}}
  /\ \/ commited' = commited /\ Cardinality(Server) # 1
     \/ /\ Cardinality(Server) = 1
        /\ commited' = [commited EXCEPT ![i] = Len(entries[i]) + 1]

\* A follower merges the append m into its log and acknowledges all of it.
Merges(m) ==
  /\ m \in msgs /\ m.type = "MsgAppend"
  /\ \A k \in Server \ {m.to} : state'[k] = state[k] /\ term'[k] = term[k]
  /\ term[m.to] <= m.term /\ term'[m.to] = m.term
  /\ state'[m.to] = Follower /\ (state[m.to] = Leader => term[m.to] < m.term)
  /\ m.index <= Len(entries[m.to])
  /\ m.index >= 1 => entries[m.to][m.index].term = m.logTerm
  /\ entries' = [entries EXCEPT ![m.to] = Merge(entries[m.to], m)]
  /\ commited' = [commited EXCEPT ![m.to] = NewCommit(commited[m.to], m)]
  /\ UNCHANGED <<next, match>>
  /\ msgs' = msgs \cup {AppendResponseMsg(m.to, m.from, m.term, FALSE, 0,
                                          Len(Merge(entries[m.to], m)))}

\* Every step of Next is one of these.
Moves ==
  \/ Sends
  \/ \E i \in Server : Hears(i)
  \/ \E i \in Server : Creates(i)
  \/ \E m \in msgs : Merges(m)

-----------------------------------------------------------------------------
(* The leaders of the past *)

\* A step that forgets no message, lowers no term, deposes no leader within its
\* term, and grants votes in the term it leaves only.
RolesKept ==
  /\ msgs \subseteq msgs'
  /\ \A k \in Server : /\ term[k] <= term'[k]
                       /\ state[k] = Leader /\ term'[k] = term[k] => state'[k] = Leader
  /\ \A m \in msgs' \ msgs : IsGrant(m) => m.term = term'[m.from]

\* So a leader, and nobody else, has led its term.
LeadersKnown ==
  \A i \in Server : state[i] = Leader =>
    LedOnce(i, term[i]) /\ \A j \in Server : LedOnce(j, term[i]) => i = j

-----------------------------------------------------------------------------
(* The replication invariant *)

\* Logs and appends as stretches.
Log(i)  == Stretch(0, 0, entries[i])
Part(m) == Stretch(m.index, m.logTerm, m.entries)

IsAppend(m) == m.type = "MsgAppend"
IsAck(m)    == m.type = "MsgAppendResponse" /\ ~m.reject

\* The answers that are about the log of their sender: a stale append gets an
\* answer that says nothing.
Informs(m) ==
  m.type = "MsgAppendResponse" /\ (m.reject => m.index # 0 \/ m.logTerm # 0)

SentAppend(i, t) == \E m \in msgs : IsAppend(m) /\ m.from = i /\ m.term = t

\* Node i has an entry of term t at index x.
Holds(i, x, t) == x \in 1..Len(entries[i]) /\ entries[i][x].term = t

\* The terms in logs and appends never fall, and the entries of one term are a
\* run of indexes in all of them.
TermsInOrder ==
  \A f \in Stretches : Ascends(f) /\ \A g \in Stretches : Runs(f, g)

\* No log is ahead of its node's term, and what a leader has and sends ends
\* with an entry of its term.
TermsBounded ==
  \A i \in Server : \A k \in 1..Len(entries[i]) : entries[i][k].term <= term[i]

OwnLast ==
  /\ \A i \in Server : state[i] = Leader => LastTerm(entries[i]) = term[i]
  /\ \A m \in msgs : IsAppend(m) => TermIn(Part(m), Last(Part(m))) = m.term

\* A leader counts its own log, and sends no more than it.
OwnProgress ==
  \A i \in Server : state[i] = Leader =>
    /\ match[i][i] = Len(entries[i])
    /\ \A j \in Server : next[i][j] <= Len(entries[i]) + 1

\* While a leader leads it has what it sent,
AppendsWithin ==
  \A m \in msgs : IsAppend(m) /\ state[m.from] = Leader /\ term[m.from] = m.term =>
    Last(Part(m)) <= Len(entries[m.from])

\* and what it is told of.
AnswersWithin ==
  \A m \in msgs : Informs(m) =>
    /\ SentAppend(m.to, m.term) /\ m.term <= term[m.from]
    /\ state[m.to] = Leader /\ term[m.to] = m.term => m.index <= Len(entries[m.to])

\* An acknowledged entry is of the term, and stays while the term lasts.
AcksHeld ==
  \A m \in msgs : IsAck(m) =>
    m.index >= 1 /\ (term[m.from] = m.term => Holds(m.from, m.index, m.term))

\* A refusal names a term below its own.
RefusalTerms ==
  \A m \in msgs : m.type = "MsgAppendResponse" /\ m.reject =>
    m.logTerm = 0 \/ m.logTerm < m.term

\* What a leader knows of another node was acknowledged by it, if perhaps in an
\* earlier term.
MatchAcked ==
  \A i, j \in Server : i # j /\ match[i][j] # 0 =>
    \E m \in msgs : IsAck(m) /\ m.from = j /\ m.to = i /\ m.index = match[i][j]

ReplInv ==
  /\ TermsInOrder
  /\ TermsBounded
  /\ OwnLast
  /\ OwnProgress
  /\ AppendsWithin
  /\ AnswersWithin
  /\ AcksHeld
  /\ RefusalTerms
  /\ MatchAcked

-----------------------------------------------------------------------------
(* Logs and appends as stretches *)

\* A log and what it shows,
LogShown(i) ==
  /\ Log(i) \in Stretches /\ Log(i) \in StretchType
  /\ Log(i).index = 0 /\ Last(Log(i)) = Len(entries[i]) /\ Len(entries[i]) \in Nat
  /\ Shown(Log(i)) = 0..Len(entries[i]) /\ Held(Log(i)) = 1..Len(entries[i])
  /\ TermIn(Log(i), 0) = 0
  /\ \A k \in 1..Len(entries[i]) : /\ TermIn(Log(i), k) = entries[i][k].term
                                   /\ entries[i][k].term \in Nat
  /\ LastTerm(entries[i]) = TermIn(Log(i), Len(entries[i]))

LogsShown == \A i \in Server : LogShown(i)

-----------------------------------------------------------------------------
(* Sizes *)

\* What the arguments use of the sizes of sets of nodes: they are numbers, a
\* larger set has no smaller size, and two majorities meet.
Counting ==
  /\ \A S \in SUBSET Server :
       /\ Cardinality(S) \in Nat
       /\ Cardinality(S) = 0 => S = {}
       /\ Cardinality(Server \ S) = Cardinality(Server) - Cardinality(S)
  /\ \A S, T \in SUBSET Server :
       /\ S \subseteq T => Cardinality(S) <= Cardinality(T)
       /\ Cardinality(S) + Cardinality(T) > Cardinality(Server) => S \cap T # {}
  /\ \A i, j \in Server : Cardinality({i, j}) = IF i = j THEN 1 ELSE 2
=============================================================================
