---------------------------- MODULE CommitProofs ----------------------------
(***************************************************************************)
(* Commitment: what LeaderCommit counts is never lost.  An entry is chosen *)
(* when more than half of the nodes acknowledged it in the term of its     *)
(* leader, and dead when more than half have left the term without doing   *)
(* so; it cannot be both.  AckInv says that a log goes without an entry of *)
(* an earlier term only if the entry is dead, which holds in every         *)
(* cluster.  What is committed is chosen as long as LeaderCommit counts    *)
(* acknowledgements of its own term and asks for more than half of the     *)
(* nodes; the code does so in clusters of three, and can fail to in        *)
(* larger ones.                                                            *)
(***************************************************************************)
EXTENDS StretchProofs

\* A leaf is Zenon's unless it names the SMT solver, for arithmetic.
USE ZenonT(60)

\* Node q acknowledged an entry of index x or later in term t, or led the term.
Acked(q, x, t) ==
  \E m \in msgs : /\ m.from = q /\ m.term = t
                  /\ IsAppend(m) \/ (IsAck(m) /\ m.index >= x)

\* An entry of term t was sent at index x.
Exists(x, t) ==
  \E m \in msgs : IsAppend(m) /\ x \in Held(Part(m)) /\ TermIn(Part(m), x) = t

Majority(Q) == Q \in SUBSET Server /\ 2 * Cardinality(Q) > Cardinality(Server)

\* More than half of the nodes acknowledged the entry in its term,
Chosen(x, t) ==
  Exists(x, t) /\ \E Q \in SUBSET Server : Majority(Q) /\ \A q \in Q : Acked(q, x, t)

\* or they have left the term without doing so, and never will.
Dead(x, t) ==
  \E Q \in SUBSET Server : Majority(Q) /\ \A q \in Q : term[q] > t /\ ~Acked(q, x, t)

\* A stretch of a log that has an entry of a term after t where the entry of
\* term t at index x is missing.
Without(f, x, t) ==
  \E k \in Held(f) : /\ TermIn(f, k) > t
                     /\ \/ k <= x
                        \/ x \in Held(f) /\ TermIn(f, x) # t
                        \/ x <= f.index /\ f.logTerm < t

\* What a log or an append goes without is dead.
LostIsDead ==
  \A x, t \in Nat : x # 0 /\ Exists(x, t) =>
    \A f \in Stretches : Without(f, x, t) => Dead(x, t)

\* What a node acknowledged it has, or it is dead;
AcksHold ==
  \A x, t \in Nat : x # 0 /\ Exists(x, t) =>
    \A q \in Server : Acked(q, x, t) => Holds(q, x, t) \/ Dead(x, t)

\* and so has the candidate that it votes for later.
GrantsHold ==
  \A n \in msgs : IsGrant(n) /\ state[n.to] = Candidate /\ term[n.to] = n.term =>
    \A x, t \in Nat : /\ x # 0 /\ t < n.term
                      /\ Exists(x, t) /\ Acked(n.from, x, t)
                      => Holds(n.to, x, t) \/ Dead(x, t)

\* A vote is an answer to a request, and a request describes the candidate's log.
GrantsAsked ==
  \A n \in msgs : IsGrant(n) =>
    \E r \in msgs : r.type = "MsgRequestVote" /\ r.from = n.to /\ r.term = n.term

RequestLogs ==
  \A r \in msgs : /\ r.type = "MsgRequestVote"
                  /\ state[r.from] = Candidate /\ term[r.from] = r.term
                  => r.index = Len(entries[r.from]) /\ r.logTerm = LastTerm(entries[r.from])

\* A leader has sent an append in its term, and every entry was sent.
LeadersSent == \A i \in Server : state[i] = Leader => SentAppend(i, term[i])

EntriesSent ==
  /\ \A i \in Server : \A x \in 1..Len(entries[i]) : Exists(x, entries[i][x].term)
  /\ \A m \in msgs : IsAck(m) => Exists(m.index, m.term)

AckInv ==
  /\ LostIsDead
  /\ AcksHold
  /\ GrantsHold
  /\ GrantsAsked
  /\ RequestLogs
  /\ LeadersSent
  /\ EntriesSent

\* An index up to which a log whose last index is last and whose last term is u
\* may be applied: it is covered by a chosen entry that the log must have.
Backed(c, last, u) ==
  c = 0 \/ \E x, t \in Nat : c <= x /\ x <= last /\ t <= u /\ Chosen(x, t)

\* What is committed, or announced as committed, is chosen.
CommitInv ==
  /\ \A i \in Server : Backed(commited[i], Len(entries[i]), LastTerm(entries[i]))
  /\ \A m \in msgs : IsAppend(m) => Backed(m.commit, Last(Part(m)), m.term)

\* LeaderCommit counts a node for an entry of the leader's term only if the node
\* acknowledged it in that term.  BecomeLeader keeps the match indexes of an
\* earlier term, so this can fail.
CountsOwnTerm ==
  \A i, j \in Server : \A n \in 1..match[i][j] :
    state[i] = Leader /\ i # j /\ Holds(i, n, term[i]) => Acked(j, n, term[i])

\* The number of nodes is odd, or no leader has a configuration change pending:
\* where LeaderCommit asks for more than half of the nodes.
CountsMajority ==
  Cardinality(Server) % 2 = 1
    \/ \A i \in Server : state[i] = Leader => pendingConfIndex[i] = 0

\* The argument is about clusters in which messages are sent.
Many == Cardinality(Server) # 1

-----------------------------------------------------------------------------
(* Stretches without an entry *)

\* What a part of a log goes without, the log goes without.
LEMMA WithoutCut ==
  ASSUME NEW f \in StretchType, NEW w \in StretchType, Cut(f, w), Ascends(w), w.index = 0,
         NEW x \in Nat \ {0}, NEW t \in Nat, Without(f, x, t)
  PROVE  Without(w, x, t)
<1>1. /\ f.index \in Nat /\ Last(f) \in Nat /\ f.index <= Last(f) /\ Last(f) = Last(w)
      /\ \A k \in Shown(f) : TermIn(f, k) = TermIn(w, k) /\ TermIn(f, k) \in Nat
  BY ViewType DEF Cut
<1>2. PICK k \in Held(f) : /\ TermIn(f, k) > t
                           /\ \/ k <= x
                              \/ x \in Held(f) /\ TermIn(f, x) # t
                              \/ x <= f.index /\ f.logTerm < t
  BY DEF Without
<1>3. /\ k \in Held(w) /\ TermIn(w, k) > t
  BY SMTT(60), <1>1, <1>2 DEF Held, Shown
<1>4. ASSUME x \in Held(f), TermIn(f, x) # t
      PROVE  x \in Held(w) /\ TermIn(w, x) # t
  BY SMTT(60), <1>1, <1>4 DEF Held, Shown
<1>5. ASSUME x <= f.index, f.logTerm < t
      PROVE  x \in Held(w) /\ TermIn(w, x) # t
  <2>1. x \in Shown(w) /\ f.index \in Shown(w) /\ x \in Held(w) /\ f.index \in Shown(f)
    BY SMTT(60), <1>1, <1>5 DEF Held, Shown
  <2>2. TermIn(w, x) <= TermIn(w, f.index) /\ TermIn(w, x) \in Nat
    BY <1>5, <2>1, ViewType DEF Ascends
  <2>3. TermIn(w, f.index) = f.logTerm /\ f.logTerm \in Nat
    <3>1. TermIn(f, f.index) = f.logTerm
      BY DEF TermIn
    <3> QED BY <1>1, <2>1, <3>1
  <2> QED BY SMTT(60), <1>5, <2>1, <2>2, <2>3
<1> QED BY <1>2, <1>3, <1>4, <1>5 DEF Without

\* What a merged log goes without, the log before or the append did.
LEMMA WithoutMerged ==
  ASSUME NEW r \in StretchType, NEW w \in StretchType, NEW c \in StretchType,
         Merged(r, w, c), Ascends(w),
         NEW x \in Nat \ {0}, NEW t \in Nat, Without(r, x, t),
         NEW g \in StretchType, x \in Held(g), TermIn(g, x) = t, Runs(g, w)
  PROVE  Without(w, x, t) \/ Without(c, x, t)
<1>1. /\ w.index = 0 /\ r.index = 0 /\ c.index <= Last(w)
      /\ TermIn(w, c.index) = TermIn(c, c.index)
      /\ \A k \in Shown(c) : TermIn(r, k) = TermIn(c, k)
      /\ \A k \in 0..c.index : TermIn(r, k) = TermIn(w, k)
      /\ r = w \/ Last(r) = Last(c)
  BY DEF Merged
<1>2. /\ c.index \in Nat /\ Last(c) \in Nat /\ c.index <= Last(c) /\ Last(w) \in Nat
      /\ Last(r) \in Nat /\ TermIn(c, c.index) = c.logTerm
      /\ \A k \in Shown(c) : TermIn(c, k) \in Nat
      /\ \A k \in Shown(w) : TermIn(w, k) \in Nat
  BY ViewType DEF TermIn
<1> SUFFICES ASSUME Last(r) = Last(c)
             PROVE  Without(w, x, t) \/ Without(c, x, t)
  BY <1>1
<1>3. PICK k \in Held(r) : /\ TermIn(r, k) > t
                           /\ k <= x \/ (x \in Held(r) /\ TermIn(r, x) # t)
  BY SMTT(60), <1>1 DEF Without
<1>5. CASE k <= c.index
  <2>1. k \in Held(w) /\ TermIn(w, k) > t
    BY SMTT(60), <1>1, <1>2, <1>3, <1>5 DEF Held
  <2>2. ASSUME x < k, TermIn(r, x) # t
        PROVE  x \in Held(w) /\ TermIn(w, x) # t
    BY SMTT(60), <1>1, <1>2, <1>5, <2>2 DEF Held
  <2> QED BY SMTT(60), <1>3, <2>1, <2>2 DEF Without
<1>6. CASE k > c.index
  <2>1. k \in Held(c) /\ TermIn(c, k) > t
    BY SMTT(60), <1>1, <1>2, <1>3, <1>6 DEF Held, Shown
  <2>2. CASE k <= x
    BY <2>1, <2>2 DEF Without
  <2>3. CASE x \in Held(c) /\ TermIn(r, x) # t
    <3>1. TermIn(c, x) # t
      BY SMTT(60), <1>1, <1>2, <2>3 DEF Held, Shown
    <3> QED BY <2>1, <2>3, <3>1 DEF Without
  <2>4. CASE x <= c.index /\ TermIn(r, x) # t
    <3>1. /\ x \in Held(w) /\ x \in Shown(w) /\ c.index \in Shown(w) /\ c.index \in Held(w)
          /\ TermIn(w, x) # t
      BY SMTT(60), <1>1, <1>2, <2>4 DEF Held, Shown
    <3>2. CASE c.logTerm > t
      BY <1>1, <1>2, <3>1, <3>2 DEF Without
    <3>3. c.logTerm # t
      BY SMTT(60), <1>1, <1>2, <2>4, <3>1 DEF Runs
    <3>4. CASE c.logTerm < t
      BY <2>1, <2>4, <3>4 DEF Without
    <3>5. c.logTerm \in Nat
      BY DEF StretchType
    <3> QED BY SMTT(60), <3>2, <3>3, <3>4, <3>5
  <2> QED BY SMTT(60), <1>2, <1>3, <2>2, <2>3, <2>4 DEF Held
<1> QED BY SMTT(60), <1>2, <1>5, <1>6

-----------------------------------------------------------------------------
(* Chosen and dead entries *)

\* An entry that was sent is in a stretch.
LEMMA ExistsIn ==
  ASSUME TypeOK, NEW x, NEW t, Exists(x, t)
  PROVE  \E g \in Stretches : g \in StretchType /\ x \in Held(g) /\ TermIn(g, x) = t
BY AppendPart DEF Exists

\* It was created by a leader of its term.
LEMMA HeldLed ==
  ASSUME TypeOK, LogInv, NEW g \in Stretches, NEW k \in Held(g)
  PROVE  \E j \in Server : LedOnce(j, TermIn(g, k))
<1>1. g \in StretchType
  BY StretchesTyped
<1>2. g.index \in Nat /\ g.entries \in Seq(Entry) /\ Last(g) = g.index + Len(g.entries)
  BY <1>1 DEF StretchType, Last
<1>4. k - g.index \in DOMAIN g.entries /\ TermIn(g, k) = g.entries[k - g.index].term
  BY SMTT(60), <1>2 DEF Held, TermIn
<1> QED BY <1>4 DEF LogInv, EntriesOfLeaders

\* Two majorities meet, so what is chosen is not dead.
LEMMA ChosenNotDead ==
  ASSUME Counting, NEW x, NEW t, Chosen(x, t), Dead(x, t)
  PROVE  FALSE
<1>1. PICK Q \in SUBSET Server : Majority(Q) /\ \A q \in Q : Acked(q, x, t)
  BY DEF Chosen
<1>2. PICK R \in SUBSET Server : Majority(R) /\ \A q \in R : ~Acked(q, x, t)
  BY DEF Dead
<1>3. Cardinality(Q) \in Nat /\ Cardinality(R) \in Nat /\ Cardinality(Server) \in Nat
  BY SizesOfSets
<1>4. Cardinality(Q) + Cardinality(R) > Cardinality(Server)
  BY SMTT(60), <1>1, <1>2, <1>3 DEF Majority
<1>5. Q \cap R # {}
  BY <1>4, MajoritiesMeet
<1> QED BY <1>1, <1>2, <1>5

\* A log or append with a term after t, at or after index x, has the chosen
\* entry if it shows the index; and one that ends with term t has every entry
\* of the term up to there.
LEMMA ChosenHeld ==
  ASSUME Counting, TypeOK, ReplInv, LostIsDead, NEW x \in Nat \ {0}, NEW t \in Nat, Chosen(x, t),
         NEW f \in Stretches, f.index = 0, TermIn(f, Last(f)) >= t, Last(f) # 0,
         x <= Last(f) \/ TermIn(f, Last(f)) > t
  PROVE  x \in Held(f) /\ TermIn(f, x) = t
<1>1. f \in StretchType /\ Last(f) \in Nat
  BY StretchesTyped, ViewType
<1>2. /\ Last(f) \in Held(f) /\ Last(f) \in Shown(f) /\ TermIn(f, Last(f)) \in Nat
  <2>1. Last(f) \in Held(f) /\ Last(f) \in Shown(f)
    BY SMTT(60), <1>1 DEF Held, Shown
  <2> QED BY <1>1, <2>1, ViewType
<1>3. Exists(x, t)
  BY DEF Chosen
<1>4. ~Without(f, x, t)
  BY <1>3, ChosenNotDead DEF LostIsDead
<1>5. CASE TermIn(f, Last(f)) > t
  <2>1. ~(Last(f) <= x) /\ ~(x \in Held(f) /\ TermIn(f, x) # t)
    BY <1>2, <1>4, <1>5 DEF Without
  <2>2. x \in Held(f)
    BY SMTT(60), <1>1, <2>1 DEF Held
  <2> QED BY <2>1, <2>2
<1>6. CASE TermIn(f, Last(f)) = t
  <2>1. x <= Last(f) /\ x <= x
    BY SMTT(60), <1>6
  <2>2. x \in Held(f) /\ x \in Shown(f)
    BY SMTT(60), <2>1 DEF Held, Shown
  <2>3. PICK g \in Stretches : x \in Held(g) /\ TermIn(g, x) = t
    BY <1>3, ExistsIn
  <2>4. Runs(g, f)
    BY DEF ReplInv, TermsInOrder
  <2> QED BY <1>2, <1>6, <2>1, <2>2, <2>3, <2>4 DEF Runs
<1> QED BY SMTT(60), <1>2, <1>5, <1>6

\* Who acknowledged an entry, or led its term, has it while the term lasts.
CurrentHeld ==
  \A q \in Server : \A x, t \in Nat :
    x # 0 /\ Acked(q, x, t) /\ Exists(x, t) /\ term[q] = t => Holds(q, x, t)

\* They do, since an acknowledged entry stays while the term lasts.
LEMMA CurrentAreHeld == TypeOK /\ ElectionInv /\ LogInv /\ ReplInv => CurrentHeld
<1> SUFFICES ASSUME TypeOK, ElectionInv, LogInv, ReplInv, NEW q \in Server,
                    NEW x \in Nat, NEW t \in Nat,
                    x # 0, Acked(q, x, t), Exists(x, t), term[q] = t
             PROVE  Holds(q, x, t)
  BY DEF CurrentHeld
<1>1. PICK m \in msgs : /\ m.from = q /\ m.term = t
                        /\ IsAppend(m) \/ (IsAck(m) /\ m.index >= x)
  BY DEF Acked
<1>2. PICK g \in Stretches : g \in StretchType /\ x \in Held(g) /\ TermIn(g, x) = t
  BY ExistsIn
<1>3. LogShown(q)
  BY NodeLogs DEF LogsShown
<1>4. \E y \in 1..Len(entries[q]) : x <= y /\ entries[q][y].term = t
  <2>1. CASE IsAppend(m)
    <3>1. state[q] = Leader
      BY <1>1, <2>1 DEF ElectionInv, LeaderMsgs, FromLeader, IsAppend
    <3>2. x <= Len(entries[q])
      <4>1. g.index \in Nat /\ g.entries \in Seq(Entry) /\ Last(g) = g.index + Len(g.entries)
        BY <1>2 DEF StretchType, Last
      <4>3. /\ x - g.index \in DOMAIN g.entries /\ g.index + (x - g.index) = x
            /\ TermIn(g, x) = g.entries[x - g.index].term
        BY SMTT(60), <1>2, <4>1 DEF Held, TermIn
      <4> QED BY <1>2, <3>1, <4>3 DEF LogInv, LeaderCreatedAll
    <3>3. LastTerm(entries[q]) = t
      BY <3>1 DEF ReplInv, OwnLast
    <3>4. Len(entries[q]) \in 1..Len(entries[q])
      BY SMTT(60), <3>2 DEF LogShown
    <3>5. entries[q][Len(entries[q])].term = t
      BY <1>3, <3>3, <3>4 DEF LogShown
    <3> QED BY SMTT(60), <3>2, <3>5
  <2>2. CASE IsAck(m) /\ m.index >= x
    BY <1>1, <2>2 DEF ReplInv, AcksHeld, Holds
  <2> QED BY <1>1, <2>1, <2>2
<1>5. PICK y \in 1..Len(entries[q]) : x <= y /\ entries[q][y].term = t
  BY <1>4
<1>6. /\ x \in 1..Len(entries[q]) /\ x \in Shown(Log(q)) /\ y \in Shown(Log(q))
      /\ TermIn(Log(q), y) = t /\ TermIn(Log(q), x) = entries[q][x].term
  BY SMTT(60), <1>3, <1>5 DEF LogShown
<1>7. Runs(g, Log(q)) /\ x <= x
  BY SMTT(60), <1>3 DEF ReplInv, TermsInOrder, LogShown
<1>8. TermIn(Log(q), x) = t
  BY <1>2, <1>5, <1>6, <1>7 DEF Runs
<1> QED BY <1>6, <1>8 DEF Holds

\* In the next state as well.
LEMMA CurrentAreHeldNext ==
  TypeOK' /\ ElectionInv' /\ LogInv' /\ ReplInv' => CurrentHeld'
BY CurrentAreHeld, PTL

-----------------------------------------------------------------------------
(* What a step does to logs and messages *)

\* A new append is the end of its sender's log, which leads.
FromLog(m) ==
  /\ m.from \in Server /\ state'[m.from] = Leader
  /\ m.term = term'[m.from] /\ m.commit = commited'[m.from]
  /\ Part(m) \in StretchType /\ Cut(Part(m), Log(m.from)')

\* An acknowledgement of an append and the merge that it answers.
Acks(n, m) ==
  /\ Merges(m) /\ n.from = m.to /\ n.to = m.from
  /\ n.term = m.term /\ n.index = Len(entries'[m.to])

\* Messages stay, terms rise, a log changes in Creates and Merges only, and
\* every new message is true of the state after the step.
Onward ==
  /\ msgs \subseteq msgs'
  /\ \A k \in Server :
       /\ term[k] \in Nat /\ term'[k] \in Nat /\ term[k] <= term'[k]
       /\ \/ entries'[k] = entries[k]
          \/ Creates(k)
          \/ \E m \in msgs : Merges(m) /\ k = m.to
       /\ state'[k] = Leader =>
            Creates(k) \/ (state[k] = Leader /\ term'[k] = term[k] /\ entries'[k] = entries[k])
       /\ state'[k] = Candidate =>
            entries'[k] = entries[k] /\ (term'[k] = term[k] => state[k] = Candidate)
  /\ \A n \in msgs' \ msgs :
       /\ IsAppend(n) => FromLog(n)
       /\ IsAck(n) => \E m \in msgs : Acks(n, m)
       /\ n.type = "MsgRequestVote" \/ IsGrant(n) => \E i \in Server : Hears(i)

\* What SendAppend sends.
LEMMA SentFromLog ==
  ASSUME TypeOK', ReplInv', NEW i \in Server, NEW j \in Server, state'[i] = Leader,
         NEW m, m = AppendMsg(i, j, term'[i], entries'[i], commited'[i], next'[i][j])
  PROVE  FromLog(m) /\ IsAppend(m) /\ m.from = i /\ Part(m).index = next'[i][j] - 1
<1>1. /\ entries'[i] \in Seq(Entry) /\ next'[i][j] \in Nat \ {0}
      /\ next'[i][j] <= Len(entries'[i]) + 1
  BY DEF TypeOK, ReplInv, OwnProgress
<1>3. PICK e, n : e = entries'[i] /\ n = next'[i][j]
  OBVIOUS
<1>4. e \in Seq(Entry) /\ n \in 1..(Len(e) + 1)
  BY SMTT(60), <1>1, <1>3
<1>5. /\ IsAppend(m) /\ m.from = i /\ m.to = j /\ m.term = term'[i] /\ m.commit = commited'[i]
      /\ Part(m) \in StretchType /\ Cut(Part(m), Stretch(0, 0, e))
  BY SMTT(60), <1>3, <1>4, SentPart
<1>6. Part(m) = Suffix(e, n)
  BY SMTT(60), <1>3, AppendMsgCut DEF Part
<1>7. Part(m).index = n - 1
  BY SMTT(60), <1>6 DEF Suffix, Stretch
<1>8. Log(i)' = Stretch(0, 0, e)
  BY <1>3 DEF Log
<1> QED BY <1>3, <1>5, <1>7, <1>8 DEF FromLog

\* Every step is such a step.
LEMMA SendsOnward ==
  ASSUME TypeOK, TypeOK', ReplInv', Sends
  PROVE  Onward
<1>1. /\ state' = state /\ term' = term /\ entries' = entries /\ msgs \subseteq msgs'
      /\ \A k \in Server : term[k] \in Nat /\ term'[k] \in Nat
  BY DEF Sends, TypeOK
<1>2. ASSUME NEW n \in msgs' \ msgs
      PROVE  \/ n.type \in {"MsgTimeoutNow", "MsgTransferLeader", "MsgHeartbeat"}
             \/ IsAppend(n) /\ FromLog(n)
  <2>1. CASE \E i \in Server : \E j \in Server \ {i} :
               /\ state[i] = Leader
               /\ n = AppendMsg(i, j, term[i], entries[i], commited'[i], next'[i][j])
    <3>1. PICK i \in Server, j \in Server :
            /\ state'[i] = Leader
            /\ n = AppendMsg(i, j, term'[i], entries'[i], commited'[i], next'[i][j])
      BY <1>1, <2>1
    <3> QED BY SMTT(60), <3>1, SentFromLog
  <2> QED BY <2>1 DEF Sends, HandsTo
<1>3. \A n \in msgs' \ msgs :
        /\ IsAppend(n) => FromLog(n)
        /\ ~IsAck(n) /\ n.type # "MsgRequestVote" /\ ~IsGrant(n)
  BY <1>2 DEF IsAppend, IsAck, IsGrant
<1> QED BY SMTT(60), <1>1, <1>3 DEF Onward

\* So are those of a node that campaigns or answers,
LEMMA HearsOnward ==
  ASSUME TypeOK, TypeOK', NEW i \in Server, Hears(i)
  PROVE  Onward
<1>1. /\ entries' = entries /\ msgs \subseteq msgs'
      /\ \A k \in Server : term[k] \in Nat /\ term'[k] \in Nat
      /\ \A k \in Server \ {i} : state'[k] = state[k] /\ term'[k] = term[k]
      /\ \/ term'[i] = term[i] /\ state'[i] = state[i]
         \/ term'[i] = term[i] /\ state'[i] = Follower /\ state[i] = Candidate
         \/ term'[i] > term[i] /\ state'[i] \in {Follower, Candidate}
  BY DEF Hears, TypeOK
<1>2. \A n \in msgs' \ msgs : ~IsAppend(n) /\ ~IsAck(n)
  BY DEF Hears, IsAppend, IsAck
<1>3. \A k \in Server :
        /\ term[k] <= term'[k]
        /\ state'[k] = Leader => state[k] = Leader /\ term'[k] = term[k]
        /\ state'[k] = Candidate /\ term'[k] = term[k] => state[k] = Candidate
  BY SMTT(60), <1>1 DEF Leader, Follower, Candidate
<1> QED BY <1>1, <1>2, <1>3 DEF Onward

\* those of a leader that adds an entry,
LEMMA CreatesOnward ==
  ASSUME TypeOK, TypeOK', ReplInv', NEW i \in Server, Creates(i)
  PROVE  Onward
<1>1. /\ state'[i] = Leader
      /\ \A k \in Server : term[k] \in Nat /\ term'[k] \in Nat
      /\ \A k \in Server \ {i} :
           state'[k] = state[k] /\ term'[k] = term[k] /\ entries'[k] = entries[k]
      /\ \/ state[i] = Leader /\ term'[i] = term[i]
         \/ state[i] = Candidate /\ term'[i] = term[i]
         \/ term'[i] > term[i]
      /\ msgs \subseteq msgs'
  BY CreatesActs
<1>2. msgs' = msgs \cup {AppendMsg(i, j, term'[i], entries'[i], commited'[i], next'[i][j]) :
                           j \in Server \ {i}}
  BY DEF Creates
<1>3. \A n \in msgs' \ msgs : IsAppend(n) /\ FromLog(n)
  BY <1>1, <1>2, SentFromLog
<1>4. \A n \in msgs' \ msgs : ~IsAck(n) /\ n.type # "MsgRequestVote" /\ ~IsGrant(n)
  BY <1>3 DEF IsAppend, IsAck, IsGrant
<1>5. \A k \in Server : term[k] <= term'[k] /\ (state'[k] = Candidate => k # i)
  BY SMTT(60), <1>1 DEF Leader, Candidate
<1> QED BY <1>1, <1>3, <1>4, <1>5 DEF Onward

\* and those of a follower that merges an append.
LEMMA MergesOnward ==
  ASSUME TypeOK, LogInv, TypeOK', NEW m \in msgs, Merges(m)
  PROVE  Onward
<1>1. m.to \in Server /\ \A k \in Server \ {m.to} : entries'[k] = entries[k]
  BY MergeShape
<1>2. /\ \A k \in Server : term[k] \in Nat /\ term'[k] \in Nat
      /\ \A k \in Server \ {m.to} : state'[k] = state[k] /\ term'[k] = term[k]
      /\ term[m.to] <= m.term /\ term'[m.to] = m.term /\ state'[m.to] = Follower
  BY DEF Merges, TypeOK
<1>3. /\ msgs \subseteq msgs'
      /\ \A n \in msgs' \ msgs : n.type = "MsgAppendResponse" /\ Acks(n, m)
  BY MergeSends DEF Acks
<1>4. \A n \in msgs' \ msgs : ~IsAppend(n) /\ n.type # "MsgRequestVote" /\ ~IsGrant(n)
  BY <1>3 DEF IsAppend, IsGrant
<1>5. \A k \in Server : term[k] <= term'[k] /\ (k = m.to \/ k \in Server \ {m.to})
  BY SMTT(60), <1>2
<1>6. \A k \in Server : state'[k] \in {Leader, Candidate} => k # m.to
  BY <1>2 DEF Leader, Candidate, Follower
<1> QED BY <1>1, <1>2, <1>3, <1>4, <1>5, <1>6 DEF Onward

-----------------------------------------------------------------------------
(* What stays chosen, dead and acknowledged *)

\* An acknowledgement of a term that its node has left is an old one,
LEMMA AckedBefore ==
  ASSUME Onward, NEW q \in Server, NEW x, NEW t \in Nat, Acked(q, x, t)', term'[q] > t
  PROVE  Acked(q, x, t)
<1>1. PICK m \in msgs' : /\ m.from = q /\ m.term = t
                         /\ IsAppend(m) \/ (IsAck(m) /\ m.index >= x)
  BY DEF Acked, IsAppend, IsAck
<1>2. term'[q] # t
  BY SMTT(60) DEF Onward
<1>3. CASE m \notin msgs /\ IsAppend(m)
  BY <1>1, <1>2, <1>3 DEF Onward, FromLog
<1>4. CASE m \notin msgs /\ IsAck(m)
  <2>1. PICK a \in msgs : Acks(m, a)
    BY <1>4 DEF Onward
  <2>2. term'[a.to] = a.term /\ m.from = a.to /\ m.term = a.term
    BY <2>1 DEF Acks, Merges
  <2> QED BY SMTT(60), <1>1, <2>2
<1>5. CASE m \in msgs
  BY <1>1, <1>5 DEF Acked
<1> QED BY <1>1, <1>3, <1>4, <1>5

\* so what is dead stays dead,
LEMMA DeadStays ==
  ASSUME Onward, NEW x, NEW t \in Nat, Dead(x, t)
  PROVE  Dead(x, t)'
<1>1. PICK Q \in SUBSET Server : Majority(Q) /\ \A q \in Q : term[q] > t /\ ~Acked(q, x, t)
  BY DEF Dead
<1>2. \A q \in Q : term'[q] > t
  BY SMTT(60), <1>1 DEF Onward
<1>3. \A q \in Q : ~Acked(q, x, t)'
  BY <1>1, <1>2, AckedBefore
<1>4. Majority(Q)'
  BY <1>1 DEF Majority
<1> QED BY <1>2, <1>3, <1>4 DEF Dead

\* what was sent stays sent, and what is chosen stays chosen.
LEMMA ChosenStays ==
  ASSUME Onward, NEW x, NEW t
  PROVE  /\ \A q \in Server : Acked(q, x, t) => Acked(q, x, t)'
         /\ Exists(x, t) => Exists(x, t)'
         /\ Chosen(x, t) => Chosen(x, t)'
<1>1. msgs \subseteq msgs'
  BY DEF Onward
<1>2. \A q \in Server : Acked(q, x, t) => Acked(q, x, t)'
  BY <1>1 DEF Acked, IsAppend, IsAck
<1>3. Exists(x, t) => Exists(x, t)'
  BY <1>1 DEF Exists, IsAppend, Part, Stretch, Held, Last
<1>4. ASSUME NEW Q \in SUBSET Server, Majority(Q)
      PROVE  Majority(Q)'
  BY <1>4 DEF Majority
<1> QED BY <1>2, <1>3 DEF Chosen

\* The entry that a leader creates.
Fresh(i, x, t) == Creates(i) /\ x = Len(entries[i]) + 1 /\ t = term'[i]

\* What Creates does to the log.
LEMMA CreatesLonger ==
  ASSUME TypeOK, TypeOK', NEW i \in Server, Creates(i)
  PROVE  /\ Log(i) \in StretchType /\ Log(i)' \in StretchType
         /\ Log(i).index = 0 /\ Log(i)'.index = 0 /\ Len(entries[i]) \in Nat
         /\ Last(Log(i)) = Len(entries[i]) /\ Last(Log(i)') = Len(entries[i]) + 1
         /\ Len(entries'[i]) = Len(entries[i]) + 1
         /\ TermIn(Log(i)', Len(entries[i]) + 1) = term'[i]
         /\ \A k \in 0..Len(entries[i]) : TermIn(Log(i)', k) = TermIn(Log(i), k)
<1>1. PICK x \in Entry : /\ x.term = term'[i]
                         /\ entries' = [entries EXCEPT ![i] = Append(entries[i], x)]
  BY DEF Creates
<1>2. entries[i] \in Seq(Entry) /\ entries'[i] = Append(entries[i], x)
  BY <1>1 DEF TypeOK
<1>3. LogShown(i) /\ LogShown(i)'
  BY NodeLogs, NodeLogsNext DEF LogsShown
<1>4. PICK w, r : w = Log(i) /\ r = Log(i)'
  OBVIOUS
<1>5. w = Stretch(0, 0, entries[i]) /\ r = Stretch(0, 0, Append(entries[i], x))
  BY <1>2, <1>4 DEF Log
<1>6. /\ r \in StretchType /\ r.index = 0 /\ Last(r) = Len(entries[i]) + 1
      /\ TermIn(r, Len(entries[i]) + 1) = x.term
      /\ \A k \in 0..Len(entries[i]) : TermIn(r, k) = TermIn(w, k)
  BY SMTT(60), <1>2, <1>5, AppendView
<1> QED BY <1>1, <1>3, <1>4, <1>6 DEF LogShown

\* Nothing else is sent for the first time.
LEMMA ExistsStep ==
  ASSUME TypeOK, EntriesSent, TypeOK', Onward, NEW x, NEW t, Exists(x, t)'
  PROVE  Exists(x, t) \/ \E i \in Server : Fresh(i, x, t)
<1>1. PICK m \in msgs' : IsAppend(m) /\ x \in Held(Part(m)) /\ TermIn(Part(m), x) = t
  BY DEF Exists, IsAppend, Part, Stretch, Held, Last
<1>2. CASE m \in msgs
  BY <1>1, <1>2 DEF Exists
<1>3. CASE m \notin msgs
  <2>1. FromLog(m)
    BY <1>1, <1>3 DEF Onward
  <2>2. PICK k \in Server : /\ k = m.from /\ state'[k] = Leader
                            /\ Part(m) \in StretchType /\ Cut(Part(m), Log(k)')
    BY <2>1 DEF FromLog
  <2>3. LogShown(k) /\ LogShown(k)'
    BY NodeLogs, NodeLogsNext DEF LogsShown
  <2>4. x \in 1..Len(entries'[k]) /\ TermIn(Log(k)', x) = t
    <3>1. PICK f \in StretchType : f = Part(m)
      BY <2>2
    <3>2. f.index \in Nat /\ Last(f) = Len(entries'[k]) /\ Len(entries'[k]) \in Nat
      BY <2>2, <2>3, <3>1, ViewType DEF Cut, LogShown
    <3>3. x \in Shown(f) /\ x \in 1..Len(entries'[k])
      BY SMTT(60), <1>1, <3>1, <3>2 DEF Held, Shown
    <3>4. TermIn(f, x) = TermIn(Log(k)', x)
      BY <2>2, <3>1, <3>3 DEF Cut
    <3> QED BY <1>1, <3>1, <3>3, <3>4
  <2>5. CASE entries'[k] = entries[k]
    <3>1. Log(k)' = Log(k)
      BY <2>5 DEF Log
    <3>2. x \in 1..Len(entries[k]) /\ entries[k][x].term = t
      BY <2>3, <2>4, <3>1 DEF LogShown
    <3> QED BY <3>2 DEF EntriesSent
  <2>6. CASE Creates(k)
    <3>1. x = Len(entries[k]) + 1 \/ x \in 1..Len(entries[k])
      BY SMTT(60), <2>4, <2>6, CreatesLonger
    <3>2. CASE x = Len(entries[k]) + 1
      BY <2>4, <2>6, <3>2, CreatesLonger DEF Fresh
    <3>3. CASE x \in 1..Len(entries[k])
      <4>1. TermIn(Log(k), x) = t
        BY SMTT(60), <2>4, <2>6, <3>3, CreatesLonger
      <4> QED BY <2>3, <3>3, <4>1 DEF LogShown, EntriesSent
    <3> QED BY <3>1, <3>2, <3>3
  <2> QED BY <2>2, <2>5, <2>6 DEF Onward
<1> QED BY <1>2, <1>3

\* The stretches after a step are the ones before it and parts of logs.
LEMMA StretchesStep ==
  ASSUME TypeOK, TypeOK', Onward, NEW f \in Stretches'
  PROVE  /\ f \in StretchType
         /\ f \in Stretches \/ \E k \in Server : Cut(f, Log(k)')
<1>1. \/ \E k \in Server : f = Log(k)'
      \/ f \in Stretches
      \/ \E m \in msgs' \ msgs : IsAppend(m) /\ f = Part(m)
  BY StretchesNext DEF Log, Part, IsAppend
<1>2. CASE \E k \in Server : f = Log(k)'
  <2>1. PICK k \in Server : f = Log(k)'
    BY <1>2
  <2>2. f \in StretchType
    BY <2>1, NodeLogsNext DEF LogsShown, LogShown
  <2> QED BY <2>1, <2>2, CutSelf
<1>3. CASE f \in Stretches
  BY <1>3, StretchesTyped
<1>4. CASE \E m \in msgs' \ msgs : IsAppend(m) /\ f = Part(m)
  BY <1>4 DEF Onward, FromLog
<1> QED BY <1>1, <1>2, <1>3, <1>4

-----------------------------------------------------------------------------
(* The leaders of the terms *)

\* Who sent an append led its term.
LEMMA SentLed ==
  ASSUME TypeOK, ElectionInv, NEW m \in msgs, IsAppend(m)
  PROVE  m.from \in Server /\ m.term \in Nat /\ LedOnce(m.from, m.term)
<1>1. m.from \in Server /\ m.term \in Nat
  BY MessageFields DEF TypeOK
<1>2. FromLeader(m)
  BY DEF FromLeader, IsAppend
<1>3. Elected(m.from, m.term)
  BY <1>2 DEF ElectionInv, LeadersElected
<1>4. m.term <= term[m.from] /\ (m.term = term[m.from] => state[m.from] = Leader)
  BY <1>2 DEF ElectionInv, LeaderMsgs
<1>5. \A n \in msgs : IsGrant(n) /\ n.from = m.from => n.term # m.term
  BY <1>2 DEF ElectionInv, LeaderGrantsNone
<1> QED BY <1>1, <1>3, <1>4, <1>5 DEF LedOnce

\* The nodes that made a node lead a term have reached the term.
LEMMA SupportersLater ==
  ASSUME TypeOK, ElectionInv, NEW j \in Server, NEW u \in Nat, u <= term[j], Elected(j, u)
  PROVE  /\ Majority(Supporters(j, u)) /\ Supporters(j, u) \in SUBSET Server
         /\ \A v \in Supporters(j, u) : u <= term[v]
<1>1. Supporters(j, u) \in SUBSET Server
  BY DEF Supporters
<1>2. \A v \in Supporters(j, u) : u <= term[v]
  BY DEF Supporters, ElectionInv, VoteMsgs, IsGrant
<1> QED BY <1>1, <1>2 DEF Majority, Elected

\* An entry is not acknowledged before it is created.
LEMMA FreshUnacked ==
  ASSUME Counting, TypeOK, ElectionInv, ReplInv, TypeOK', ElectionInv', Onward,
         NEW i \in Server, NEW x, NEW t, Fresh(i, x, t), NEW q \in Server, Acked(q, x, t)
  PROVE  q = i
<1>1. Creates(i) /\ x = Len(entries[i]) + 1 /\ t = term'[i] /\ Len(entries[i]) \in Nat
  BY SMTT(60) DEF Fresh
<1>2. \A m \in msgs : IsAppend(m) /\ m.term = t => m.from = i
  BY <1>1, SentLed, CreatorLed
<1>3. PICK m \in msgs : /\ m.from = q /\ m.term = t
                        /\ IsAppend(m) \/ (IsAck(m) /\ m.index >= x)
  BY DEF Acked
<1>4. CASE IsAck(m) /\ m.index >= x
  <2>1. PICK a \in msgs : IsAppend(a) /\ a.from = m.to /\ a.term = t
    BY <1>3, <1>4 DEF ReplInv, AnswersWithin, SentAppend, IsAck, Informs
  <2>2. m.to = i /\ a.from = i
    BY <1>2, <2>1
  <2>3. term[i] \in Nat /\ term'[i] \in Nat /\ term[i] <= term'[i] /\ m.index \in Nat
    BY MessageFields DEF Onward, TypeOK
  <2>4. t <= term[i] /\ (t = term[i] => state[i] = Leader)
    BY <2>1, <2>2 DEF ElectionInv, LeaderMsgs, FromLeader, IsAppend
  <2>5. state[i] = Leader /\ term[i] = t
    BY SMTT(60), <1>1, <2>3, <2>4
  <2>6. m.index <= Len(entries[i])
    BY <1>3, <1>4, <2>2, <2>5 DEF ReplInv, AnswersWithin, IsAck, Informs
  <2> QED BY SMTT(60), <1>1, <1>4, <2>3, <2>6
<1> QED BY <1>2, <1>3, <1>4

\* If a later leader went without an entry before it is created, the entry is
\* dead from the start.
LEMMA FreshDead ==
  ASSUME Counting, TypeOK, ElectionInv, LogInv, ReplInv, TypeOK', ElectionInv', Onward,
         NEW i \in Server, NEW x, NEW t, Fresh(i, x, t),
         NEW f \in Stretches, Without(f, x, t)
  PROVE  Dead(x, t)'
<1>1. Creates(i) /\ t = term'[i] /\ t \in Nat
  BY DEF Fresh, Onward
<1>2. PICK k \in Held(f) : TermIn(f, k) > t
  BY DEF Without
<1>3. TermIn(f, k) \in Nat
  <2>1. f \in StretchType
    BY StretchesTyped
  <2>2. k \in Shown(f)
    BY SMTT(60), <2>1, ViewType DEF Held, Shown
  <2> QED BY <2>1, <2>2, ViewType
<1>4. PICK j \in Server, u \in Nat : u = TermIn(f, k) /\ LedOnce(j, u)
  BY <1>3, HeldLed
<1>5. PICK Q \in SUBSET Server : Majority(Q) /\ \A v \in Q : u <= term[v]
  <2>1. u <= term[j] /\ Elected(j, u)
    BY <1>4 DEF LedOnce
  <2> QED BY <2>1, SupportersLater
<1>6. \A v \in Q : term'[v] > t
  BY SMTT(60), <1>1, <1>2, <1>4, <1>5 DEF Onward
<1>7. \A v \in Q : ~Acked(v, x, t)'
  <2>1. \A v \in Q : v # i
    BY SMTT(60), <1>1, <1>6
  <2>2. \A v \in Q : ~Acked(v, x, t)
    BY <2>1, FreshUnacked
  <2> QED BY <1>1, <1>6, <2>2, AckedBefore
<1>8. Majority(Q)'
  BY <1>5 DEF Majority
<1> QED BY <1>6, <1>7, <1>8 DEF Dead

\* What the log before a step goes without is dead after it.
LEMMA OldLost ==
  ASSUME Counting, TypeOK, ElectionInv, LogInv, ReplInv, AckInv, TypeOK', ElectionInv', Onward,
         NEW x \in Nat \ {0}, NEW t \in Nat, Exists(x, t)',
         NEW f \in Stretches, Without(f, x, t)
  PROVE  Dead(x, t)'
<1>1. CASE Exists(x, t)
  BY <1>1, DeadStays DEF AckInv, LostIsDead
<1>2. CASE \E i \in Server : Fresh(i, x, t)
  BY <1>2, FreshDead
<1> QED BY <1>1, <1>2, ExistsStep DEF AckInv

-----------------------------------------------------------------------------
(* What logs go without *)

\* A log that ends in a later term and does not have the entry goes without it.
LEMMA LaterWithout ==
  ASSUME NEW f \in StretchType, f.index = 0, NEW x \in Nat \ {0}, NEW t \in Nat,
         NEW k \in Held(f), TermIn(f, k) > t, k = Last(f),
         ~(x \in Held(f) /\ TermIn(f, x) = t)
  PROVE  Without(f, x, t)
<1>1. Last(f) \in Nat /\ Held(f) = 1..Last(f)
  BY SMTT(60) DEF Held
<1>2. k <= x \/ x \in Held(f)
  BY SMTT(60), <1>1
<1> QED BY <1>2 DEF Without

\* What a node that is elected does not have is dead: each of its voters had
\* left the term without acknowledging it, or would have seen to it.
LEMMA ElectedLost ==
  ASSUME TypeOK, ElectionInv, AckInv, NEW i \in Server, state[i] = Candidate,
         Elected(i, term[i]), NEW x \in Nat \ {0}, NEW t \in Nat, t < term[i],
         Exists(x, t), ~Holds(i, x, t)
  PROVE  Dead(x, t)
<1>1. PICK u \in Nat : u = term[i]
  BY DEF TypeOK
<1>2. PICK Q \in SUBSET Server : /\ Q = Supporters(i, u) /\ Majority(Q)
                                 /\ \A v \in Q : u <= term[v]
  <2>1. u <= term[i] /\ Elected(i, u)
    BY SMTT(60), <1>1
  <2> QED BY <2>1, SupportersLater
<1>3. \A v \in Q : term[v] > t
  BY SMTT(60), <1>1, <1>2 DEF TypeOK
<1>4. CASE \A v \in Q : ~Acked(v, x, t)
  BY <1>2, <1>3, <1>4 DEF Dead
<1>5. ASSUME NEW v \in Q, Acked(v, x, t)
      PROVE  Dead(x, t)
  <2>1. CASE v = i
    BY <1>5, <2>1 DEF AckInv, AcksHold
  <2>2. CASE v # i
    <3>1. PICK n \in msgs : IsGrant(n) /\ n.from = v /\ n.to = i /\ n.term = u
      BY <1>2, <2>2 DEF Supporters
    <3> QED BY <1>1, <1>5, <3>1 DEF AckInv, GrantsHold
  <2> QED BY <2>1, <2>2
<1> QED BY <1>4, <1>5

\* The log of a leader that creates an entry,
LEMMA CreatesLost ==
  ASSUME Counting, TypeOK, ElectionInv, LogInv, ReplInv, AckInv, Many,
         TypeOK', ElectionInv', ReplInv', Onward,
         NEW i \in Server, Creates(i), NEW x \in Nat \ {0}, NEW t \in Nat, Exists(x, t)',
         Without(Log(i)', x, t)
  PROVE  Dead(x, t)'
<1>1. LogShown(i) /\ LogShown(i)'
  BY NodeLogs, NodeLogsNext DEF LogsShown
<1>2. PICK w \in StretchType, r \in StretchType, L \in Nat :
        w = Log(i) /\ r = Log(i)' /\ L = Len(entries[i])
  BY CreatesLonger
<1>3. /\ w \in Stretches /\ w.index = 0 /\ r.index = 0 /\ Last(w) = L /\ Last(r) = L + 1
      /\ \A k \in 0..L : TermIn(r, k) = TermIn(w, k)
      /\ Len(entries'[i]) = L + 1 /\ Without(r, x, t)
  BY <1>1, <1>2, CreatesLonger DEF LogShown
<1>4. \A k \in 1..(L + 1) : TermIn(r, k) \in Nat /\ TermIn(r, k) <= term'[i]
  <2>1. \A k \in 1..Len(entries'[i]) : entries'[i][k].term <= term'[i]
    BY DEF ReplInv, TermsBounded
  <2>2. \A k \in 1..Len(entries'[i]) :
          TermIn(r, k) = entries'[i][k].term /\ entries'[i][k].term \in Nat
    BY <1>1, <1>2 DEF LogShown
  <2> QED BY <1>3, <2>1, <2>2
<1>5. /\ state'[i] = Leader /\ term[i] \in Nat /\ term'[i] = term[i]
      /\ state[i] = Leader \/ state[i] = Candidate
  BY CreatesActs DEF Many
<1>6. PICK k \in 1..(L + 1) : /\ TermIn(r, k) > t
                              /\ k <= x \/ (x \in 1..(L + 1) /\ TermIn(r, x) # t)
  BY SMTT(60), <1>3 DEF Without, Held
<1>7. t < term[i]
  BY SMTT(60), <1>4, <1>5, <1>6
<1>8. ~\E j \in Server : Fresh(j, x, t)
  <2>1. ASSUME NEW j \in Server, Creates(j)
        PROVE  j = i
    <3>1. Len(entries'[i]) # Len(entries[i])
      BY SMTT(60), <1>2, <1>3
    <3> QED BY <2>1, <3>1, CreatesActs
  <2> QED BY SMTT(60), <1>5, <1>7, <2>1 DEF Fresh
<1>9. Exists(x, t)
  BY <1>8, ExistsStep DEF AckInv
<1>10. ~(x \in 1..L /\ TermIn(w, x) = t)
  <2> SUFFICES ASSUME x \in 1..L, TermIn(w, x) = t
               PROVE  FALSE
    OBVIOUS
  <2>1. TermIn(r, x) = t /\ x \in Shown(r) /\ k \in Shown(r)
    BY SMTT(60), <1>3 DEF Shown
  <2>3. Ascends(r)
    <3>1. Ascends(Log(i)')
      <4>1. Log(i)' \in Stretches'
        BY <1>1 DEF LogShown
      <4> QED BY <4>1 DEF ReplInv, TermsInOrder
    <3> QED BY <1>2, <3>1
  <2> QED BY SMTT(60), <1>4, <1>6, <2>1, <2>3 DEF Ascends
<1>11. Held(w) = 1..L
  BY SMTT(60), <1>3 DEF Held
<1>12. CASE state[i] = Leader
  <2>1. TermIn(w, L) = term[i] /\ TermIn(w, 0) = 0
    BY <1>1, <1>2, <1>12 DEF ReplInv, OwnLast, LogShown
  <2>2. L \in Held(w) /\ TermIn(w, L) > t /\ L = Last(w)
    BY SMTT(60), <1>3, <1>7, <1>11, <2>1
  <2>3. Without(w, x, t)
    BY <1>3, <1>10, <1>11, <2>2, LaterWithout
  <2> QED BY <1>3, <2>3, OldLost
<1>13. CASE state[i] = Candidate
  <2>1. Elected(i, term[i])
    <3>1. Elected(i, term[i])'
      BY <1>5 DEF ElectionInv, LeadersElected
    <3>2. \A n \in msgs' \ msgs : ~IsGrant(n)
      BY CreatesActs DEF IsGrant
    <3>3. \A n \in msgs : n \in msgs'
      BY DEF Onward
    <3>4. \A j, u : Supporters(j, u)' = Supporters(j, u)
      BY <3>2, <3>3 DEF Supporters, IsGrant
    <3> QED BY <1>5, <3>1, <3>4 DEF Elected
  <2>2. ~Holds(i, x, t)
    BY <1>1, <1>2, <1>10 DEF Holds, LogShown
  <2>3. Dead(x, t)
    BY <1>7, <1>9, <1>13, <2>1, <2>2, ElectedLost
  <2> QED BY <2>3, DeadStays
<1> QED BY <1>5, <1>12, <1>13

\* the log of a follower that merges an append,
LEMMA MergesLost ==
  ASSUME Counting, TypeOK, ElectionInv, LogInv, ReplInv, AckInv, TypeOK', ElectionInv', Onward,
         NEW m \in msgs, Merges(m), NEW x \in Nat \ {0}, NEW t \in Nat, Exists(x, t)',
         Without(Log(m.to)', x, t)
  PROVE  Dead(x, t)'
<1>1. IsAppend(m) /\ m.to \in Server
  BY MergeShape
<1>2. LogShown(m.to) /\ LogShown(m.to)'
  BY <1>1, NodeLogs, NodeLogsNext DEF LogsShown
<1>3. PICK w \in StretchType, c \in StretchType, r \in StretchType :
        /\ w = Log(m.to) /\ c = Part(m) /\ r = Log(m.to)'
        /\ w \in Stretches /\ c \in Stretches /\ Merged(r, w, c)
  BY <1>2, AppendPart, MergeShape DEF LogShown
<1>4. CASE Exists(x, t)
  <2>1. PICK g \in Stretches : g \in StretchType /\ x \in Held(g) /\ TermIn(g, x) = t
    BY <1>4, ExistsIn
  <2>2. Ascends(w) /\ Runs(g, w)
    BY <1>3 DEF ReplInv, TermsInOrder
  <2>3. Without(w, x, t) \/ Without(c, x, t)
    BY <1>3, <2>1, <2>2, WithoutMerged
  <2> QED BY <1>3, <2>3, OldLost
<1>5. CASE \E i \in Server : Fresh(i, x, t)
  <2>1. PICK i \in Server : Creates(i)
    BY <1>5 DEF Fresh
  <2>2. \A n \in msgs' \ msgs : IsAppend(n)
    BY <2>1, CreatesActs DEF IsAppend
  <2>3. \A n \in msgs' \ msgs : ~IsAppend(n)
    BY MergeSends DEF IsAppend
  <2>4. msgs' = msgs
    BY <2>2, <2>3 DEF Onward
  <2>5. \A p, y, u : Exists(y, u)' => Exists(y, u)
    BY <2>4 DEF Exists, IsAppend, Part, Stretch, Held, Last, TermIn
  <2> QED BY <1>4, <2>5
<1> QED BY <1>4, <1>5, ExistsStep DEF AckInv

\* and so every log and every append.
LEMMA LostStep ==
  ASSUME Counting, TypeOK, ElectionInv, LogInv, ReplInv, AckInv, Many,
         TypeOK', ElectionInv', ReplInv', Onward
  PROVE  LostIsDead'
<1> SUFFICES ASSUME NEW x \in Nat, NEW t \in Nat, x # 0, Exists(x, t)',
                    NEW f \in Stretches', Without(f, x, t)
             PROVE  Dead(x, t)'
  BY DEF LostIsDead, Without, Held, Last, TermIn
<1>1. ASSUME NEW k \in Server, Without(Log(k)', x, t)
      PROVE  Dead(x, t)'
  <2>1. CASE entries'[k] = entries[k]
    <3>1. Log(k)' = Log(k) /\ Log(k) \in Stretches
      BY <2>1, NodeLogs DEF Log, LogsShown, LogShown
    <3> QED BY <1>1, <3>1, OldLost
  <2>2. CASE Creates(k)
    BY <1>1, <2>2, CreatesLost
  <2>3. CASE \E m \in msgs : Merges(m) /\ k = m.to
    BY <1>1, <2>3, MergesLost
  <2> QED BY <2>1, <2>2, <2>3 DEF Onward
<1>2. CASE f \in Stretches
  BY <1>2, OldLost
<1>3. CASE \E k \in Server : Cut(f, Log(k)')
  <2>1. PICK k \in Server : Cut(f, Log(k)')
    BY <1>3
  <2>2. PICK w : w = Log(k)'
    OBVIOUS
  <2>3. w \in StretchType /\ w.index = 0 /\ w \in Stretches'
    BY <2>2, NodeLogsNext DEF LogsShown, LogShown
  <2>4. Ascends(w)
    BY <2>3 DEF ReplInv, TermsInOrder
  <2>5. f \in StretchType
    BY StretchesStep
  <2>6. Without(w, x, t)
    BY <2>1, <2>2, <2>3, <2>4, <2>5, WithoutCut
  <2> QED BY <1>1, <2>2, <2>6
<1> QED BY <1>2, <1>3, StretchesStep

-----------------------------------------------------------------------------
(* What was acknowledged *)

\* An entry that a step takes from a log makes room for a later term.
LEMMA HoldsKept ==
  ASSUME TypeOK, LogInv, ReplInv, TypeOK', ReplInv', Onward,
         NEW q \in Server, NEW x \in Nat \ {0}, NEW t \in Nat, Holds(q, x, t)
  PROVE  Holds(q, x, t)' \/ Without(Log(q)', x, t)
<1>1. LogShown(q) /\ LogShown(q)'
  BY NodeLogs, NodeLogsNext DEF LogsShown
<1>2. CASE entries'[q] = entries[q]
  BY <1>2 DEF Holds
<1>3. CASE Creates(q)
  <2>1. x \in 1..Len(entries[q]) /\ TermIn(Log(q), x) = t
    BY <1>1 DEF Holds, LogShown
  <2>2. x \in 1..Len(entries'[q]) /\ TermIn(Log(q)', x) = t
    BY SMTT(60), <1>3, <2>1, CreatesLonger
  <2> QED BY <1>1, <2>2 DEF Holds, LogShown
<1>4. ASSUME NEW m \in msgs, Merges(m), q = m.to
      PROVE  Holds(q, x, t)' \/ Without(Log(q)', x, t)
  <2>1. IsAppend(m)
    BY <1>4, MergeShape
  <2>2. PICK w \in StretchType, c \in StretchType, r \in StretchType :
          /\ w = Log(q) /\ c = Part(m) /\ r = Log(q)'
          /\ w \in Stretches /\ c \in Stretches /\ Merged(r, w, c) /\ Agree(w, c)
    BY <1>1, <1>4, AppendPart, MergeShape DEF LogShown
  <2>3. x \in Held(w) /\ TermIn(w, x) = t
    BY <1>1, <2>2 DEF Holds, LogShown
  <2>4. t <= term[q] /\ term[q] <= m.term /\ term'[q] = m.term
        /\ term[q] \in Nat /\ term'[q] \in Nat
    BY <1>4 DEF Holds, ReplInv, TermsBounded, Merges, TypeOK
  <2>5. TermIn(c, Last(c)) = m.term /\ Runs(w, c) /\ Runs(c, w)
    BY <2>1, <2>2 DEF ReplInv, OwnLast, TermsInOrder
  <2>6. CASE t = m.term
    <3>1. x \in Held(r) /\ TermIn(r, x) = t
      BY SMTT(60), <2>2, <2>3, <2>5, <2>6, MergedKeeps
    <3> QED BY <1>1, <2>2, <3>1 DEF Holds, LogShown
  <2>7. CASE t < m.term
    <3>1. PICK n \in msgs' : /\ IsAck(n) /\ n.from = q /\ n.term = m.term
                             /\ n.index = Len(entries'[q])
      BY <1>4, MergeSends
    <3>2. PICK y : /\ y = Len(entries'[q]) /\ y \in 1..Len(entries'[q])
                   /\ entries'[q][y].term = m.term
      <4>1. Holds(n.from, n.index, n.term)'
        BY <2>4, <3>1 DEF ReplInv, AcksHeld
      <4> QED BY <3>1, <4>1 DEF Holds
    <3>3. /\ Last(r) \in Held(r) /\ TermIn(r, Last(r)) > t /\ r.index = 0
          /\ Held(r) = 1..Len(entries'[q])
      <4> QED BY <1>1, <2>2, <2>7, <3>2 DEF LogShown
    <3>4. ASSUME ~(x \in Held(r) /\ TermIn(r, x) = t)
          PROVE  Without(r, x, t)
      BY <3>3, <3>4, LaterWithout
    <3>5. x \in Held(r) /\ TermIn(r, x) = t => Holds(q, x, t)'
      BY <1>1, <2>2 DEF Holds, LogShown
    <3> QED BY <2>2, <3>4, <3>5
  <2> QED BY SMTT(60), <2>4, <2>6, <2>7
<1> QED BY <1>2, <1>3, <1>4 DEF Onward

\* Whoever acknowledged an entry of a term has reached the term.
LEMMA AckedTerms ==
  ASSUME TypeOK, ElectionInv, ReplInv, NEW q \in Server, NEW x, NEW t \in Nat, Acked(q, x, t)
  PROVE  t <= term[q]
<1>1. PICK m \in msgs : m.from = q /\ m.term = t /\ (IsAppend(m) \/ IsAck(m))
  BY DEF Acked
<1>2. CASE IsAppend(m)
  BY <1>1, <1>2 DEF ElectionInv, LeaderMsgs, FromLeader, IsAppend
<1>3. CASE IsAck(m)
  BY <1>1, <1>3 DEF ReplInv, AnswersWithin, Informs, IsAck
<1> QED BY <1>1, <1>2, <1>3

\* So nobody has acknowledged anything of a later term than its own,
AckedInTime == \A q \in Server : \A x, t \in Nat : Acked(q, x, t) => t <= term[q]

\* in the next state as well.
LEMMA AckedTermsNext == TypeOK' /\ ElectionInv' /\ ReplInv' => AckedInTime'
<1>1. TypeOK /\ ElectionInv /\ ReplInv => AckedInTime
  BY AckedTerms DEF AckedInTime
<1> QED BY <1>1, PTL

\* What a node that has left the term acknowledged was sent before.
LEMMA LeftExists ==
  ASSUME Counting, TypeOK, ElectionInv, ReplInv, EntriesSent, TypeOK', ElectionInv', Onward,
         NEW q \in Server, NEW x, NEW t \in Nat, term'[q] > t, Acked(q, x, t)', Exists(x, t)'
  PROVE  Acked(q, x, t) /\ Exists(x, t)
<1>1. Acked(q, x, t)
  BY AckedBefore
<1>2. ASSUME NEW i \in Server, Fresh(i, x, t)
      PROVE  FALSE
  <2>1. q = i /\ t = term'[i]
    BY <1>1, <1>2, FreshUnacked DEF Fresh
  <2> QED BY SMTT(60), <2>1
<1> QED BY <1>1, <1>2, ExistsStep

\* So a node that acknowledged an entry has it, or the entry is dead.
LEMMA AcksStep ==
  ASSUME Counting, TypeOK, ElectionInv, LogInv, ReplInv, AckInv,
         TypeOK', ElectionInv', LogInv', ReplInv', Onward, LostIsDead'
  PROVE  AcksHold'
<1> SUFFICES ASSUME NEW x \in Nat, NEW t \in Nat, x # 0, Exists(x, t)',
                    NEW q \in Server, Acked(q, x, t)'
             PROVE  Holds(q, x, t)' \/ Dead(x, t)'
  BY DEF AcksHold
<1>1. t <= term'[q] /\ term'[q] \in Nat
  BY AckedTermsNext DEF AckedInTime, Onward
<1>2. CASE term'[q] = t
  BY <1>2, CurrentAreHeldNext DEF CurrentHeld
<1>3. CASE term'[q] > t
  <2>1. Acked(q, x, t) /\ Exists(x, t)
    BY <1>3, LeftExists DEF AckInv
  <2>2. CASE Dead(x, t)
    BY <2>2, DeadStays
  <2>3. CASE Holds(q, x, t)
    <3>1. CASE Without(Log(q)', x, t)
      <4>1. PICK f \in Stretches' : f = Log(q)'
        BY NodeLogsNext DEF LogsShown, LogShown
      <4>2. Without(f, x, t)
        BY <3>1, <4>1
      <4> QED BY <4>2 DEF LostIsDead, Without, Held, Last, TermIn
    <3> QED BY <2>3, <3>1, HoldsKept
  <2> QED BY <2>1, <2>2, <2>3 DEF AckInv, AcksHold
<1> QED BY SMTT(60), <1>1, <1>2, <1>3

-----------------------------------------------------------------------------
(* Votes *)

\* The log that a vote prefers has what its voter has, or the entry is dead.
LEMMA VoteCompares ==
  ASSUME TypeOK, ReplInv, AckInv, NEW v \in Server, NEW c \in Server,
         NEW r \in Message, ~MoreUpToDate(v, r),
         r.index = Len(entries[c]), r.logTerm = LastTerm(entries[c]),
         NEW x \in Nat \ {0}, NEW t \in Nat, Exists(x, t), Holds(v, x, t)
  PROVE  Holds(c, x, t) \/ Dead(x, t)
<1>1. LogShown(v) /\ LogShown(c)
  BY NodeLogs DEF LogsShown
<1>2. PICK a \in Stretches, b \in Stretches, K \in Nat, L \in Nat :
        a = Log(v) /\ b = Log(c) /\ K = Len(entries[v]) /\ L = Len(entries[c])
  BY <1>1 DEF LogShown
<1>3. /\ a \in StretchType /\ b \in StretchType /\ b.index = 0 /\ Last(b) = L
      /\ Shown(a) = 0..K /\ Held(a) = 1..K /\ Shown(b) = 0..L /\ Held(b) = 1..L
      /\ LastTerm(entries[v]) = TermIn(a, K) /\ LastTerm(entries[c]) = TermIn(b, L)
      /\ TermIn(b, 0) = 0
  BY <1>1, <1>2 DEF LogShown
<1>4. x \in 1..K /\ TermIn(a, x) = t
  BY <1>1, <1>2 DEF Holds, LogShown
<1>5. TermIn(a, K) \in Nat /\ TermIn(b, L) \in Nat /\ t <= TermIn(a, K)
  <2>1. TermIn(a, K) \in Nat /\ TermIn(b, L) \in Nat
    BY SMTT(60), <1>3, ViewType
  <2>2. Ascends(a)
    BY DEF ReplInv, TermsInOrder
  <2> QED BY SMTT(60), <1>3, <1>4, <2>1, <2>2 DEF Ascends
<1>6. TermIn(b, L) > TermIn(a, K) \/ (TermIn(b, L) = TermIn(a, K) /\ K <= L)
  BY SMTT(60), <1>2, <1>3, <1>5 DEF MoreUpToDate, LastIndex
<1>7. x \in Held(b) /\ TermIn(b, x) = t => Holds(c, x, t)
  BY <1>1, <1>2 DEF Holds, LogShown
<1>8. CASE TermIn(b, L) = t
  <2>1. x \in Held(b) /\ x \in Shown(b) /\ L \in Shown(b) /\ x <= x /\ x <= L
    BY SMTT(60), <1>3, <1>4, <1>5, <1>6, <1>8
  <2>2. Runs(a, b)
    BY DEF ReplInv, TermsInOrder
  <2>3. TermIn(b, x) = t
    BY <1>3, <1>4, <1>8, <2>1, <2>2 DEF Runs
  <2> QED BY <1>7, <2>1, <2>3
<1>9. CASE TermIn(b, L) > t
  <2>2. ASSUME ~(x \in Held(b) /\ TermIn(b, x) = t)
        PROVE  Dead(x, t)
    <3>1. Without(b, x, t)
      BY SMTT(60), <1>3, <1>9, <2>2, LaterWithout
    <3> QED BY <3>1 DEF AckInv, LostIsDead
  <2> QED BY <1>7, <2>2
<1> QED BY SMTT(60), <1>5, <1>6, <1>8, <1>9

\* A candidate had its requests' log when it sent them.
LEMMA CandidateBefore ==
  ASSUME TypeOK, ElectionInv, Onward, NEW r \in msgs, r.type = "MsgRequestVote",
         state'[r.from] = Candidate, term'[r.from] = r.term
  PROVE  /\ r.from \in Server /\ state[r.from] = Candidate /\ term[r.from] = r.term
         /\ entries'[r.from] = entries[r.from]
<1>1. r.from \in Server /\ r.term \in Nat
  BY MessageFields DEF TypeOK
<1>2. r.term <= term[r.from]
  BY DEF ElectionInv, VoteMsgs
<1> QED BY SMTT(60), <1>1, <1>2 DEF Onward

\* A vote in a later term than an entry's goes to a node that has what the
\* voter acknowledged.
LEMMA GrantsStep ==
  ASSUME Counting, TypeOK, ElectionInv, LogInv, ReplInv, AckInv,
         TypeOK', ElectionInv', Onward
  PROVE  GrantsHold'
<1> SUFFICES ASSUME NEW n \in msgs', IsGrant(n), state'[n.to] = Candidate, term'[n.to] = n.term,
                    NEW x \in Nat, NEW t \in Nat, x # 0, t < n.term,
                    Exists(x, t)', Acked(n.from, x, t)'
             PROVE  Holds(n.to, x, t)' \/ Dead(x, t)'
  BY DEF GrantsHold, IsGrant
<1>1. n.from \in Server /\ n.to \in Server /\ n.term \in Nat
  BY MessageFields DEF TypeOK
<1>2. n.term <= term'[n.from]
  BY DEF ElectionInv, VoteMsgs, IsGrant
<1>3. term'[n.from] > t
  BY SMTT(60), <1>1, <1>2 DEF Onward
<1>4. Acked(n.from, x, t) /\ Exists(x, t)
  BY <1>1, <1>3, LeftExists DEF AckInv
<1>5. ASSUME Holds(n.to, x, t) \/ Dead(x, t), entries'[n.to] = entries[n.to]
      PROVE  Holds(n.to, x, t)' \/ Dead(x, t)'
  BY <1>5, DeadStays DEF Holds
<1>6. CASE n \in msgs
  <2>1. PICK r \in msgs : r.type = "MsgRequestVote" /\ r.from = n.to /\ r.term = n.term
    BY <1>6 DEF AckInv, GrantsAsked
  <2>2. state[n.to] = Candidate /\ term[n.to] = n.term /\ entries'[n.to] = entries[n.to]
    BY SMTT(60), <2>1, CandidateBefore
  <2>3. Holds(n.to, x, t) \/ Dead(x, t)
    BY <1>4, <1>6, <2>2 DEF AckInv, GrantsHold
  <2> QED BY <1>5, <2>2, <2>3
<1>7. CASE n \notin msgs
  <2>1. PICK i \in Server : Hears(i)
    BY <1>7 DEF Onward
  <2>2. n.from = i /\ n.from # n.to /\ Grants(i, n) /\ entries' = entries
    BY <1>7, <2>1 DEF Hears, IsGrant
  <2>3. PICK r \in msgs : /\ r.type = "MsgRequestVote" /\ r.from = n.to /\ r.term = n.term
                          /\ ~MoreUpToDate(i, r)
    BY <2>2 DEF Grants
  <2>4. state[n.to] = Candidate /\ term[n.to] = n.term
    BY SMTT(60), <2>3, CandidateBefore
  <2>5. /\ r.index = Len(entries[n.to]) /\ r.logTerm = LastTerm(entries[n.to])
        /\ r \in Message
    BY <2>3, <2>4 DEF AckInv, RequestLogs, TypeOK
  <2>6. Holds(i, x, t) \/ Dead(x, t)
    BY <1>4, <2>2 DEF AckInv, AcksHold
  <2>7. Holds(i, x, t) => Holds(n.to, x, t) \/ Dead(x, t)
    BY <1>1, <1>4, <2>3, <2>5, VoteCompares
  <2> QED BY <1>5, <2>2, <2>6, <2>7
<1> QED BY <1>6, <1>7

\* Votes are asked for, and requests tell of the log.
LEMMA RequestsStep ==
  ASSUME TypeOK, ElectionInv, AckInv, TypeOK', Onward
  PROVE  GrantsAsked' /\ RequestLogs'
<1>1. msgs \subseteq msgs'
  BY DEF Onward
<1>2. ASSUME NEW n \in msgs', IsGrant(n)
      PROVE  \E r \in msgs : r.type = "MsgRequestVote" /\ r.from = n.to /\ r.term = n.term
  <2>1. CASE n \in msgs
    BY <1>2, <2>1 DEF AckInv, GrantsAsked
  <2>2. CASE n \notin msgs
    <3>1. PICK i \in Server : Hears(i)
      BY <1>2, <2>2 DEF Onward
    <3>2. Grants(i, n)
      BY <1>2, <2>2, <3>1 DEF Hears, IsGrant
    <3> QED BY <3>2 DEF Grants
  <2> QED BY <2>1, <2>2
<1>3. ASSUME NEW r \in msgs', r.type = "MsgRequestVote",
             state'[r.from] = Candidate, term'[r.from] = r.term
      PROVE  r.index = Len(entries'[r.from]) /\ r.logTerm = LastTerm(entries'[r.from])
  <2>1. CASE r \in msgs
    <3>1. /\ state[r.from] = Candidate /\ term[r.from] = r.term
          /\ entries'[r.from] = entries[r.from]
      BY <1>3, <2>1, CandidateBefore
    <3> QED BY <1>3, <2>1, <3>1 DEF AckInv, RequestLogs
  <2>2. CASE r \notin msgs
    <3>1. PICK i \in Server : Hears(i)
      BY <1>3, <2>2 DEF Onward
    <3>2. /\ r.from = i /\ entries' = entries
          /\ r.index = Len(entries[i]) /\ r.logTerm = LastTerm(entries[i])
      BY <1>3, <2>2, <3>1 DEF Hears
    <3> QED BY <3>2
  <2> QED BY <2>1, <2>2
<1> QED BY <1>1, <1>2, <1>3 DEF GrantsAsked, RequestLogs, IsGrant

-----------------------------------------------------------------------------
(* What was sent *)

\* A leader broadcasts what it creates.
LEMMA CreatesSent ==
  ASSUME Counting, TypeOK, ReplInv, Many, TypeOK', ReplInv', NEW i \in Server, Creates(i)
  PROVE  SentAppend(i, term[i])' /\ Exists(Len(entries[i]), term[i])'
<1>1. PICK j \in Server : j # i
  <2>1. Server # {i}
    BY DEF Many, Counting
  <2> QED BY <2>1
<1>2. PICK m : m = AppendMsg(i, j, term'[i], entries'[i], commited'[i], next'[i][j])
  OBVIOUS
<1>3. m \in msgs' /\ state'[i] = Leader
  BY <1>1, <1>2 DEF Creates
<1>4. /\ FromLog(m) /\ IsAppend(m) /\ m.from = i /\ m.term = term'[i]
      /\ Part(m).index = next'[i][j] - 1
  BY SMTT(60), <1>2, <1>3, SentFromLog DEF FromLog
<1>5. /\ Len(entries[i]) \in Nat /\ Len(entries'[i]) = Len(entries[i]) + 1
      /\ Last(Log(i)') = Len(entries'[i]) /\ TermIn(Log(i)', Len(entries'[i])) = term'[i]
  BY CreatesLonger
<1>6. next'[i][j] \in Nat /\ next'[i][j] <= Len(entries[i]) + 1
  <2>1. next'[i][j] \in Nat /\ (state[i] = Leader => next[i][j] <= Len(entries[i]) + 1)
    BY SMTT(60) DEF TypeOK, ReplInv, OwnProgress
  <2>2. next'[i][j] = Len(entries[i]) + 1 \/ (state[i] = Leader /\ next'[i][j] = next[i][j])
    BY <1>1 DEF Creates
  <2> QED BY SMTT(60), <2>1, <2>2
<1>7. PICK f \in StretchType, y \in Nat :
        /\ f = Part(m) /\ y = Len(entries'[i]) /\ Cut(f, Log(i)') /\ f.index < y
  BY SMTT(60), <1>4, <1>5, <1>6 DEF FromLog
<1>8. y \in Held(f) /\ y \in Shown(f)
  BY SMTT(60), <1>5, <1>7, ViewType DEF Cut, Held, Shown
<1>9. TermIn(f, y) = term'[i]
  BY <1>5, <1>7, <1>8 DEF Cut
<1>10. y \in Held(Part(m)) /\ TermIn(Part(m), y) = term'[i]
  BY <1>7, <1>8, <1>9
<1>11. Exists(y, term[i])'
  BY <1>3, <1>4, <1>10 DEF Exists
<1>12. SentAppend(i, term[i])'
  BY <1>3, <1>4 DEF SentAppend, IsAppend
<1> QED BY <1>7, <1>11, <1>12

\* So every leader has sent appends, and every entry was sent.
LEMMA SentStep ==
  ASSUME Counting, TypeOK, LogInv, ReplInv, AckInv, Many, TypeOK', ReplInv', Onward
  PROVE  LeadersSent' /\ EntriesSent'
<1>1. LeadersSent'
  <2> SUFFICES ASSUME NEW i \in Server, state'[i] = Leader
               PROVE  SentAppend(i, term[i])'
    BY DEF LeadersSent
  <2>1. CASE Creates(i)
    BY <2>1, CreatesSent
  <2>2. CASE state[i] = Leader /\ term'[i] = term[i]
    BY SMTT(60), <2>2 DEF AckInv, LeadersSent, SentAppend, IsAppend, Onward
  <2> QED BY <2>1, <2>2 DEF Onward
<1>2. \A x, t : Exists(x, t) => Exists(x, t)'
  BY ChosenStays
<1>3. ASSUME NEW i \in Server, NEW x \in 1..Len(entries'[i])
      PROVE  Exists(x, entries[i][x].term)'
  <2>1. LogShown(i) /\ LogShown(i)'
    BY NodeLogs, NodeLogsNext DEF LogsShown
  <2>2. PICK t : t = entries'[i][x].term /\ t = TermIn(Log(i)', x)
    BY <2>1 DEF LogShown
  <2>3. \A y \in 1..Len(entries[i]) : Exists(y, entries[i][y].term)
    BY DEF AckInv, EntriesSent
  <2>4. Exists(x, t)'
    <3>1. CASE entries'[i] = entries[i]
      BY <1>2, <2>2, <2>3, <3>1
    <3>2. CASE Creates(i)
      <4>1. CASE x \in 1..Len(entries[i])
        <5>1. t = entries[i][x].term
          BY SMTT(60), <2>1, <2>2, <3>2, <4>1, CreatesLonger DEF LogShown
        <5> QED BY <1>2, <2>3, <4>1, <5>1
      <4>2. CASE x = Len(entries'[i])
        <5>1. t = term'[i]
          BY <2>2, <3>2, <4>2, CreatesLonger
        <5> QED BY <3>2, <4>2, <5>1, CreatesSent
      <4> QED BY SMTT(60), <3>2, <4>1, <4>2, CreatesLonger
    <3>3. ASSUME NEW m \in msgs, Merges(m), i = m.to
          PROVE  Exists(x, t)'
      <4>1. IsAppend(m)
        BY <3>3, MergeShape
      <4>2. PICK w \in StretchType, c \in StretchType, r \in StretchType :
              w = Log(i) /\ c = Part(m) /\ r = Log(i)' /\ Merged(r, w, c)
        BY <2>1, <3>3, AppendPart, MergeShape DEF LogShown
      <4>3. /\ c.index <= Last(w)
            /\ r = w \/ Last(r) = Last(c)
            /\ \A k \in Shown(c) : TermIn(r, k) = TermIn(c, k)
            /\ \A k \in 0..c.index : TermIn(r, k) = TermIn(w, k)
        BY <4>2 DEF Merged
      <4>4. /\ Last(w) = Len(entries[i]) /\ Last(r) = Len(entries'[i])
            /\ Last(w) \in Nat /\ Last(c) \in Nat /\ c.index \in Nat
        BY <2>1, <4>2, ViewType DEF LogShown
      <4>5. CASE x \in 1..Len(entries[i]) /\ TermIn(r, x) = TermIn(w, x)
        <5>1. t = entries[i][x].term
          BY <2>1, <2>2, <4>2, <4>5 DEF LogShown
        <5> QED BY <1>2, <2>3, <4>5, <5>1
      <4>6. CASE x \in Held(c)
        <5>1. x \in Shown(c)
          BY SMTT(60), <4>4, <4>6 DEF Held, Shown
        <5>2. TermIn(c, x) = t
          BY <2>2, <4>2, <4>3, <5>1
        <5>3. Exists(x, t)
          BY <4>1, <4>2, <4>6, <5>2 DEF Exists
        <5> QED BY <1>2, <5>3
      <4>7. CASE r = w
        BY <4>4, <4>5, <4>7
      <4>8. CASE x <= c.index
        <5>1. x \in 1..Len(entries[i]) /\ x \in 0..c.index
          BY SMTT(60), <4>3, <4>4, <4>8
        <5> QED BY <4>3, <4>5, <5>1
      <4> QED BY SMTT(60), <4>3, <4>4, <4>6, <4>7, <4>8 DEF Held
    <3> QED BY <3>1, <3>2, <3>3 DEF Onward
  <2> QED BY <2>2, <2>4
<1>4. ASSUME NEW m \in msgs', IsAck(m)
      PROVE  Exists(m.index, m.term)'
  <2>1. CASE m \in msgs
    BY <1>2, <1>4, <2>1 DEF AckInv, EntriesSent
  <2>2. CASE m \notin msgs
    <3>1. PICK a \in msgs : Acks(m, a)
      BY <1>4, <2>2 DEF Onward
    <3>2. m.term = term'[m.from] /\ m.from \in Server
      BY <3>1, MessageFields DEF Acks, Merges, TypeOK
    <3>3. Holds(m.from, m.index, m.term)'
      BY <1>4, <3>2 DEF ReplInv, AcksHeld, IsAck
    <3>4. m.index \in 1..Len(entries'[m.from]) /\ entries'[m.from][m.index].term = m.term
      BY <3>3 DEF Holds
    <3> QED BY <1>3, <3>2, <3>4
  <2> QED BY <2>1, <2>2
<1> QED BY <1>1, <1>3, <1>4 DEF EntriesSent, IsAck

-----------------------------------------------------------------------------
(* The invariant of acknowledgements *)

\* Every step goes onward.
LEMMA OnwardStep ==
  ASSUME TypeOK, ElectionInv, LogInv, TypeOK', ReplInv', Moves
  PROVE  Onward
BY SendsOnward, HearsOnward, CreatesOnward, MergesOnward DEF Moves

\* A step onward keeps AckInv.
LEMMA AckStep ==
  ASSUME Counting, TypeOK, ElectionInv, LogInv, ReplInv, AckInv, Many,
         TypeOK', ElectionInv', LogInv', ReplInv', Onward
  PROVE  AckInv'
<1>1. LostIsDead'
  BY LostStep
<1>2. AcksHold'
  BY <1>1, AcksStep
<1>3. GrantsHold' /\ GrantsAsked' /\ RequestLogs' /\ LeadersSent' /\ EntriesSent'
  BY GrantsStep, RequestsStep, SentStep
<1> QED BY <1>1, <1>2, <1>3 DEF AckInv

\* At first there is no entry and no message.
LEMMA AckInit ==
  ASSUME Init
  PROVE  AckInv
<1>1. /\ \A i \in Server : entries[i] = <<>> /\ state[i] = Follower
      /\ msgs = {}
  BY DEF Init
<1>3. \A x, t : ~Exists(x, t)
  BY <1>1 DEF Exists
<1>4. LostIsDead /\ AcksHold
  BY <1>3 DEF LostIsDead, AcksHold
<1>5. EntriesSent
  BY SMTT(60), <1>1 DEF EntriesSent
<1> QED BY <1>1, <1>4, <1>5
        DEF AckInv, GrantsHold, GrantsAsked, RequestLogs, LeadersSent, Leader, Follower

-----------------------------------------------------------------------------
(* Committed entries are chosen *)

\* A log that ends in the term of a chosen entry or a later one, and reaches the
\* entry if it is of its last term, has the entry.
ChosenKept ==
  \A i \in Server : \A x, t \in Nat :
    /\ x # 0 /\ Chosen(x, t) /\ Len(entries[i]) # 0 /\ LastTerm(entries[i]) >= t
    /\ x <= Len(entries[i]) \/ LastTerm(entries[i]) > t
    => Holds(i, x, t)

\* It does: a log without the entry would make it dead.
LEMMA ChosenAreKept ==
  ASSUME Counting
  PROVE  TypeOK /\ ReplInv /\ AckInv => ChosenKept
<1> SUFFICES ASSUME TypeOK, ReplInv, AckInv, NEW i \in Server, NEW x \in Nat, NEW t \in Nat,
                    x # 0, Chosen(x, t), Len(entries[i]) # 0, LastTerm(entries[i]) >= t,
                    x <= Len(entries[i]) \/ LastTerm(entries[i]) > t
             PROVE  Holds(i, x, t)
  BY DEF ChosenKept
<1>1. LogShown(i) /\ LostIsDead
  BY NodeLogs DEF LogsShown, AckInv
<1>2. x \in Held(Log(i)) /\ TermIn(Log(i), x) = t
  BY SMTT(60), <1>1, ChosenHeld DEF LogShown
<1> QED BY <1>1, <1>2 DEF LogShown, Holds

\* The last term of a log is the largest.
LEMMA LastTermLargest ==
  ASSUME TypeOK, ReplInv, NEW i \in Server, NEW x \in Nat, NEW t \in Nat, Holds(i, x, t)
  PROVE  /\ t <= LastTerm(entries[i]) /\ x <= Len(entries[i]) /\ Len(entries[i]) \in Nat \ {0}
         /\ LastTerm(entries[i]) \in Nat /\ LastTerm(entries[i]) <= term[i]
<1>1. LogShown(i)
  BY NodeLogs DEF LogsShown
<1>2. /\ x \in Shown(Log(i)) /\ Len(entries[i]) \in Shown(Log(i)) /\ x <= Len(entries[i])
      /\ Len(entries[i]) \in 1..Len(entries[i]) /\ TermIn(Log(i), x) = t
  BY SMTT(60), <1>1 DEF LogShown, Holds
<1>3. Ascends(Log(i))
  BY <1>1 DEF ReplInv, TermsInOrder, LogShown
<1>4. t <= LastTerm(entries[i])
  BY <1>1, <1>2, <1>3 DEF Ascends, LogShown
<1> QED BY SMTT(60), <1>1, <1>2, <1>4 DEF LogShown, ReplInv, TermsBounded

\* So it is with every entry that a node has,
HeldBelowLast ==
  \A i \in Server : \A x, t \in Nat : Holds(i, x, t) =>
    t <= LastTerm(entries[i]) /\ x <= Len(entries[i])

\* in the next state as well.
LEMMA LastTermLargestNext == TypeOK' /\ ReplInv' => HeldBelowLast'
<1>1. TypeOK /\ ReplInv => HeldBelowLast
  BY LastTermLargest DEF HeldBelowLast
<1> QED BY <1>1, PTL

\* What backs a commit index is in the log.
LEMMA BackedHolds ==
  ASSUME Counting, TypeOK, ReplInv, AckInv, NEW i \in Server, NEW c \in Nat \ {0},
         Backed(c, Len(entries[i]), LastTerm(entries[i]))
  PROVE  \E x \in Nat \ {0}, t \in Nat : c <= x /\ Chosen(x, t) /\ Holds(i, x, t)
<1>1. PICK x \in Nat, t \in Nat :
        /\ c <= x /\ x <= Len(entries[i]) /\ t <= LastTerm(entries[i]) /\ Chosen(x, t)
  BY DEF Backed
<1>4. Holds(i, x, t)
  BY SMTT(60), <1>1, ChosenAreKept DEF ChosenKept
<1> QED BY SMTT(60), <1>1, <1>4

\* Nothing is ever chosen and dead.
ChosenLive == \A x, t : ~(Chosen(x, t) /\ Dead(x, t))

\* It cannot be both,
LEMMA ChosenLives ==
  ASSUME Counting
  PROVE  ChosenLive
BY ChosenNotDead DEF ChosenLive

\* in the next state either.
LEMMA ChosenLivesNext ==
  ASSUME Counting
  PROVE  ChosenLive'
BY ChosenLives, PTL

\* A chosen entry stays where it is.
LEMMA ChosenHoldsKept ==
  ASSUME Counting, TypeOK, LogInv, ReplInv, TypeOK', ReplInv', AckInv', Onward,
         NEW i \in Server, NEW x \in Nat \ {0}, NEW t \in Nat, Holds(i, x, t), Chosen(x, t)
  PROVE  Holds(i, x, t)' /\ Chosen(x, t)'
<1>1. Chosen(x, t)'
  BY ChosenStays
<1>2. CASE Without(Log(i)', x, t)
  <2>1. PICK f \in Stretches' : f = Log(i)'
    BY NodeLogsNext DEF LogsShown, LogShown
  <2>2. Without(f, x, t) /\ Exists(x, t)'
    BY <1>1, <1>2, <2>1 DEF Chosen
  <2>3. Dead(x, t)'
    BY <2>2 DEF AckInv, LostIsDead
  <2> QED BY <1>1, <2>3, ChosenLivesNext DEF ChosenLive
<1> QED BY <1>1, <1>2, HoldsKept

\* So a commit index that does not move stays backed.
LEMMA BackedStays ==
  ASSUME Counting, TypeOK, LogInv, ReplInv, AckInv, TypeOK', ReplInv', AckInv', Onward,
         NEW i \in Server, NEW c \in Nat, Backed(c, Len(entries[i]), LastTerm(entries[i]))
  PROVE  Backed(c, Len(entries[i]), LastTerm(entries[i]))'
<1>1. CASE c = 0
  BY <1>1 DEF Backed
<1>2. CASE c # 0
  <2>1. PICK x \in Nat \ {0}, t \in Nat : c <= x /\ Chosen(x, t) /\ Holds(i, x, t)
    BY <1>2, BackedHolds
  <2>2. Holds(i, x, t)' /\ Chosen(x, t)'
    BY <2>1, ChosenHoldsKept
  <2>3. t <= LastTerm(entries'[i]) /\ x <= Len(entries'[i])
    BY <2>2, LastTermLargestNext DEF HeldBelowLast
  <2> QED BY <2>1, <2>2, <2>3 DEF Backed
<1> QED BY <1>1, <1>2

\* What is left of N when at most the half of it, rounded down, goes.
LEMMA MoreThanHalf ==
  ASSUME NEW N \in Nat, NEW a \in Nat
  PROVE  /\ N % 2 = 0 \/ N % 2 = 1
         /\ N % 2 = 1 /\ a <= N \div 2 => 2 * (N - a) > N
         /\ N % 2 = 0 /\ a <= N \div 2 - 1 => 2 * (N - a) > N
BY SMTT(60)

\* LeaderCommit takes an index that more than half of the match indexes reach.
LEMMA RankedMajority ==
  ASSUME Counting, NEW i \in Server, prs[i] = Server, state[i] = Leader, CountsMajority,
         NEW mtch \in [Server -> Nat], NEW n \in RankedMatch(i, mtch)
  PROVE  n \in Nat /\ Majority({j \in Server : mtch[j] >= n})
<1> DEFINE A == {j \in Server : mtch[j] < n}
           Q == {j \in Server : mtch[j] >= n}
<1>1. n \in Nat /\ Cardinality(A) <= CommitThresh(i)
  BY DEF RankedMatch
<1>2. Q = Server \ A /\ A \in SUBSET Server
  BY SMTT(60), <1>1
<1>3. PICK N \in Nat, a \in Nat : N = Cardinality(Server) /\ a = Cardinality(A)
  BY SizesOfSets
<1>4. Cardinality(Q) = N - a
  <2> HIDE DEF A, Q
  <2> QED BY <1>2, <1>3 DEF Counting
<1>5. CommitThresh(i) = IF N % 2 = 0 /\ pendingConfIndex[i] = 0 THEN N \div 2 - 1 ELSE N \div 2
  BY <1>3 DEF CommitThresh
<1>6. N % 2 = 1 \/ pendingConfIndex[i] = 0
  BY <1>3 DEF CountsMajority
<1>7. 2 * (N - a) > N
  <2>1. a <= IF N % 2 = 0 /\ pendingConfIndex[i] = 0 THEN N \div 2 - 1 ELSE N \div 2
    BY <1>1, <1>3, <1>5
  <2> HIDE DEF A, Q
  <2> QED BY SMTT(60), <1>6, <2>1
<1> QED BY <1>1, <1>3, <1>4, <1>7 DEF Majority

\* What LeaderCommit commits is chosen, if it counts what it should.
LEMMA AckCommits ==
  ASSUME Counting, TypeOK, ElectionInv, LogInv, CountsMajority,
         TypeOK', ReplInv', AckInv', CountsOwnTerm',
         NEW m \in msgs, HandleAppendAck(m), NEW i \in Server, commited'[i] # commited[i]
  PROVE  Backed(commited[i], Len(entries[i]), LastTerm(entries[i]))'
<1>1. /\ state[m.to] = Leader
      /\ state' = state /\ term' = term /\ entries' = entries
      /\ \E n \in RankedMatch(m.to, match'[m.to]) :
           \/ commited' = [commited EXCEPT ![m.to] = commited[m.to]]
           \/ /\ n > commited[m.to] /\ TermAt(entries[m.to], n) = term[m.to]
              /\ commited' = [commited EXCEPT ![m.to] = n]
  BY DEF HandleAppendAck, roleVars, logVars, peerVars
<1>2. m.to \in Server /\ commited \in [Server -> Nat]
  BY MessageFields DEF TypeOK
<1>3. PICK n \in RankedMatch(m.to, match'[m.to]) :
        TermAt(entries[m.to], n) = term[m.to] /\ commited' = [commited EXCEPT ![m.to] = n]
  BY <1>1, <1>2
<1>4. i = m.to /\ commited'[i] = n
  BY SMTT(60), <1>3
<1>5. /\ n \in Nat /\ Majority({j \in Server : match'[i][j] >= n})
  <2>1. match'[i] \in [Server -> Nat] /\ prs[i] = Server
    BY DEF TypeOK, ElectionInv, FixedPeers
  <2>2. PICK mtch \in [Server -> Nat] : mtch = match'[i]
    BY <2>1
  <2>3. n \in RankedMatch(i, mtch) /\ state[i] = Leader
    BY <1>1, <1>4, <2>2
  <2>4. n \in Nat /\ Majority({j \in Server : mtch[j] >= n})
    BY <2>1, <2>3, RankedMajority
  <2> QED BY <2>2, <2>4
<1>6. PICK t \in Nat : t = term'[i] /\ t # 0 /\ state'[i] = Leader
  BY SMTT(60), <1>1, <1>4 DEF TypeOK, LogInv, OthersAddressed, Leader, Follower
<1>7. n \in 1..Len(entries'[i]) /\ entries'[i][n].term = t
  BY <1>1, <1>3, <1>4, <1>6 DEF TermAt
<1>8. Exists(n, t)'
  <2>1. Exists(n, entries[i][n].term)'
    BY <1>7 DEF AckInv, EntriesSent
  <2> QED BY <1>7, <2>1
<1>9. ASSUME NEW j \in Server, match'[i][j] >= n
      PROVE  Acked(j, n, t)'
  <2>1. CASE j = i
    BY <1>6, <2>1 DEF AckInv, LeadersSent, SentAppend, Acked
  <2>2. CASE j # i
    <3>1. n \in 1..match'[i][j]
      BY SMTT(60), <1>7, <1>9
    <3>2. Acked(j, n, term[i])'
      BY <1>6, <1>7, <2>2, <3>1 DEF CountsOwnTerm, Holds
    <3> QED BY <1>6, <3>2
  <2> QED BY <2>1, <2>2
<1>10. Chosen(n, t)'
  <2>1. PICK Q \in SUBSET Server : Q = {j \in Server : match'[i][j] >= n} /\ Majority(Q)
    BY <1>5
  <2>2. \A j \in Q : Acked(j, n, t)'
    BY <1>9, <2>1
  <2>3. Majority(Q)'
    BY <2>1 DEF Majority
  <2> QED BY <1>8, <2>2, <2>3 DEF Chosen
<1>11. LastTerm(entries'[i]) = t
  BY <1>6 DEF ReplInv, OwnLast
<1>12. n <= n /\ n <= Len(entries'[i]) /\ t <= t
  BY SMTT(60), <1>7
<1> QED BY <1>4, <1>5, <1>10, <1>11, <1>12 DEF Backed

\* What a follower commits on the word of an append is chosen.
LEMMA MergeCommits ==
  ASSUME TypeOK, LogInv, ReplInv, AckInv, CommitInv, TypeOK', ReplInv', AckInv', Onward,
         NEW m \in msgs, Merges(m), NEW i \in Server, commited'[i] # commited[i]
  PROVE  Backed(commited[i], Len(entries[i]), LastTerm(entries[i]))' /\ commited'[i] > commited[i]
<1>1. IsAppend(m) /\ m.to \in Server /\ commited \in [Server -> Nat]
  BY MergeShape DEF TypeOK
<1>2. /\ m.index \in Nat /\ m.commit \in Nat /\ m.term \in Nat /\ m.entries \in Seq(Entry)
      /\ Last(Part(m)) = m.index + Len(m.entries) /\ Last(Part(m)) \in Nat
  BY <1>1, AppendPart, MessageFields DEF TypeOK
<1>3. commited' = [commited EXCEPT ![m.to] = NewCommit(commited[m.to], m)]
  BY DEF Merges
<1>4. i = m.to /\ commited'[i] = NewCommit(commited[i], m)
  BY SMTT(60), <1>3
<1>5. m.commit > commited[i] /\ m.commit # 0 /\ commited[i] \in Nat
  BY SMTT(60), <1>1, <1>2, <1>4 DEF NewCommit
<1>6. PICK x \in Nat, t \in Nat :
        m.commit <= x /\ x <= Last(Part(m)) /\ t <= m.term /\ Chosen(x, t)
  BY <1>1, <1>5 DEF CommitInv, Backed
<1>7. Last(Part(m)) <= Len(entries'[i])
  <2>1. Merged(Log(i)', Log(i), Part(m)) /\ LogShown(i)'
    BY <1>4, MergeShape, NodeLogsNext DEF LogsShown
  <2> QED BY <2>1 DEF Merged, LogShown
<1>8. LastTerm(entries'[i]) = m.term
  <2>1. PICK n \in msgs' : /\ IsAck(n) /\ n.from = i /\ n.term = m.term
                           /\ n.index = Len(entries'[i])
    BY <1>4, MergeSends
  <2>2. term'[i] = m.term
    BY <1>4 DEF Merges
  <2>3. Holds(n.from, n.index, n.term)'
    BY <2>1, <2>2 DEF ReplInv, AcksHeld, IsAck
  <2> QED BY <2>1, <2>3 DEF Holds, LastTerm, TermAt, LastIndex
<1>9. Chosen(x, t)'
  BY <1>6, ChosenStays
<1>10. commited'[i] = m.commit
  <2>1. m.commit <= m.index + Len(m.entries) /\ ~(m.commit <= commited[i])
    BY SMTT(60), <1>2, <1>5, <1>6
  <2> QED BY SMTT(60), <1>2, <1>4, <2>1 DEF NewCommit
<1>11. commited'[i] <= x /\ x <= Len(entries'[i]) /\ t <= LastTerm(entries'[i])
  <2> QED BY SMTT(60), <1>2, <1>6, <1>7, <1>8, <1>10
<1> QED BY <1>5, <1>9, <1>10, <1>11 DEF Backed

\* How a commit index moves.
LEMMA CommitMoves ==
  ASSUME TypeOK, ElectionInv, LogInv, Many, Moves,
         NEW i \in Server, commited'[i] # commited[i]
  PROVE  (\E m \in msgs : HandleAppendAck(m)) \/ (\E m \in msgs : Merges(m))
<1>1. CASE Sends
  BY <1>1 DEF Sends, Many
<1>2. CASE \E k \in Server : Hears(k)
  BY <1>2 DEF Hears
<1>3. CASE \E k \in Server : Creates(k)
  BY <1>3 DEF Creates, Many
<1> QED BY <1>1, <1>2, <1>3 DEF Moves

\* Every step keeps what is committed chosen.
LEMMA CommitStep ==
  ASSUME Counting, TypeOK, ElectionInv, LogInv, ReplInv, AckInv, CommitInv, Many, CountsMajority,
         TypeOK', ReplInv', AckInv', CountsOwnTerm', Moves
  PROVE  CommitInv'
<1>1. Onward
  BY OnwardStep
<1>2. ASSUME NEW i \in Server
      PROVE  Backed(commited[i], Len(entries[i]), LastTerm(entries[i]))'
  <2>1. CASE commited'[i] # commited[i]
    BY <1>1, <2>1, CommitMoves, AckCommits, MergeCommits
  <2>2. CASE commited'[i] = commited[i]
    <3>1. PICK c \in Nat : c = commited[i]
      BY DEF TypeOK
    <3>2. Backed(c, Len(entries[i]), LastTerm(entries[i]))
      BY <3>1 DEF CommitInv
    <3>3. Backed(c, Len(entries[i]), LastTerm(entries[i]))'
      BY <1>1, <3>2, BackedStays
    <3> QED BY <2>2, <3>1, <3>3
  <2> QED BY <2>1, <2>2
<1>3. ASSUME NEW m \in msgs', IsAppend(m)
      PROVE  Backed(m.commit, Last(Part(m)), m.term)'
  <2>1. CASE m \in msgs
    <3>1. Backed(m.commit, Last(Part(m)), m.term)
      BY <1>3, <2>1 DEF CommitInv
    <3>2. \A x, t : Chosen(x, t) => Chosen(x, t)'
      BY <1>1, ChosenStays
    <3> QED BY <3>1, <3>2 DEF Backed
  <2>2. CASE m \notin msgs
    <3>1. FromLog(m)
      BY <1>1, <1>3, <2>2 DEF Onward
    <3>2. PICK i \in Server : /\ state'[i] = Leader /\ m.term = term'[i]
                              /\ m.commit = commited'[i] /\ Cut(Part(m), Log(i)')
      BY <3>1 DEF FromLog
    <3>3. LogShown(i)'
      BY NodeLogsNext DEF LogsShown
    <3>4. Last(Part(m)) = Len(entries'[i])
      BY <3>2, <3>3 DEF Cut, LogShown
    <3>5. LastTerm(entries'[i]) = m.term
      BY <3>2 DEF ReplInv, OwnLast
    <3> QED BY <1>2, <3>2, <3>4, <3>5
  <2> QED BY <2>1, <2>2
<1> QED BY <1>2, <1>3 DEF CommitInv, IsAppend

-----------------------------------------------------------------------------
(* Committed entries are shared, and stay *)

\* Two logs with chosen entries both have one of them.
LEMMA ChosenShared ==
  ASSUME Counting, TypeOK, ReplInv, AckInv, NEW i \in Server, NEW j \in Server,
         NEW x \in Nat \ {0}, NEW t \in Nat, Chosen(x, t), Holds(i, x, t),
         NEW y \in Nat \ {0}, NEW u \in Nat, Chosen(y, u), Holds(j, y, u)
  PROVE  \E z \in {x, y}, s \in Nat : Holds(i, z, s) /\ Holds(j, z, s)
<1>1. /\ t <= LastTerm(entries[i]) /\ x <= Len(entries[i]) /\ Len(entries[i]) \in Nat \ {0}
      /\ LastTerm(entries[i]) \in Nat
      /\ u <= LastTerm(entries[j]) /\ y <= Len(entries[j]) /\ Len(entries[j]) \in Nat \ {0}
      /\ LastTerm(entries[j]) \in Nat
  BY LastTermLargest
<1>2. ChosenKept
  BY ChosenAreKept
<1>3. CASE t < u \/ (t = u /\ x <= Len(entries[j]))
  <2>1. LastTerm(entries[j]) >= t /\ (x <= Len(entries[j]) \/ LastTerm(entries[j]) > t)
    BY SMTT(60), <1>1, <1>3
  <2>2. Holds(j, x, t)
    BY <1>1, <1>2, <2>1 DEF ChosenKept
  <2> QED BY <2>2
<1>4. CASE u < t \/ (t = u /\ x > Len(entries[j]))
  <2>1. LastTerm(entries[i]) >= u /\ (y <= Len(entries[i]) \/ LastTerm(entries[i]) > u)
    BY SMTT(60), <1>1, <1>4
  <2>2. Holds(i, y, u)
    BY <1>1, <1>2, <2>1 DEF ChosenKept
  <2> QED BY <2>2
<1> QED BY SMTT(60), <1>3, <1>4

\* What two nodes commit is the same.
LEMMA CommittedShared ==
  ASSUME Counting, TypeOK, LogInv, ReplInv, AckInv, CommitInv, NEW i \in Server, NEW j \in Server,
         NEW k \in 1..commited[i], k <= commited[j]
  PROVE  /\ k \in 1..Len(entries[i]) /\ k \in 1..Len(entries[j])
         /\ entries[i][k] = entries[j][k]
<1>1. commited[i] \in Nat \ {0} /\ commited[j] \in Nat \ {0}
  <2>1. commited[i] \in Nat /\ commited[j] \in Nat
    BY DEF TypeOK
  <2> QED BY SMTT(60), <2>1
<1>2. PICK x \in Nat \ {0}, t \in Nat : commited[i] <= x /\ Chosen(x, t) /\ Holds(i, x, t)
  BY <1>1, BackedHolds DEF CommitInv
<1>3. PICK y \in Nat \ {0}, u \in Nat : commited[j] <= y /\ Chosen(y, u) /\ Holds(j, y, u)
  BY <1>1, BackedHolds DEF CommitInv
<1>4. PICK z \in {x, y}, s \in Nat : Holds(i, z, s) /\ Holds(j, z, s)
  BY SMTT(60), <1>2, <1>3, ChosenShared
<1>5. k \in 1..z
  BY SMTT(60), <1>1, <1>2, <1>3
<1>6. /\ z \in 1..Len(entries[i]) /\ z \in 1..Len(entries[j])
      /\ entries[i][z].term = entries[j][z].term
  BY <1>4 DEF Holds
<1>9. entries[i][k] = entries[j][k]
  BY SMTT(60), <1>5, <1>6, LogsAgreeAt
<1> QED BY SMTT(60), <1>5, <1>6, <1>9

\* A leader has what was committed up to its term.
LEMMA LeaderHas ==
  ASSUME Counting, TypeOK, LogInv, ReplInv, AckInv, CommitInv, NEW i \in Server, NEW j \in Server,
         state[i] = Leader, term[j] <= term[i]
  PROVE  /\ Len(entries[i]) >= commited[j]
         /\ SubSeq(entries[i], 1, commited[j]) = CommittedPrefix(j)
<1>1. /\ commited[j] \in Nat /\ Len(entries[i]) \in Nat /\ Len(entries[j]) \in Nat
      /\ entries[i] \in Seq(Entry) /\ entries[j] \in Seq(Entry)
      /\ term[i] \in Nat /\ term[j] \in Nat
  BY SeqShape DEF TypeOK
<1>2. CASE commited[j] = 0
  <2> QED BY SMTT(60), <1>2 DEF CommittedPrefix
<1>3. CASE commited[j] # 0
  <2>1. PICK y \in Nat \ {0}, u \in Nat : commited[j] <= y /\ Chosen(y, u) /\ Holds(j, y, u)
    BY <1>1, <1>3, BackedHolds DEF CommitInv
  <2>2. u <= LastTerm(entries[j]) /\ LastTerm(entries[j]) \in Nat
        /\ LastTerm(entries[j]) <= term[j]
    BY <2>1, LastTermLargest
  <2>3. LastTerm(entries[i]) = term[i]
    BY DEF ReplInv, OwnLast
  <2>4. term[i] = u => y <= Len(entries[i])
    <3>1. Log(j) \in Stretches /\ Log(j).index = 0 /\ Log(j).entries = entries[j]
      BY NodeLogs DEF LogsShown, LogShown, Log, Stretch
    <3>2. y \in DOMAIN entries[j] /\ entries[j][y].term = u
      BY SMTT(60), <2>1 DEF Holds
    <3>3. term[i] = u => 0 + y <= Len(entries[i])
      BY <3>1, <3>2 DEF LogInv, LeaderCreatedAll
    <3> QED BY SMTT(60), <3>3
  <2>5. Len(entries[i]) # 0
    <3>1. term[i] # 0
      BY DEF LogInv, OthersAddressed, Leader, Follower
    <3> QED BY SMTT(60), <2>3, <3>1 DEF LastTerm, TermAt, LastIndex
  <2>6. Holds(i, y, u)
    <3>1. LastTerm(entries[i]) >= u /\ (y <= Len(entries[i]) \/ LastTerm(entries[i]) > u)
      BY SMTT(60), <1>1, <2>2, <2>3, <2>4
    <3> QED BY <2>1, <2>5, <3>1, ChosenAreKept DEF ChosenKept
  <2>7. PICK c \in 1..y : c = commited[j]
    BY SMTT(60), <1>1, <1>3, <2>1
  <2>8. /\ y \in 1..Len(entries[i]) /\ y \in 1..Len(entries[j]) /\ y <= Len(entries[j])
        /\ entries[i][y].term = entries[j][y].term
    BY SMTT(60), <2>1, <2>6 DEF Holds
  <2>9. \A l \in 1..y : entries[i][l] = entries[j][l]
    BY <2>8, LogsAgreeAt
  <2>10. \A l \in 1..c : entries[i][l] = entries[j][l]
    BY SMTT(60), <2>9
  <2>12. SubSeq(entries[i], 1, c) = SubSeq(entries[j], 1, c)
    BY SMTT(60), <2>10
  <2> QED BY SMTT(60), <2>7, <2>8, <2>12 DEF CommittedPrefix
<1> QED BY <1>2, <1>3

\* More than half of the nodes have what a node committed.
LEMMA CommittedSpread ==
  ASSUME Counting, TypeOK, LogInv, ReplInv, AckInv, CommitInv, NEW i \in Server, commited[i] # 0
  PROVE  Majority({j \in Server : /\ Len(entries[j]) >= commited[i]
                                  /\ entries[j][commited[i]] = entries[i][commited[i]]})
<1>1. commited[i] \in Nat \ {0} /\ \A j \in Server : Len(entries[j]) \in Nat
  BY SMTT(60) DEF TypeOK
<1>2. PICK x \in Nat \ {0}, t \in Nat : commited[i] <= x /\ Chosen(x, t) /\ Holds(i, x, t)
  BY <1>1, BackedHolds DEF CommitInv
<1>3. PICK Q \in SUBSET Server : Majority(Q) /\ \A q \in Q : Acked(q, x, t)
  BY <1>2 DEF Chosen
<1>4. Exists(x, t) /\ ~Dead(x, t)
  BY <1>2, ChosenNotDead DEF Chosen
<1>5. PICK S \in SUBSET Server :
        S = {j \in Server : /\ Len(entries[j]) >= commited[i]
                            /\ entries[j][commited[i]] = entries[i][commited[i]]}
  OBVIOUS
<1>6. ASSUME NEW q \in Q
      PROVE  q \in S
  <2>1. Holds(q, x, t)
    BY <1>3, <1>4 DEF AckInv, AcksHold
  <2>2. /\ x \in 1..Len(entries[q]) /\ x \in 1..Len(entries[i]) /\ x <= Len(entries[i])
        /\ entries[q][x].term = entries[i][x].term
    BY SMTT(60), <1>2, <2>1 DEF Holds
  <2>3. \A l \in 1..x : entries[q][l] = entries[i][l]
    BY <2>2, LogsAgreeAt
  <2> QED BY SMTT(60), <1>1, <1>2, <1>3, <1>5, <2>2, <2>3
<1>7. Cardinality(Q) <= Cardinality(S)
  BY <1>6, LargerSet
<1>8. Cardinality(Q) \in Nat /\ Cardinality(S) \in Nat /\ Cardinality(Server) \in Nat
  BY SizesOfSets
<1>9. Majority(S)
  BY SMTT(60), <1>3, <1>7, <1>8 DEF Majority
<1> QED BY <1>5, <1>9

\* A log that keeps an entry keeps all that comes before it.
LEMMA PrefixKept ==
  ASSUME TypeOK, LogInv, TypeOK', Onward, NEW i \in Server,
         NEW x \in Nat \ {0}, NEW t \in Nat, Holds(i, x, t), Holds(i, x, t)'
  PROVE  \A l \in 1..x : entries'[i][l] = entries[i][l]
<1>1. /\ entries[i] \in Seq(Entry) /\ Len(entries[i]) \in Nat /\ x <= Len(entries[i])
      /\ entries[i][x].term = t
  BY SMTT(60) DEF TypeOK, Holds
<1>2. CASE entries'[i] = entries[i]
  BY <1>2
<1>3. CASE Creates(i)
  <2>1. PICK e \in Entry : entries'[i] = Append(entries[i], e)
    BY <1>3 DEF Creates, TypeOK
  <2> QED BY SMTT(60), <1>1, <2>1
<1>4. ASSUME NEW m \in msgs, Merges(m), i = m.to
      PROVE  \A l \in 1..x : entries'[i][l] = entries[i][l]
  <2>1. /\ entries'[i] = Merge(entries[i], m) /\ m.index <= Len(entries[i])
        /\ m.type = "MsgAppend" /\ m \in Message
    BY <1>4 DEF Merges, TypeOK
  <2>2. /\ m.index \in Nat /\ m.logTerm \in Nat /\ m.entries \in Seq(Entry)
        /\ Len(m.entries) \in Nat
    BY SMTT(60), <2>1, MessageFields
  <2>3. PICK w \in StretchType, c \in StretchType :
          /\ w = Stretch(0, 0, entries[i]) /\ c = Stretch(m.index, m.logTerm, m.entries)
    BY <1>1, <2>2, StretchHasType
  <2>4. Agree(w, c)
    BY <1>4, <2>3, MergeShape DEF Log, Part
  <2>5. /\ w.index = 0 /\ w.entries = entries[i]
        /\ c.index = m.index /\ c.entries = m.entries
    BY <2>3 DEF Stretch
  <2>6. CASE entries'[i] = entries[i]
    BY <2>6
  <2>7. ASSUME Len(entries'[i]) = m.index + Len(m.entries),
               \A k \in 1..m.index : entries'[i][k] = entries[i][k],
               \A k \in (m.index + 1)..(m.index + Len(m.entries)) :
                 entries'[i][k] = m.entries[k - m.index]
        PROVE  \A l \in 1..x : entries'[i][l] = entries[i][l]
    <3>1. x <= m.index + Len(m.entries) /\ entries'[i][x].term = t
      BY SMTT(60), <2>7 DEF Holds
    <3>2. CASE x <= m.index
      BY SMTT(60), <2>2, <2>7, <3>2
    <3>3. CASE x > m.index
      <4>1. Covers(w, x) /\ Covers(c, x)
        BY SMTT(60), <1>1, <2>2, <2>5, <3>1, <3>3 DEF Covers
      <4>2. w.entries[x - w.index].term = t /\ c.entries[x - c.index].term = t
        <5>1. x \in (m.index + 1)..(m.index + Len(m.entries)) /\ x - 0 = x
          BY SMTT(60), <2>2, <3>1, <3>3
        <5>2. entries'[i][x] = m.entries[x - m.index]
          BY <2>7, <5>1
        <5>3. m.entries[x - m.index].term = t
          BY <3>1, <5>2
        <5> QED BY SMTT(60), <1>1, <2>5, <5>3
      <4>3. \A l \in Nat : l > w.index /\ l > c.index /\ l <= x =>
                             w.entries[l - w.index] = c.entries[l - c.index]
        BY SMTT(60), <2>4, <4>1, <4>2, AgreeAt
      <4> SUFFICES ASSUME NEW l \in 1..x
                   PROVE  entries'[i][l] = entries[i][l]
        OBVIOUS
      <4>4. CASE l <= m.index
        BY SMTT(60), <2>7, <4>4
      <4>5. CASE l > m.index
        <5>1. entries[i][l] = m.entries[l - m.index]
          BY SMTT(60), <2>5, <4>3, <4>5
        <5>2. l \in (m.index + 1)..(m.index + Len(m.entries))
          BY SMTT(60), <2>2, <3>1, <4>5
        <5> QED BY <2>7, <5>1, <5>2
      <4> QED BY SMTT(60), <2>2, <4>4, <4>5
    <3> QED BY SMTT(60), <2>2, <3>2, <3>3
  <2>8. \/ entries'[i] = entries[i]
        \/ /\ Len(entries'[i]) = m.index + Len(m.entries)
           /\ \A k \in 1..m.index : entries'[i][k] = entries[i][k]
           /\ \A k \in (m.index + 1)..(m.index + Len(m.entries)) :
                entries'[i][k] = m.entries[k - m.index]
    BY SMTT(60), <1>1, <2>1, <2>3, <2>4, MergeResult
  <2> QED BY <2>7, <2>8
<1> QED BY <1>3, <1>4 DEF Onward

\* A step of a cluster of several nodes keeps what a node committed.
LEMMA CommittedKept ==
  ASSUME Counting, TypeOK, ElectionInv, LogInv, ReplInv, AckInv, CommitInv, Many, CountsMajority,
         TypeOK', ReplInv', AckInv', Moves, NEW i \in Server
  PROVE  /\ commited'[i] >= commited[i] /\ Len(entries'[i]) >= commited[i]
         /\ \A l \in 1..commited[i] : entries'[i][l] = entries[i][l]
<1>1. /\ commited \in [Server -> Nat] /\ commited' \in [Server -> Nat]
      /\ Len(entries[i]) \in Nat /\ Len(entries'[i]) \in Nat
  BY SeqShape DEF TypeOK
<1>2. Onward
  BY OnwardStep
<1>3. commited'[i] >= commited[i]
  <2>1. ASSUME NEW m \in msgs, HandleAppendAck(m)
        PROVE  commited'[i] >= commited[i]
    <3>1. \E n \in RankedMatch(m.to, match'[m.to]) :
             \/ commited' = [commited EXCEPT ![m.to] = commited[m.to]]
             \/ n > commited[m.to] /\ commited' = [commited EXCEPT ![m.to] = n]
      BY <2>1 DEF HandleAppendAck
    <3>2. PICK n : \/ commited' = [commited EXCEPT ![m.to] = commited[m.to]]
                   \/ n > commited[m.to] /\ commited' = [commited EXCEPT ![m.to] = n]
      BY <3>1
    <3> QED BY SMTT(60), <1>1, <3>2
  <2>2. ASSUME NEW m \in msgs, Merges(m), commited'[i] # commited[i]
        PROVE  commited'[i] >= commited[i]
    BY SMTT(60), <1>1, <1>2, <2>2, MergeCommits
  <2> QED BY SMTT(60), <1>1, <2>1, <2>2, CommitMoves
<1>4. CASE commited[i] = 0
  BY SMTT(60), <1>3, <1>4
<1>5. CASE commited[i] # 0
  <2>1. PICK x \in Nat \ {0}, t \in Nat : commited[i] <= x /\ Chosen(x, t) /\ Holds(i, x, t)
    BY <1>1, <1>5, BackedHolds DEF CommitInv
  <2>2. Holds(i, x, t)'
    BY <1>2, <2>1, ChosenHoldsKept
  <2>3. \A l \in 1..x : entries'[i][l] = entries[i][l]
    BY <1>2, <2>1, <2>2, PrefixKept
  <2>4. x <= Len(entries'[i])
    BY SMTT(60), <2>2 DEF Holds
  <2> QED BY SMTT(60), <1>1, <1>3, <2>1, <2>3, <2>4
<1> QED BY <1>4, <1>5

-----------------------------------------------------------------------------
(* A cluster of one node *)

CommitsWithin == \A i \in Server : commited[i] <= Len(entries[i])

\* A node without peers commits entries of its log, and only adds to it.
LEMMA AloneStep ==
  ASSUME Counting, TypeOK, ElectionInv, LogInv, ~Many, CommitsWithin, Moves, NEW i \in Server
  PROVE  /\ commited'[i] <= Len(entries'[i]) /\ commited'[i] >= commited[i]
         /\ Len(entries'[i]) >= commited[i]
         /\ \A l \in 1..commited[i] : entries'[i][l] = entries[i][l]
<1>1. /\ commited \in [Server -> Nat] /\ entries[i] \in Seq(Entry) /\ Len(entries[i]) \in Nat
      /\ commited[i] <= Len(entries[i])
  BY SMTT(60) DEF TypeOK, CommitsWithin
<1>2. Server = {i}
  BY OnlyNode DEF Many
<1>3. \A m \in msgs : m.from = m.to
  BY <1>2, MessageFields DEF TypeOK
<1>4. ASSUME Sends
      PROVE  /\ entries'[i] = entries[i]
             /\ commited'[i] = commited[i] \/ commited'[i] = Len(entries[i])
  <2>1. ~\E m \in msgs : HandleAppendAck(m)
    BY <1>3 DEF HandleAppendAck, LogInv, OthersAddressed
  <2>2. CASE \E k \in Server : commited' = [commited EXCEPT ![k] = Len(entries[k])]
    BY SMTT(60), <1>4, <2>2 DEF Sends
  <2> QED BY <1>4, <2>1, <2>2 DEF Sends
<1>5. ASSUME NEW k \in Server, Hears(k)
      PROVE  entries'[i] = entries[i] /\ commited'[i] = commited[i]
  BY <1>5 DEF Hears
<1>6. ASSUME NEW k \in Server, Creates(k)
      PROVE  /\ commited'[i] = Len(entries[i]) + 1 /\ Len(entries'[i]) = Len(entries[i]) + 1
             /\ \A l \in 1..Len(entries[i]) : entries'[i][l] = entries[i][l]
  <2>1. k = i
    BY <1>2
  <2>2. PICK x \in Entry : entries' = [entries EXCEPT ![i] = Append(entries[i], x)]
    BY <1>6, <2>1 DEF Creates
  <2>3. commited' = [commited EXCEPT ![i] = Len(entries[i]) + 1]
    BY <1>6, <2>1 DEF Creates, Many
  <2>4. entries'[i] = Append(entries[i], x) /\ commited'[i] = Len(entries[i]) + 1
    BY <2>2, <2>3 DEF TypeOK
  <2> QED BY SMTT(60), <2>4
<1>7. ~\E m \in msgs : Merges(m)
  BY <1>3 DEF Merges, LogInv, OthersAddressed
<1>8. \/ /\ entries'[i] = entries[i]
         /\ commited'[i] = commited[i] \/ commited'[i] = Len(entries[i])
      \/ /\ commited'[i] = Len(entries[i]) + 1 /\ Len(entries'[i]) = Len(entries[i]) + 1
         /\ \A l \in 1..Len(entries[i]) : entries'[i][l] = entries[i][l]
  BY <1>4, <1>5, <1>6, <1>7 DEF Moves
<1> QED BY SMTT(60), <1>1, <1>8

-----------------------------------------------------------------------------
(* The theorems *)

\* In a cluster of at most three nodes the match indexes that BecomeLeader keeps
\* do no harm: the leader and one more node are a majority, so what that node
\* acknowledged in an earlier term of the leader was chosen, the leader has it
\* still, and no entry of its new term comes before it.
LEMMA ThreeCountOwnTerm ==
  ASSUME Counting, TypeOK, ElectionInv, LogInv, ReplInv, AckInv, Cardinality(Server) <= 3
  PROVE  CountsOwnTerm
<1> SUFFICES ASSUME NEW i \in Server, NEW j \in Server, NEW n \in 1..match[i][j],
                    state[i] = Leader, i # j, Holds(i, n, term[i])
             PROVE  Acked(j, n, term[i])
  BY DEF CountsOwnTerm
<1>1. match[i][j] \in Nat /\ term[i] \in Nat
  BY DEF TypeOK
<1>2. PICK a \in msgs : IsAck(a) /\ a.from = j /\ a.to = i /\ a.index = match[i][j]
  BY SMTT(60) DEF ReplInv, MatchAcked
<1>3. a.term \in Nat /\ a.index \in Nat \ {0}
  BY SMTT(60), <1>2, MessageFields DEF TypeOK
<1>4. SentAppend(i, a.term)
  BY <1>2 DEF ReplInv, AnswersWithin, Informs, IsAck
<1>5. a.term <= term[i]
  BY <1>4, SentLed DEF LedOnce, SentAppend
<1>6. CASE a.term = term[i]
  BY SMTT(60), <1>2, <1>6 DEF Acked
<1>7. CASE a.term < term[i]
  <2>1. Exists(a.index, a.term)
    BY <1>2 DEF AckInv, EntriesSent
  <2>2. Acked(i, a.index, a.term) /\ Acked(j, a.index, a.term)
    BY SMTT(60), <1>2, <1>3, <1>4 DEF Acked, SentAppend
  <2>3. Majority({i, j})
    <3>1. Cardinality({i, j}) = 2
      BY DEF Counting
    <3>2. Cardinality(Server) \in Nat
      BY SizesOfSets
    <3> QED BY SMTT(60), <3>1, <3>2 DEF Majority
  <2>4. Chosen(a.index, a.term)
    BY SMTT(60), <2>1, <2>2, <2>3 DEF Chosen
  <2>5. /\ LastTerm(entries[i]) = term[i] /\ Len(entries[i]) # 0
    <3> QED BY SMTT(60), <1>1, LastTermLargest
  <2>6. Holds(i, a.index, a.term)
    BY SMTT(60), <1>1, <1>3, <1>7, <2>4, <2>5, ChosenAreKept DEF ChosenKept
  <2>7. LogShown(i) /\ Ascends(Log(i))
    BY NodeLogs DEF LogsShown, ReplInv, TermsInOrder, LogShown
  <2>8. /\ n \in Shown(Log(i)) /\ a.index \in Shown(Log(i)) /\ n <= a.index
        /\ TermIn(Log(i), n) = term[i] /\ TermIn(Log(i), a.index) = a.term
    BY SMTT(60), <1>2, <2>6, <2>7 DEF Holds, LogShown
  <2>9. term[i] <= a.term
    BY <2>7, <2>8 DEF Ascends
  <2> QED BY SMTT(60), <1>1, <1>3, <1>7, <2>9
<1> QED BY SMTT(60), <1>1, <1>3, <1>5, <1>6, <1>7

\* A leader that leads for the first time counts acknowledgements of its own
\* term only, in a cluster of any size.
LEMMA FirstCountsOwnTerm ==
  ASSUME TypeOK, ElectionInv, LogInv, ReplInv,
         \A i \in Server : state[i] = Leader => LeadsFirst(i)
  PROVE  CountsOwnTerm
<1> SUFFICES ASSUME NEW i \in Server, NEW j \in Server, NEW n \in 1..match[i][j],
                    state[i] = Leader, i # j
             PROVE  Acked(j, n, term[i])
  BY DEF CountsOwnTerm
<1>2. PICK m \in msgs : /\ IsAck(m) /\ m.from = j /\ m.term = term[i]
                        /\ m.index = match[i][j]
  BY SMTT(60), FirstMatch
<1> QED BY SMTT(60), <1>2 DEF Acked

\* At first nothing is committed.
LEMMA CommitInit ==
  ASSUME Init
  PROVE  CommitInv /\ CommitsWithin
<1>1. \A i \in Server : commited[i] = 0 /\ entries[i] = <<>>
  BY DEF Init
<1>2. msgs = {} /\ Len(<<>>) = 0
  BY DEF Init
<1> QED BY SMTT(60), <1>1, <1>2 DEF CommitInv, Backed, CommitsWithin

\* What a node has committed, alone or in a cluster.
CommitOK == (Many => AckInv /\ CommitInv) /\ (~Many => CommitsWithin)

\* Under CommitOK the committed logs are one log, the leader has it, and more
\* than half of the nodes share what a leader committed.
LEMMA CommitOKSafe ==
  ASSUME Counting, TypeOK, ElectionInv, LogInv, ReplInv, CommitOK
  PROVE  StateMachineSafety /\ LeaderCompleteness /\ CommittedOnMajority
<1>1. \A i \in Server : commited[i] \in Nat /\ entries[i] \in Seq(Entry)
                        /\ Len(entries[i]) \in Nat /\ DOMAIN entries[i] = 1..Len(entries[i])
  BY SMTT(60) DEF TypeOK
<1>2. CASE Many
  <2>1. AckInv /\ CommitInv
    BY <1>2 DEF CommitOK
  <2>2. StateMachineSafety
    BY SMTT(60), <2>1, CommittedShared DEF StateMachineSafety
  <2>3. LeaderCompleteness
    <3>1. ASSUME NEW j \in Server
          PROVE  commited[j] <= Len(entries[j])
      <4>1. CASE commited[j] = 0
        BY SMTT(60), <4>1
      <4>2. CASE commited[j] # 0
        <5>1. commited[j] \in 1..commited[j]
          BY SMTT(60), <1>1, <4>2
        <5>2. commited[j] \in 1..Len(entries[j])
          BY SMTT(60), <2>1, <5>1, CommittedShared
        <5> QED BY SMTT(60), <5>2
      <4> QED BY SMTT(60), <4>2
    <3> QED BY <2>1, <3>1, LeaderHas DEF LeaderCompleteness
  <2>4. CommittedOnMajority
    <3> SUFFICES ASSUME NEW i \in Server, commited[i] > 0
                 PROVE  2 * Cardinality({j \in Server :
                               /\ Len(entries[j]) >= commited[i]
                               /\ entries[j][commited[i]] = entries[i][commited[i]]})
                          > Cardinality(Server)
      BY DEF CommittedOnMajority
    <3>2. Majority({j \in Server : /\ Len(entries[j]) >= commited[i]
                                   /\ entries[j][commited[i]] = entries[i][commited[i]]})
      BY SMTT(60), <2>1, CommittedSpread
    <3> QED BY <3>2 DEF Majority
  <2> QED BY <2>2, <2>3, <2>4
<1>3. CASE ~Many
  <2>1. \A i, j \in Server : i = j /\ commited[i] <= Len(entries[i])
    BY <1>3, OnlyNode DEF Many, CommitOK, CommitsWithin
  <2>2. StateMachineSafety
    BY SMTT(60), <1>1, <2>1 DEF StateMachineSafety
  <2>3. LeaderCompleteness
    BY <1>1, <2>1 DEF LeaderCompleteness, CommittedPrefix
  <2>4. CommittedOnMajority
    <3> SUFFICES ASSUME NEW i \in Server, commited[i] > 0
                 PROVE  2 * Cardinality({j \in Server :
                               /\ Len(entries[j]) >= commited[i]
                               /\ entries[j][commited[i]] = entries[i][commited[i]]})
                          > Cardinality(Server)
      BY DEF CommittedOnMajority
    <3>1. PICK S \in SUBSET Server :
            S = {j \in Server : /\ Len(entries[j]) >= commited[i]
                                /\ entries[j][commited[i]] = entries[i][commited[i]]}
      OBVIOUS
    <3>2. S = Server
      BY <2>1, <3>1
    <3>3. 2 * Cardinality(S) > Cardinality(Server)
      BY SMTT(60), <1>3, <3>2 DEF Many
    <3> QED BY <3>1, <3>3
  <2> QED BY <2>2, <2>3, <2>4
<1> QED BY <1>2, <1>3

\* Under CommitOK a step never takes back what a node committed.
LEMMA CommitOKStable ==
  ASSUME Counting, TypeOK, ElectionInv, LogInv, ReplInv, CommitOK, CountsMajority,
         TypeOK', ReplInv', CommitOK', Moves, NEW i \in Server
  PROVE  /\ commited'[i] >= commited[i] /\ Len(entries'[i]) >= commited[i]
         /\ SubSeq(entries'[i], 1, commited[i]) = CommittedPrefix(i)
<1>1. /\ entries[i] \in Seq(Entry) /\ entries'[i] \in Seq(Entry)
      /\ Len(entries[i]) \in Nat /\ Len(entries'[i]) \in Nat
      /\ commited[i] \in Nat /\ commited'[i] \in Nat
  BY SeqShape DEF TypeOK
<1>3. /\ commited'[i] >= commited[i] /\ Len(entries'[i]) >= commited[i]
      /\ \A l \in 1..commited[i] : entries'[i][l] = entries[i][l]
  BY CommittedKept, AloneStep DEF CommitOK
<1>5. PICK c \in Nat : c = commited[i]
  BY <1>1
<1> QED BY SMTT(60), <1>3, <1>5 DEF CommittedPrefix

\* One step of LeaderCommit, HandleAppendEntries or any other handler keeps
\* CommitOK, if the count that the leader makes is one of its own term.
LEMMA CommitOKStep ==
  ASSUME Counting, TypeOK, ElectionInv, LogInv, ReplInv, CommitOK, CountsMajority,
         TypeOK', ElectionInv', LogInv', ReplInv', Many => AckInv', CountsOwnTerm',
         Moves
  PROVE  CommitOK'
<1>2. Many => CommitInv'
  BY CommitStep DEF CommitOK
<1>3. ~Many => CommitsWithin'
  BY AloneStep DEF CommitOK, CommitsWithin
<1> QED BY <1>2, <1>3 DEF CommitOK

\* What LeaderCommit counts is what it takes to commit: acknowledgements of the
\* leader's own term, from more than half of the nodes.
CountsRight == CountsOwnTerm /\ CountsMajority
=============================================================================
