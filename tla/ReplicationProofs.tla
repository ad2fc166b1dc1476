------------------------- MODULE ReplicationProofs --------------------------
(***************************************************************************)
(* One step of LogInv and of ReplInv: a step of any of the four kinds keeps *)
(* the logs and the appends in agreement, and the leaders' view of their   *)
(* followers true to what the followers acknowledged.                      *)
(***************************************************************************)
EXTENDS StretchProofs

\* A leaf is Zenon's unless it names the SMT solver, for arithmetic.
USE ZenonT(60)

-----------------------------------------------------------------------------
(* Steps that keep LogInv *)

\* No node starts to lead.
NoNewLeader ==
  \A k \in Server : state'[k] = Leader => state[k] = Leader /\ term'[k] = term[k]

\* The entries of stretches have terms.
LEMMA EntryTerms ==
  ASSUME NEW f \in StretchType, NEW l \in DOMAIN f.entries
  PROVE  f.entries[l].term \in Nat
<1>1. f.entries \in Seq(Entry)
  BY DEF StretchType
<1>2. f.entries[l] \in Entry
  BY SMTT(60), <1>1
<1> QED BY <1>2 DEF Entry

\* Steps that leave the logs alone: what is sent is cut off from logs.
LEMMA CopyStep ==
  ASSUME Counting, TypeOK, LogInv, TypeOK', ElectionInv', RolesKept, NoNewLeader,
         OthersAddressed', entries' = entries,
         \A m \in msgs' \ msgs : m.type = "MsgAppend" =>
           \E i \in Server, n \in Nat \ {0} :
             Stretch(m.index, m.logTerm, m.entries) = Suffix(entries[i], n)
  PROVE  LogInv'
<1>1. /\ Stretches \in SUBSET StretchType
      /\ \A f \in Stretches : /\ f.index = 0 => f.logTerm = 0
                             /\ \A g \in Stretches : Agree(f, g)
      /\ \A i \in Server : entries[i] \in Seq(Entry) /\ Stretch(0, 0, entries[i]) \in Stretches
  BY StretchesOfInv
<1>2. \A f \in Stretches' :
        \/ f \in Stretches
        \/ \E e \in Seq(Entry), n \in Nat \ {0} :
             Stretch(0, 0, e) \in Stretches /\ f = Suffix(e, n)
  BY SMTT(60), <1>1, StretchesNext
<1>3. /\ Stretches' \subseteq StretchType
      /\ \A f \in Stretches' : /\ f.index = 0 => f.logTerm = 0
                              /\ \A g \in Stretches' : Agree(f, g)
      /\ \A f \in Stretches' : \A l \in DOMAIN f.entries :
           \E g \in Stretches : \E k \in DOMAIN g.entries :
             g.entries[k] = f.entries[l] /\ g.index + k = f.index + l
  BY <1>1, <1>2, WithSuffixes
<1>4. StretchesAgree'
  BY <1>3 DEF StretchesAgree, Agree, Covers
<1>5. LeaderCreatedAll'
  <2> SUFFICES ASSUME NEW i \in Server, state'[i] = Leader,
                      NEW f \in Stretches', NEW l \in DOMAIN f.entries,
                      f.entries[l].term = term'[i]
               PROVE  f.index + l <= Len(entries'[i])
    BY DEF LeaderCreatedAll
  <2>1. PICK g \in Stretches : \E k \in DOMAIN g.entries :
          g.entries[k] = f.entries[l] /\ g.index + k = f.index + l
    BY <1>3
  <2>2. state[i] = Leader /\ term'[i] = term[i]
    BY DEF NoNewLeader
  <2> QED BY <2>1, <2>2 DEF LogInv, LeaderCreatedAll
<1>6. EntriesOfLeaders'
  <2> SUFFICES ASSUME NEW f \in Stretches', NEW l \in DOMAIN f.entries
               PROVE  \E i \in Server : LedOnce(i, f.entries[l].term)'
    BY DEF EntriesOfLeaders
  <2>1. PICK g \in Stretches : \E k \in DOMAIN g.entries : g.entries[k] = f.entries[l]
    BY <1>3
  <2>2. PICK i \in Server, t \in Nat : t = f.entries[l].term /\ LedOnce(i, t)
    BY SMTT(60), <1>3, EntryTerms DEF LogInv, EntriesOfLeaders
  <2>3. LedOnce(i, t)'
    BY <2>2, LedOnceStays
  <2> QED BY <2>2, <2>3
<1> QED BY <1>4, <1>5, <1>6 DEF LogInv

\* Steps in which one log changes to e: what every such step has to show.
LEMMA ChangeStep ==
  ASSUME Counting, TypeOK, LogInv, TypeOK', ElectionInv', RolesKept, OthersAddressed',
         NEW i \in Server, NEW e \in Seq(Entry), entries' = [entries EXCEPT ![i] = e],
         \A m \in msgs' \ msgs : m.type = "MsgAppend" =>
           \E n \in Nat \ {0} :
             Stretch(m.index, m.logTerm, m.entries) = Suffix(e, n),
         \A g \in Stretches : Agree(Stretch(0, 0, e), g),
         NEW B, B = Stretches \cup {Stretch(0, 0, e)},
         \A k \in Server : state'[k] = Leader =>
           \A g \in B : \A l \in DOMAIN g.entries :
             g.entries[l].term = term'[k] => g.index + l <= Len(entries'[k]),
         \A l \in DOMAIN e : \E k \in Server : LedOnce(k, e[l].term)'
  PROVE  LogInv'
<1>1. /\ Stretches \in SUBSET StretchType
      /\ \A f \in Stretches : /\ f.index = 0 => f.logTerm = 0
                             /\ \A g \in Stretches : Agree(f, g)
      /\ \A k \in Server : entries[k] \in Seq(Entry) /\ Stretch(0, 0, entries[k]) \in Stretches
  BY StretchesOfInv
<1>2. /\ B \in SUBSET StretchType
      /\ \A f \in B : /\ f.index = 0 => f.logTerm = 0
                      /\ \A g \in B : Agree(f, g)
  BY <1>1, WithLog
<1>3. \A k \in Server : Stretch(0, 0, entries'[k]) \in B
  <2> QED BY SMTT(60), <1>1
<1>4. \A f \in Stretches' :
        \/ f \in B
        \/ \E d \in Seq(Entry), n \in Nat \ {0} : Stretch(0, 0, d) \in B /\ f = Suffix(d, n)
  BY SMTT(60), <1>3, StretchesNext
<1>5. /\ Stretches' \subseteq StretchType
      /\ \A f \in Stretches' : /\ f.index = 0 => f.logTerm = 0
                              /\ \A g \in Stretches' : Agree(f, g)
      /\ \A f \in Stretches' : \A l \in DOMAIN f.entries :
           \E g \in B : \E k \in DOMAIN g.entries :
             g.entries[k] = f.entries[l] /\ g.index + k = f.index + l
  BY <1>2, <1>4, WithSuffixes
<1>6. StretchesAgree'
  BY <1>5 DEF StretchesAgree, Agree, Covers
<1>7. LeaderCreatedAll'
  <2> SUFFICES ASSUME NEW k \in Server, state'[k] = Leader,
                      NEW f \in Stretches', NEW l \in DOMAIN f.entries,
                      f.entries[l].term = term'[k]
               PROVE  f.index + l <= Len(entries'[k])
    BY DEF LeaderCreatedAll
  <2>1. PICK g \in B : \E j \in DOMAIN g.entries :
          g.entries[j] = f.entries[l] /\ g.index + j = f.index + l
    BY <1>5
  <2> QED BY <2>1
<1>8. EntriesOfLeaders'
  <2> SUFFICES ASSUME NEW f \in Stretches', NEW l \in DOMAIN f.entries
               PROVE  \E k \in Server : LedOnce(k, f.entries[l].term)'
    BY DEF EntriesOfLeaders
  <2>1. PICK g \in B : \E k \in DOMAIN g.entries : g.entries[k] = f.entries[l]
    BY SMTT(60), <1>5
  <2>2. CASE g \in Stretches
    <3>1. PICK k \in Server, t \in Nat : t = f.entries[l].term /\ LedOnce(k, t)
      BY SMTT(60), <1>5, <2>1, <2>2, EntryTerms DEF LogInv, EntriesOfLeaders
    <3>2. LedOnce(k, t)'
      BY <3>1, LedOnceStays
    <3> QED BY <3>1, <3>2
  <2>3. CASE g = Stretch(0, 0, e)
    <3>1. g.entries = e
      BY <2>3 DEF Stretch
    <3> QED BY <2>1, <3>1
  <2> QED BY <2>2, <2>3
<1> QED BY <1>6, <1>7, <1>8 DEF LogInv

\* Steps in which a leader creates an entry, and may have just been elected.
LEMMA CreateStep ==
  ASSUME Counting, TypeOK, LogInv, TypeOK', ElectionInv', RolesKept, OthersAddressed',
         NEW i \in Server, NEW x \in Entry, x.term = term'[i], state'[i] = Leader,
         entries' = [entries EXCEPT ![i] = Append(entries[i], x)],
         \A k \in Server \ {i} :
           state'[k] = Leader => state[k] = Leader /\ term'[k] = term[k],
         (state[i] = Leader /\ term'[i] = term[i]) \/ ~LedOnce(i, term'[i]),
         \A m \in msgs' \ msgs : m.type = "MsgAppend" =>
           \E n \in Nat \ {0} :
             Stretch(m.index, m.logTerm, m.entries) = Suffix(Append(entries[i], x), n)
  PROVE  LogInv'
<1>1. /\ Stretches \in SUBSET StretchType
      /\ \A f \in Stretches : /\ f.index = 0 => f.logTerm = 0
                             /\ \A g \in Stretches : Agree(f, g)
      /\ \A k \in Server : entries[k] \in Seq(Entry) /\ Stretch(0, 0, entries[k]) \in Stretches
  BY StretchesOfInv
<1>e. PICK e \in Seq(Entry) : e = Append(entries[i], x)
  BY <1>1, AppendShape
<1> DEFINE B == Stretches \cup {Stretch(0, 0, e)}
<1>2. /\ e \in Seq(Entry) /\ DOMAIN e = 1..(Len(entries[i]) + 1) /\ Len(entries[i]) \in Nat
      /\ Len(e) = Len(entries[i]) + 1 /\ e[Len(entries[i]) + 1] = x
      /\ \A l \in 1..Len(entries[i]) : e[l] = entries[i][l]
  BY SMTT(60), <1>e
<1>3. LeadersKnown'
  BY LeadersAreKnownNext
<1>4. ASSUME NEW g \in Stretches, NEW l \in DOMAIN g.entries, g.entries[l].term = x.term
      PROVE  g.index + l <= Len(entries[i])
  <2>1. CASE state[i] = Leader /\ term'[i] = term[i]
    BY <1>4, <2>1 DEF LogInv, LeaderCreatedAll
  <2>2. CASE ~LedOnce(i, term'[i])
    <3>1. PICK j \in Server, t \in Nat : t = term'[i] /\ LedOnce(j, t)
      BY <1>1, <1>4, EntryTerms DEF LogInv, EntriesOfLeaders
    <3>2. LedOnce(j, t)'
      BY <3>1, LedOnceStays
    <3>3. LedOnce(j, term[i])'
      BY <3>1, <3>2
    <3>4. i = j
      BY <1>3, <3>3 DEF LeadersKnown
    <3> QED BY <2>2, <3>1, <3>4
  <2> QED BY <2>1, <2>2
<1>5. \A g \in Stretches : Agree(Stretch(0, 0, e), g)
  BY <1>1, <1>4, <1>e, AppendAgrees
<1>6. entries'[i] = e /\ \A k \in Server \ {i} : entries'[k] = entries[k]
  BY <1>e DEF TypeOK
<1>7. ASSUME NEW k \in Server, state'[k] = Leader,
             NEW g \in B, NEW l \in DOMAIN g.entries, g.entries[l].term = term'[k]
      PROVE  g.index + l <= Len(entries'[k])
  <2>1. CASE k = i /\ g \in Stretches
    <3>1. g.index + l <= Len(entries[i]) /\ g.index \in Nat /\ l \in Nat
      BY SMTT(60), <1>1, <1>4, <1>7, <2>1 DEF StretchType
    <3> QED BY SMTT(60), <2>1, <3>1
  <2>2. CASE k = i /\ g = Stretch(0, 0, e)
    <3>1. g.index = 0 /\ g.entries = e
      BY <2>2 DEF Stretch
    <3> QED BY SMTT(60), <1>6, <2>2, <3>1
  <2>3. CASE k # i /\ g \in Stretches
    BY <1>6, <1>7, <2>3 DEF LogInv, LeaderCreatedAll
  <2>4. CASE k # i /\ g = Stretch(0, 0, e)
    <3>1. g.index = 0 /\ g.entries = e
      BY <2>4 DEF Stretch
    <3>2. CASE l <= Len(entries[i])
      <4>1. PICK d \in Stretches : d = Stretch(0, 0, entries[i])
        BY <1>1
      <4>2. d.index = 0 /\ d.entries = entries[i]
        BY <4>1 DEF Stretch
      <4>3. l \in DOMAIN d.entries /\ d.entries[l].term = term'[k]
        BY SMTT(60), <1>2, <1>7, <3>1, <3>2, <4>2
      <4>4. d.index + l <= Len(entries[k])
        BY <1>7, <2>4, <4>3 DEF LogInv, LeaderCreatedAll
      <4> QED BY <1>6, <2>4, <3>1, <4>2, <4>4
    <3>3. CASE l = Len(entries[i]) + 1
      <4>1. term'[k] = term'[i]
        BY <1>2, <1>7, <3>1, <3>3
      <4>2. LedOnce(i, term[i])' /\ LedOnce(k, term[k])'
        BY <1>3, <1>7 DEF LeadersKnown
      <4>3. LedOnce(k, term[i])'
        BY <4>1, <4>2
      <4>4. i = k
        BY <1>3, <4>3 DEF LeadersKnown
      <4> QED BY <2>4, <4>4
    <3> QED BY SMTT(60), <1>2, <3>1, <3>2, <3>3
  <2> QED BY <2>1, <2>2, <2>3, <2>4
<1>8. ASSUME NEW l \in DOMAIN e
      PROVE  \E k \in Server : LedOnce(k, e[l].term)'
  <2>1. CASE l <= Len(entries[i])
    <3>1. PICK d \in Stretches : d = Stretch(0, 0, entries[i])
      BY <1>1
    <3>2. d.entries = entries[i]
      BY <3>1 DEF Stretch
    <3>3. l \in DOMAIN d.entries /\ d.entries[l] = e[l]
      BY SMTT(60), <1>2, <2>1, <3>2
    <3>4. PICK k \in Server, t \in Nat : t = e[l].term /\ LedOnce(k, t)
      BY <1>1, <3>3, EntryTerms DEF LogInv, EntriesOfLeaders
    <3>5. LedOnce(k, t)'
      BY <3>4, LedOnceStays
    <3> QED BY <3>4, <3>5
  <2>2. CASE l = Len(entries[i]) + 1
    <3>1. e[l].term = term'[i]
      BY <1>2, <2>2
    <3>2. LedOnce(i, term[i])'
      BY <1>3 DEF LeadersKnown
    <3>3. LedOnce(i, e[l].term)'
      BY <3>1, <3>2
    <3> QED BY <3>3
  <2> QED BY SMTT(60), <1>2, <2>1, <2>2
<1>9. entries' = [entries EXCEPT ![i] = e]
  BY <1>e
<1>10. \A m \in msgs' \ msgs : m.type = "MsgAppend" =>
         \E n \in Nat \ {0} : Stretch(m.index, m.logTerm, m.entries) = Suffix(e, n)
  BY <1>e
<1> QED BY <1>5, <1>7, <1>8, <1>9, <1>10, ChangeStep

\* The step in which HandleAppendEntries accepts a message: the entries of the
\* merged log are entries of the old one or of the message.
LEMMA MergeStep ==
  ASSUME Counting, TypeOK, LogInv, TypeOK', ElectionInv', RolesKept, NoNewLeader, OthersAddressed',
         NEW m \in msgs, m.type = "MsgAppend", state'[m.to] # Leader,
         m.index <= Len(entries[m.to]),
         m.index >= 1 => entries[m.to][m.index].term = m.logTerm,
         entries' = [entries EXCEPT ![m.to] = Merge(entries[m.to], m)],
         \A n \in msgs' \ msgs : n.type # "MsgAppend"
  PROVE  LogInv'
<1>1. /\ Stretches \in SUBSET StretchType
      /\ \A f \in Stretches : /\ f.index = 0 => f.logTerm = 0
                             /\ \A g \in Stretches : Agree(f, g)
      /\ \A k \in Server : entries[k] \in Seq(Entry) /\ Stretch(0, 0, entries[k]) \in Stretches
  BY StretchesOfInv
<1>2. m \in Message /\ m.to \in Server /\ m.index \in Nat /\ m.entries \in Seq(Entry)
  BY DEF TypeOK, Message
<1>3. Stretch(m.index, m.logTerm, m.entries) \in Stretches
  BY DEF Stretches
<1>4. PICK w \in Stretches : w = Stretch(0, 0, entries[m.to])
  BY <1>1, <1>2
<1>5. PICK c \in Stretches : c = Stretch(m.index, m.logTerm, m.entries)
  BY <1>3
<1>6. /\ w.index = 0 /\ w.entries = entries[m.to]
      /\ c.index = m.index /\ c.entries = m.entries
  BY <1>4, <1>5 DEF Stretch
<1>7. PICK e \in Seq(Entry) : e = Merge(entries[m.to], m)
  BY <1>1, <1>2, MergeType
<1>8. Agree(w, c)
  BY <1>1
<1>9. \A g \in Stretches : Agree(Stretch(0, 0, e), g)
  <2> SUFFICES ASSUME NEW g \in Stretches
               PROVE  Agree(Stretch(0, 0, e), g)
    OBVIOUS
  <2>1. /\ g \in StretchType
        /\ g.index = 0 => g.logTerm = 0
        /\ Agree(w, g) /\ Agree(c, g) /\ entries[m.to] \in Seq(Entry)
    BY <1>1, <1>2
  <2> QED BY <1>2, <1>4, <1>5, <1>7, <1>8, <2>1, MergeAgrees
<1>10. ASSUME NEW l \in DOMAIN e
       PROVE  \E g \in Stretches : \E k \in DOMAIN g.entries :
                g.entries[k] = e[l] /\ g.index + k = l
  <2>2. \/ e = entries[m.to]
        \/ /\ Len(e) = m.index + Len(m.entries)
           /\ \A k \in 1..m.index : e[k] = entries[m.to][k]
           /\ \A k \in (m.index + 1)..(m.index + Len(m.entries)) :
                e[k] = m.entries[k - m.index]
    BY SMTT(60), <1>1, <1>2, <1>4, <1>5, <1>7, <1>8, MergeResult
  <2>3. CASE l \in 1..Len(entries[m.to]) /\ e[l] = entries[m.to][l]
    BY SMTT(60), <1>6, <2>3
  <2>4. CASE l \in (m.index + 1)..(m.index + Len(m.entries)) /\ e[l] = m.entries[l - m.index]
    <3>1. l - m.index \in DOMAIN c.entries /\ c.index + (l - m.index) = l
      BY SMTT(60), <1>2, <1>6, <2>4
    <3> QED BY <1>6, <2>4, <3>1
  <2>5. \/ l \in 1..Len(entries[m.to]) /\ e[l] = entries[m.to][l]
        \/ l \in (m.index + 1)..(m.index + Len(m.entries)) /\ e[l] = m.entries[l - m.index]
    <3>1. l \in 1..Len(e)
      BY SMTT(60)
    <3>2. CASE e = entries[m.to]
      BY <3>1, <3>2
    <3>3. CASE /\ Len(e) = m.index + Len(m.entries)
               /\ \A k \in 1..m.index : e[k] = entries[m.to][k]
               /\ \A k \in (m.index + 1)..(m.index + Len(m.entries)) :
                    e[k] = m.entries[k - m.index]
      <4>1. CASE l <= m.index
        BY SMTT(60), <1>2, <3>3, <4>1
      <4>2. CASE l > m.index
        BY SMTT(60), <1>2, <3>3, <4>2
      <4> QED BY SMTT(60), <1>2, <4>1, <4>2
    <3> QED BY <2>2, <3>2, <3>3
  <2> QED BY <2>3, <2>4, <2>5
<1> DEFINE B == Stretches \cup {Stretch(0, 0, e)}
<1>12. ASSUME NEW k \in Server, state'[k] = Leader,
              NEW g \in B, NEW l \in DOMAIN g.entries, g.entries[l].term = term'[k]
       PROVE  g.index + l <= Len(entries'[k])
  <2>1. k # m.to /\ state[k] = Leader /\ term'[k] = term[k] /\ entries'[k] = entries[k]
    BY SMTT(60), <1>12 DEF NoNewLeader
  <2>2. CASE g \in Stretches
    BY <1>12, <2>1, <2>2 DEF LogInv, LeaderCreatedAll
  <2>3. CASE g = Stretch(0, 0, e)
    <3>1. g.index = 0 /\ g.entries = e
      BY <2>3 DEF Stretch
    <3>2. PICK h \in Stretches : \E j \in DOMAIN h.entries :
            h.entries[j] = e[l] /\ h.index + j = l
      BY <1>10, <3>1
    <3>3. l <= Len(entries[k])
      BY <1>12, <2>1, <3>1, <3>2 DEF LogInv, LeaderCreatedAll
    <3> QED BY SMTT(60), <2>1, <3>1, <3>3
  <2> QED BY <2>2, <2>3
<1>13. ASSUME NEW l \in DOMAIN e
       PROVE  \E k \in Server : LedOnce(k, e[l].term)'
  <2>1. PICK h \in Stretches : \E j \in DOMAIN h.entries : h.entries[j] = e[l]
    BY <1>10
  <2>2. PICK k \in Server, t \in Nat : t = e[l].term /\ LedOnce(k, t)
    BY <1>1, <2>1, EntryTerms DEF LogInv, EntriesOfLeaders
  <2>3. LedOnce(k, t)'
    BY <2>2, LedOnceStays
  <2> QED BY <2>2, <2>3
<1>14. entries' = [entries EXCEPT ![m.to] = e]
  BY <1>7
<1>15. \A n \in msgs' \ msgs : n.type = "MsgAppend" =>
         \E k \in Nat \ {0} : Stretch(n.index, n.logTerm, n.entries) = Suffix(e, k)
  OBVIOUS
<1> QED BY <1>2, <1>9, <1>12, <1>13, <1>14, <1>15, ChangeStep

-----------------------------------------------------------------------------
(* Every step is one of them *)

\* What keeps OthersAddressed.
LEMMA AddressedStep ==
  ASSUME OthersAddressed,
         \A n \in msgs' \ msgs :
           /\ n.type \in {"MsgAppend", "MsgAppendResponse", "MsgHeartbeat",
                          "MsgHeartbeatResponse"} => n.from # n.to
           /\ n.type = "MsgAppend" => n.term # 0,
         \A i \in Server : state'[i] # Follower => term'[i] # 0
  PROVE  OthersAddressed'
BY DEF OthersAddressed

\* Leaders send the ends of their logs,
LEMMA SendsLog ==
  ASSUME Counting, TypeOK, LogInv, TypeOK', ElectionInv', Sends
  PROVE  LogInv'
<1>1. /\ UNCHANGED <<state, term, entries>> /\ msgs \subseteq msgs'
      /\ \A k \in Server : term[k] \in Nat
  BY DEF Sends, TypeOK
<1>2. ASSUME NEW n \in msgs' \ msgs
      PROVE  \/ n.type \in {"MsgTimeoutNow", "MsgTransferLeader"}
             \/ n.type = "MsgHeartbeat" /\ n.from # n.to
             \/ /\ n.type = "MsgAppend" /\ n.from # n.to /\ n.term # 0
                /\ \E i \in Server, k \in Nat \ {0} :
                     Stretch(n.index, n.logTerm, n.entries) = Suffix(entries[i], k)
  <2>1. CASE \E i \in Server : \E j \in Server \ {i} :
               /\ state[i] = Leader
               /\ n = AppendMsg(i, j, term[i], entries[i], commited'[i], next'[i][j])
    <3>1. PICK i \in Server, j \in Server, k \in Nat \ {0} :
            /\ state[i] = Leader /\ i # j /\ k = next'[i][j]
            /\ n = AppendMsg(i, j, term[i], entries[i], commited'[i], k)
      <4>1. \A i, j \in Server : next'[i][j] \in Nat \ {0}
        BY SMTT(60) DEF TypeOK
      <4> QED BY <2>1, <4>1
    <3>2. /\ n.type = "MsgAppend" /\ n.from = i /\ n.to = j /\ n.term = term[i]
          /\ Stretch(n.index, n.logTerm, n.entries) = Suffix(entries[i], k)
      BY SMTT(60), <3>1, AppendMsgCut
    <3>3. term[i] # 0
      BY <3>1 DEF LogInv, OthersAddressed, Leader, Follower
    <3> QED BY <3>1, <3>2, <3>3
  <2> QED BY <2>1 DEF Sends, HandsTo
<1>3. OthersAddressed'
  BY <1>1, <1>2 DEF LogInv, OthersAddressed
<1>4. RolesKept /\ NoNewLeader
  BY SMTT(60), <1>1, <1>2 DEF RolesKept, NoNewLeader, IsGrant
<1>5. \A n \in msgs' \ msgs : n.type = "MsgAppend" =>
        \E i \in Server, k \in Nat \ {0} :
          Stretch(n.index, n.logTerm, n.entries) = Suffix(entries[i], k)
  BY <1>2
<1> QED BY <1>1, <1>3, <1>4, <1>5, CopyStep

\* campaigns and answers carry no entries,
LEMMA HearsLog ==
  ASSUME Counting, TypeOK, LogInv, TypeOK', ElectionInv', NEW i \in Server, Hears(i)
  PROVE  LogInv'
<1>1. /\ entries' = entries /\ msgs \subseteq msgs'
      /\ \A k \in Server : term[k] \in Nat /\ term'[k] \in Nat
      /\ \A k \in Server \ {i} : state'[k] = state[k] /\ term'[k] = term[k]
      /\ \/ term'[i] = term[i] /\ state'[i] = state[i]
         \/ term'[i] = term[i] /\ state'[i] = Follower /\ state[i] = Candidate
         \/ term'[i] > term[i] /\ state'[i] \in {Follower, Candidate}
  BY DEF Hears, TypeOK
<1>2. \A n \in msgs' \ msgs :
        n.from = i /\ n.term = term'[i] /\ n.from # n.to /\ n.type # "MsgAppend"
  BY DEF Hears
<1>3. \A k \in Server : state'[k] # Follower => term'[k] # 0
  BY SMTT(60), <1>1 DEF LogInv, OthersAddressed, Leader, Follower, Candidate
<1>4. OthersAddressed'
  BY <1>2, <1>3, AddressedStep DEF LogInv
<1>5. RolesKept /\ NoNewLeader
  BY SMTT(60), <1>1, <1>2 DEF RolesKept, NoNewLeader, Leader, Follower, Candidate
<1> QED BY <1>1, <1>2, <1>4, <1>5, CopyStep

\* a leader creates an entry of its own term,
LEMMA CreatesLog ==
  ASSUME Counting, TypeOK, LogInv, TypeOK', ElectionInv', NEW i \in Server, Creates(i)
  PROVE  LogInv'
<1>1. PICK x \in Entry : /\ x.term = term'[i]
                         /\ entries' = [entries EXCEPT ![i] = Append(entries[i], x)]
  BY DEF Creates
<1>2. /\ state'[i] = Leader /\ term'[i] # 0
      /\ \A k \in Server : term[k] \in Nat /\ term'[k] \in Nat
      /\ \A k \in Server \ {i} : state'[k] = state[k] /\ term'[k] = term[k]
      /\ \/ state[i] = Leader /\ term'[i] = term[i]
         \/ state[i] = Candidate /\ term'[i] = term[i]
         \/ term'[i] > term[i]
      /\ msgs \subseteq msgs'
  BY CreatesActs
<1>3. /\ entries'[i] = Append(entries[i], x)
      /\ \A j \in Server : next'[i][j] \in Nat \ {0}
  BY SMTT(60), <1>1 DEF TypeOK
<1>4. ASSUME NEW n \in msgs' \ msgs
      PROVE  /\ n.type = "MsgAppend" /\ n.from # n.to /\ n.term # 0
             /\ \E k \in Nat \ {0} : Stretch(n.index, n.logTerm, n.entries)
                                       = Suffix(Append(entries[i], x), k)
  <2>1. PICK j \in Server \ {i}, k \in Nat \ {0} :
          n = AppendMsg(i, j, term'[i], Append(entries[i], x), commited'[i], k)
    BY SMTT(60), <1>3 DEF Creates
  <2>2. /\ n.type = "MsgAppend" /\ n.from = i /\ n.to = j /\ n.term = term'[i]
        /\ Stretch(n.index, n.logTerm, n.entries) = Suffix(Append(entries[i], x), k)
    BY SMTT(60), <2>1, AppendMsgCut
  <2> QED BY <1>2, <2>2
<1>5. OthersAddressed'
  BY <1>2, <1>4 DEF LogInv, OthersAddressed
<1>6. RolesKept
  BY SMTT(60), <1>2, <1>4 DEF RolesKept, IsGrant
<1>7. (state[i] = Leader /\ term'[i] = term[i]) \/ ~LedOnce(i, term'[i])
  BY SMTT(60), <1>2 DEF LedOnce, Leader, Candidate
<1> QED BY <1>1, <1>2, <1>4, <1>5, <1>6, <1>7, CreateStep

\* and a follower merges an append into its log.
LEMMA MergesLog ==
  ASSUME Counting, TypeOK, LogInv, TypeOK', ElectionInv', NEW m \in msgs, Merges(m)
  PROVE  LogInv'
<1>2. /\ m.type = "MsgAppend"
      /\ \A k \in Server : term[k] \in Nat /\ term'[k] \in Nat
      /\ \A k \in Server \ {m.to} : state'[k] = state[k] /\ term'[k] = term[k]
      /\ term[m.to] <= m.term /\ term'[m.to] = m.term
      /\ state'[m.to] = Follower /\ (state[m.to] = Leader => term[m.to] < m.term)
      /\ m.index <= Len(entries[m.to])
      /\ m.index >= 1 => entries[m.to][m.index].term = m.logTerm
      /\ entries' = [entries EXCEPT ![m.to] = Merge(entries[m.to], m)]
  BY DEF Merges, TypeOK
<1>3. /\ msgs \subseteq msgs'
      /\ \A n \in msgs' \ msgs :
           n.type = "MsgAppendResponse" /\ n.from = m.to /\ n.to = m.from
  BY MergeSends
<1>5. OthersAddressed'
  BY <1>2, <1>3, AddressedStep DEF LogInv, OthersAddressed
<1>6. RolesKept /\ NoNewLeader
  BY SMTT(60), <1>2, <1>3 DEF RolesKept, NoNewLeader, IsGrant, Leader, Follower
<1> QED BY <1>2, <1>3, <1>5, <1>6, MergeStep DEF Leader, Follower

-----------------------------------------------------------------------------
(* The theorems *)

\* The logs are empty and nothing was sent.
LEMMA LogInit ==
  ASSUME Init
  PROVE  LogInv
<1>1. /\ \A i \in Server : entries[i] = <<>> /\ state[i] = Follower
      /\ msgs = {}
  BY DEF Init
<1>2. \A f \in Stretches : f.index = 0 /\ f.logTerm = 0 /\ f.entries = <<>>
  BY SMTT(60), <1>1 DEF Stretches, Stretch
<1>4. StretchesAgree
  <2> SUFFICES ASSUME NEW f \in Stretches, NEW g \in Stretches
               PROVE  Agree(f, g)
    BY <1>2 DEF StretchesAgree
  <2>1. 1..(f.index + Len(f.entries)) = {}
    BY SMTT(60), <1>2
  <2> QED BY <2>1 DEF Agree
<1>5. LeaderCreatedAll
  BY SMTT(60), <1>2 DEF LeaderCreatedAll
<1>6. EntriesOfLeaders
  BY SMTT(60), <1>2 DEF EntriesOfLeaders
<1>7. OthersAddressed
  BY <1>1 DEF OthersAddressed
<1> QED BY <1>4, <1>5, <1>6, <1>7 DEF LogInv

\* Every step keeps the logs and the appends in agreement.
LEMMA LogStep ==
  ASSUME Counting, TypeOK, ElectionInv, LogInv, TypeOK', ElectionInv', Moves
  PROVE  LogInv'
BY SendsLog, HearsLog, CreatesLog, MergesLog DEF Moves

\* This is LogMatching.
LEMMA LogsAgree ==
  ASSUME TypeOK, LogInv
  PROVE  LogMatching
BY LogsAgreeAt DEF LogMatching

-----------------------------------------------------------------------------
(* The invariant in the next state *)

\* What a step has to show: B are the stretches before it and the log that it
\* changes, if any.
LEMMA ReplFrom ==
  ASSUME TypeOK, ElectionInv, ReplInv, TypeOK',
         msgs \subseteq msgs', \A k \in Server : term[k] <= term'[k],
         \A k \in Server : state[k] = Leader /\ term'[k] = term[k] =>
           Len(entries[k]) <= Len(entries'[k]),
         \A k \in Server : \A x \in 1..Len(entries[k]) :
           term'[k] = term[k] /\ Holds(k, x, term[k]) => Holds(k, x, term[k])',
         NEW B \in SUBSET StretchType,
         \A f \in B : Ascends(f) /\ \A g \in B : Runs(f, g),
         \A k \in Server : Log(k)' \in B,
         \A m \in msgs : IsAppend(m) => Part(m) \in B,
         \A m \in msgs' \ msgs : IsAppend(m) =>
           /\ state'[m.from] = Leader /\ term'[m.from] = m.term
           /\ Part(m) \in StretchType /\ Cut(Part(m), Log(m.from)'),
         \A m \in msgs' \ msgs : Informs(m) =>
           /\ SentAppend(m.to, m.term) /\ m.term = term'[m.from]
           /\ state'[m.to] = Leader /\ term'[m.to] = m.term =>
                m.index <= Len(entries'[m.to]),
         \A m \in msgs' \ msgs : IsAck(m) =>
           m.index >= 1 /\ Holds(m.from, m.index, m.term)',
         \A m \in msgs' \ msgs : m.type = "MsgAppendResponse" /\ m.reject =>
           m.logTerm = 0 \/ m.logTerm < m.term,
         \A k \in Server : state'[k] = Leader => LastTerm(entries'[k]) = term'[k],
         TermsBounded', OwnProgress', MatchAcked'
  PROVE  ReplInv'
<1>1. /\ \A k \in Server : term[k] \in Nat /\ term'[k] \in Nat
      /\ \A m \in msgs : m \in Message
      /\ \A m \in msgs' : m \in Message
  BY DEF TypeOK
<1>2. \A k \in Server : /\ Log(k)' \in StretchType
                        /\ Last(Log(k)') = Len(entries'[k]) /\ Len(entries'[k]) \in Nat
                        /\ LastTerm(entries'[k]) = TermIn(Log(k)', Len(entries'[k]))
                        /\ Len(entries[k]) \in Nat
  BY NodeLogs, NodeLogsNext DEF LogsShown, LogShown
<1>3. TermsInOrder'
  <2>1. ASSUME NEW f \in Stretches'
        PROVE  f \in StretchType /\ \E w \in B : Cut(f, w)
    <3>1. \/ \E k \in Server : f = Log(k)'
          \/ \E m \in msgs : IsAppend(m) /\ f = Part(m)
          \/ \E m \in msgs' \ msgs : IsAppend(m) /\ f = Part(m)
      BY DEF Log, Part, IsAppend, Stretches
    <3>2. CASE \E m \in msgs' \ msgs : IsAppend(m) /\ f = Part(m)
      <4>1. PICK m \in msgs' \ msgs : IsAppend(m) /\ f = Part(m)
        BY <3>2
      <4>2. m.from \in Server
        BY <1>1, MessageFields
      <4> QED BY <4>1, <4>2
    <3>3. CASE f \in B
      BY <3>3, CutSelf
    <3> QED BY <3>1, <3>2, <3>3
  <2>3. \A f \in Stretches' : Ascends(f) /\ \A g \in Stretches' : Runs(f, g)
    BY <2>1, PartsKeep
  <2> QED BY <2>3 DEF TermsInOrder, Ascends, Runs, Shown, Held, TermIn, Last
<1>4. ASSUME NEW m \in msgs, IsAppend(m), state'[m.from] = Leader, term'[m.from] = m.term
      PROVE  state[m.from] = Leader /\ term[m.from] = m.term
  <2>1. m.from \in Server /\ m.term \in Nat
    BY <1>1, MessageFields
  <2>2. m.term <= term[m.from] /\ (m.term = term[m.from] => state[m.from] = Leader)
    BY <1>4 DEF ElectionInv, LeaderMsgs, FromLeader, IsAppend
  <2> QED BY SMTT(60), <1>1, <1>4, <2>1, <2>2
<1>5. OwnLast'
  <2>1. ASSUME NEW m \in msgs', IsAppend(m)
        PROVE  TermIn(Part(m), Last(Part(m))) = m.term
    <3>1. CASE m \in msgs
      BY <2>1, <3>1 DEF ReplInv, OwnLast
    <3>2. CASE m \in msgs' \ msgs
      <4>1. m.from \in Server
        BY <1>1, MessageFields
      <4>2. /\ state'[m.from] = Leader /\ term'[m.from] = m.term
            /\ Part(m) \in StretchType /\ Cut(Part(m), Log(m.from)')
        BY <2>1, <3>2
      <4>3. Last(Part(m)) = Len(entries'[m.from]) /\ Last(Part(m)) \in Shown(Part(m))
        BY SMTT(60), <1>2, <4>1, <4>2, ViewType DEF Cut, Shown
      <4>4. TermIn(Part(m), Last(Part(m))) = TermIn(Log(m.from)', Len(entries'[m.from]))
        BY <4>2, <4>3 DEF Cut
      <4> QED BY <1>2, <4>1, <4>2, <4>4
    <3> QED BY <3>1, <3>2
  <2> QED BY <2>1 DEF OwnLast, IsAppend, Part, TermIn, Last, Stretch
<1>6. AppendsWithin'
  <2>1. ASSUME NEW m \in msgs', IsAppend(m), state'[m.from] = Leader, term'[m.from] = m.term
        PROVE  Last(Part(m)) <= Len(entries'[m.from])
    <3>0. m.from \in Server
      BY <1>1, MessageFields
    <3>1. CASE m \in msgs
      <4>1. state[m.from] = Leader /\ term[m.from] = m.term
        BY <1>4, <2>1, <3>1
      <4>2. Last(Part(m)) <= Len(entries[m.from]) /\ Len(entries[m.from]) <= Len(entries'[m.from])
        BY <2>1, <3>0, <3>1, <4>1 DEF ReplInv, AppendsWithin
      <4>3. Last(Part(m)) \in Nat
        BY <2>1, <3>1, AppendPart
      <4> QED BY SMTT(60), <4>2, <4>3
    <3>2. CASE m \in msgs' \ msgs
      BY SMTT(60), <1>2, <2>1, <3>0, <3>2 DEF Cut
    <3> QED BY <3>1, <3>2
  <2> QED BY <2>1 DEF AppendsWithin, IsAppend, Part, Last, Stretch
<1>7. \A i \in Server, t \in Nat : SentAppend(i, t) => SentAppend(i, t)'
  BY DEF SentAppend
<1>8. AnswersWithin'
  <2>1. ASSUME NEW m \in msgs', Informs(m)
        PROVE  /\ SentAppend(m.to, m.term)' /\ m.term <= term'[m.from]
               /\ state'[m.to] = Leader /\ term'[m.to] = m.term =>
                    m.index <= Len(entries'[m.to])
    <3>0. /\ m.from \in Server /\ m.to \in Server /\ m.term \in Nat /\ m.index \in Nat
      BY <1>1, MessageFields
    <3>1. CASE m \in msgs
      <4>1. SentAppend(m.to, m.term) /\ m.term <= term[m.from]
        BY <2>1, <3>1 DEF ReplInv, AnswersWithin
      <4>2. ASSUME state'[m.to] = Leader, term'[m.to] = m.term
            PROVE  m.index <= Len(entries'[m.to])
        <5>1. PICK a \in msgs : IsAppend(a) /\ a.from = m.to /\ a.term = m.term
          BY <4>1 DEF SentAppend
        <5>2. state[m.to] = Leader /\ term[m.to] = m.term
          BY SMTT(60), <1>4, <4>2, <5>1
        <5>3. m.index <= Len(entries[m.to]) /\ Len(entries[m.to]) <= Len(entries'[m.to])
          BY <2>1, <3>0, <3>1, <4>2, <5>2 DEF ReplInv, AnswersWithin
        <5> QED BY SMTT(60), <3>0, <5>3
      <4> QED BY SMTT(60), <1>1, <1>7, <3>0, <4>1, <4>2
    <3>2. CASE m \in msgs' \ msgs
      BY SMTT(60), <1>7, <2>1, <3>0, <3>2
    <3> QED BY <3>1, <3>2
  <2> QED BY <2>1 DEF AnswersWithin, Informs
<1>9. AcksHeld'
  <2>1. ASSUME NEW m \in msgs', IsAck(m)
        PROVE  m.index >= 1 /\ (term'[m.from] = m.term => Holds(m.from, m.index, m.term)')
    <3>0. /\ m.from \in Server /\ m.term \in Nat /\ m.index \in Nat
      BY <1>1, MessageFields
    <3>1. CASE m \in msgs
      <4>1. m.index >= 1 /\ (term[m.from] = m.term => Holds(m.from, m.index, m.term))
        BY <2>1, <3>1 DEF ReplInv, AcksHeld
      <4>2. ASSUME term'[m.from] = m.term
            PROVE  Holds(m.from, m.index, m.term)'
        <5>1. m.term <= term[m.from]
          BY <2>1, <3>1 DEF ReplInv, AnswersWithin, Informs, IsAck
        <5>2. term[m.from] = m.term
          BY SMTT(60), <1>1, <3>0, <4>2, <5>1
        <5>3. m.index \in 1..Len(entries[m.from]) /\ Holds(m.from, m.index, term[m.from])
          BY <4>1, <5>2 DEF Holds
        <5>4. Holds(m.from, m.index, term[m.from])'
              \/ Holds(m.from, m.index, m.term)'
          BY <3>0, <4>2, <5>2, <5>3
        <5> QED BY <4>2, <5>4
      <4> QED BY <4>1, <4>2
    <3>2. CASE m \in msgs' \ msgs
      BY <2>1, <3>2
    <3> QED BY <3>1, <3>2
  <2> QED BY <2>1 DEF AcksHeld, IsAck
<1>10. RefusalTerms'
  BY DEF ReplInv, RefusalTerms
<1> QED BY <1>3, <1>5, <1>6, <1>8, <1>9, <1>10 DEF ReplInv

-----------------------------------------------------------------------------
(* The four kinds of steps *)

\* An answer that a leader takes is of its term, and about its log.
LEMMA AnswerToLeader ==
  ASSUME TypeOK, OthersAddressed, ReplInv, NEW i \in Server, NEW j \in Server, NEW m,
         Answers(m, i, j), Informs(m)
  PROVE  m.term = term[i] /\ m.index \in Nat /\ m.index <= Len(entries[i]) /\ i # j
<1>1. /\ m \in msgs /\ m.type = "MsgAppendResponse" /\ m.from = j /\ m.to = i
      /\ state[i] = Leader /\ m.term \in {0, term[i]}
  BY DEF Answers
<1>2. m.index \in Nat
  BY <1>1, MessageFields DEF TypeOK
<1>3. PICK a \in msgs : IsAppend(a) /\ a.from = i /\ a.term = m.term
  BY <1>1 DEF ReplInv, AnswersWithin, SentAppend
<1>4. m.term # 0 /\ i # j
  BY <1>1, <1>3 DEF OthersAddressed, IsAppend
<1> QED BY <1>1, <1>2, <1>4 DEF ReplInv, AnswersWithin

\* Wherever a refusal leads the leader, it is within the log.
LEMMA RetryWithin ==
  ASSUME NEW e \in Seq(Entry), NEW m, m.index \in Nat, m.index <= Len(e),
         NEW n \in RetryIndex(e, m)
  PROVE  n <= Len(e)
<1>2. CASE m.logTerm = 0
  BY <1>2 DEF RetryIndex
<1>3. CASE m.logTerm # 0
  <2>1. PICK f \in FIndex(e, m.logTerm) :
          n = IF f > 0 /\ e[f].term = m.logTerm THEN f + 1 ELSE m.index
    BY <1>3 DEF RetryIndex
  <2>2. f \in 0..(Len(e) - 1) \/ \E k \in 1..Len(e) : f = k - 1
    <3> DEFINE newer == {k \in 1..Len(e) : e[k].term > m.logTerm}
    <3>1. f \in IF newer = {} THEN 0..(Len(e) - 1)
                ELSE {k - 1 : k \in {l \in newer : \A o \in newer : o <= l}}
      BY DEF FIndex
    <3> QED BY <3>1
  <2> QED BY SMTT(60), <2>1, <2>2
<1> QED BY <1>2, <1>3

\* Leaders send parts of their logs and keep track of the answers.
LEMMA SendsRepl ==
  ASSUME TypeOK, ElectionInv, LogInv, ReplInv, TypeOK', Sends
  PROVE  ReplInv'
<1>1. /\ state' = state /\ term' = term /\ entries' = entries /\ msgs \subseteq msgs'
      /\ \A k, l \in Server : MatchTracks(k, l) /\ NextTracks(k, l)
      /\ OthersAddressed
  BY DEF Sends, LogInv
<1>2. /\ \A k \in Server : /\ term[k] \in Nat /\ entries[k] \in Seq(Entry)
                           /\ Len(entries[k]) \in Nat
      /\ \A k, l \in Server : next[k][l] \in Nat /\ next'[k][l] \in Nat \ {0}
      /\ \A k, l \in Server : match[k][l] \in Nat
  BY SMTT(60), SeqShape DEF TypeOK
<1>3. OwnProgress'
  <2> SUFFICES ASSUME NEW i \in Server, state[i] = Leader, NEW j \in Server
               PROVE  match'[i][i] = Len(entries[i]) /\ next'[i][j] <= Len(entries[i]) + 1
    BY <1>1 DEF OwnProgress
  <2>1. match[i][i] = Len(entries[i]) /\ next[i][j] <= Len(entries[i]) + 1
    BY DEF ReplInv, OwnProgress
  <2>2. match'[i][i] = Len(entries[i])
    <3>1. \A m : Answers(m, i, i) => FALSE
      BY <1>1 DEF Answers, OthersAddressed
    <3>2. MatchTracks(i, i)
      BY <1>1
    <3> QED BY <2>1, <3>1, <3>2 DEF MatchTracks
  <2>3. NextTracks(i, j)
    BY <1>1
  <2>4. ASSUME NEW m, Answers(m, i, j), ~m.reject, next'[i][j] = m.index + 1
        PROVE  next'[i][j] <= Len(entries[i]) + 1
    <3>1. m.index \in Nat /\ m.index <= Len(entries[i])
      BY <1>1, <2>4, AnswerToLeader DEF Answers, Informs
    <3> QED BY SMTT(60), <2>4, <3>1
  <2>5. ASSUME NEW m, Answers(m, i, j), m.reject, m.index # 0,
               next'[i][j] \in RetryIndex(entries[i], m)
        PROVE  next'[i][j] <= Len(entries[i]) + 1
    <3>1. m.index \in Nat /\ m.index <= Len(entries[i])
      BY <1>1, <2>5, AnswerToLeader DEF Answers, Informs
    <3>2. next'[i][j] <= Len(entries[i])
      BY <1>2, <2>5, <3>1, RetryWithin
    <3> QED BY SMTT(60), <1>2, <3>2
  <2>6. next'[i][j] = Len(entries[i]) + 1 => next'[i][j] <= Len(entries[i]) + 1
    BY SMTT(60)
  <2> QED BY <2>1, <2>2, <2>3, <2>4, <2>5, <2>6 DEF NextTracks
<1>4. MatchAcked'
  <2> SUFFICES ASSUME NEW i \in Server, NEW j \in Server, i # j, match'[i][j] # 0
               PROVE  \E m \in msgs : /\ IsAck(m) /\ m.from = j /\ m.to = i
                                      /\ m.index = match'[i][j]
    BY SMTT(60), <1>1 DEF MatchAcked, IsAck
  <2>1. MatchTracks(i, j)
    BY <1>1
  <2> QED BY SMTT(60), <2>1 DEF MatchTracks, Answers, ReplInv, MatchAcked, IsAck
<1>5. ASSUME NEW m \in msgs' \ msgs
      PROVE  \/ m.type \in {"MsgTimeoutNow", "MsgTransferLeader", "MsgHeartbeat"}
             \/ /\ IsAppend(m) /\ state[m.from] = Leader /\ term[m.from] = m.term
                /\ m.from \in Server
                /\ Part(m) \in StretchType /\ Cut(Part(m), Log(m.from))
  <2>1. CASE \E i \in Server : \E j \in Server \ {i} :
               /\ state[i] = Leader
               /\ m = AppendMsg(i, j, term[i], entries[i], commited'[i], next'[i][j])
    <3>1. PICK i \in Server, j \in Server :
            /\ state[i] = Leader
            /\ m = AppendMsg(i, j, term[i], entries[i], commited'[i], next'[i][j])
      BY <2>1
    <3>2. next'[i][j] <= Len(entries[i]) + 1
      BY <1>1, <1>3, <3>1 DEF OwnProgress
    <3>3. next'[i][j] \in 1..(Len(entries[i]) + 1)
      BY SMTT(60), <1>2, <3>2
    <3>4. /\ IsAppend(m) /\ m.from = i /\ m.term = term[i]
          /\ Part(m) \in StretchType /\ Cut(Part(m), Stretch(0, 0, entries[i]))
      BY SMTT(60), <1>2, <3>1, <3>3, SentPart
    <3> QED BY <3>1, <3>4 DEF Log
  <2> QED BY <2>1 DEF Sends, HandsTo
<1>6. /\ Stretches \in SUBSET StretchType
      /\ \A f \in Stretches : Ascends(f) /\ \A g \in Stretches : Runs(f, g)
      /\ \A k \in Server : Log(k) \in Stretches
      /\ \A m \in msgs : IsAppend(m) => Part(m) \in Stretches
  BY StretchesTyped, NodeLogs, AppendPart DEF ReplInv, TermsInOrder, LogsShown, LogShown
<1>7. /\ \A k \in Server : Log(k)' = Log(k)
      /\ \A k \in Server : LastTerm(entries'[k]) = LastTerm(entries[k])
      /\ \A k \in Server : \A x : Holds(k, x, term[k])' <=> Holds(k, x, term[k])
  BY <1>1 DEF Log, Holds
<1>8. TermsBounded'
  BY <1>1 DEF TermsBounded, ReplInv
<1>9. \A k \in Server : state'[k] = Leader => LastTerm(entries'[k]) = term'[k]
  BY <1>1 DEF ReplInv, OwnLast
<1>10. \A m \in msgs' \ msgs : /\ ~Informs(m) /\ ~IsAck(m) /\ m.type # "MsgAppendResponse"
                               /\ IsAppend(m) =>
                                    /\ state'[m.from] = Leader /\ term'[m.from] = m.term
                                    /\ Part(m) \in StretchType /\ Cut(Part(m), Log(m.from)')
  BY <1>1, <1>5, <1>7 DEF Informs, IsAck, IsAppend
<1>11. \A k \in Server : term[k] <= term'[k] /\ Len(entries[k]) <= Len(entries'[k])
  BY SMTT(60), <1>1, <1>2
<1> QED BY <1>1, <1>3, <1>4, <1>6, <1>7, <1>8, <1>9, <1>10, <1>11, ReplFrom

\* Who campaigns or answers keeps its log, and tells the truth about it.
LEMMA HearsRepl ==
  ASSUME TypeOK, ElectionInv, LogInv, ReplInv, TypeOK', NEW i \in Server, Hears(i)
  PROVE  ReplInv'
<1>1. /\ entries' = entries /\ next' = next /\ match' = match /\ msgs \subseteq msgs'
      /\ \A k \in Server : term[k] \in Nat /\ term'[k] \in Nat /\ term[k] <= term'[k]
      /\ \A k \in Server : state'[k] = Leader => state[k] = Leader /\ term'[k] = term[k]
      /\ \A k \in Server \ {i} : state'[k] = state[k] /\ term'[k] = term[k]
  <2>1. \A k \in Server : term[k] \in Nat /\ term'[k] \in Nat
    BY DEF TypeOK
  <2>2. /\ UNCHANGED <<entries, next, match>> /\ msgs \subseteq msgs'
        /\ \A k \in Server \ {i} : state'[k] = state[k] /\ term'[k] = term[k]
        /\ \/ term'[i] = term[i] /\ state'[i] = state[i]
           \/ term'[i] = term[i] /\ state'[i] = Follower /\ state[i] = Candidate
           \/ term'[i] > term[i] /\ state'[i] \in {Follower, Candidate}
    BY DEF Hears
  <2> QED BY SMTT(60), <2>1, <2>2 DEF Leader, Follower, Candidate
<1>2. ASSUME NEW n \in msgs' \ msgs
      PROVE  /\ n.from = i /\ n.term = term'[i] /\ n.from # n.to /\ ~IsAppend(n) /\ ~IsAck(n)
             /\ n.type = "MsgAppendResponse" =>
                  (n.index = 0 /\ n.logTerm = 0) \/ Refuses(i, n)
  BY DEF Hears, IsAppend, IsAck
<1>3. ASSUME NEW n \in msgs' \ msgs, Refuses(i, n)
      PROVE  /\ SentAppend(n.to, n.term)
             /\ state'[n.to] = Leader /\ term'[n.to] = n.term => n.index <= Len(entries[n.to])
             /\ n.logTerm = 0 \/ n.logTerm < n.term
  <2>1. PICK a \in msgs :
          /\ IsAppend(a) /\ a.to = i /\ a.from = n.to /\ a.term = n.term
          /\ \/ /\ a.index > Len(entries[i])
                /\ n.logTerm = 0 /\ n.index = Len(entries[i]) + 1
             \/ /\ a.index \in 1..Len(entries[i])
                /\ entries[i][a.index].term # a.logTerm
                /\ n.logTerm = entries[i][a.index].term /\ n.index = a.index - 1
    BY <1>3 DEF Refuses, IsAppend
  <2>2. n.to \in Server
    BY MessageFields DEF TypeOK
  <2>3. LogShown(i) /\ LogShown(n.to)
    BY <2>2, NodeLogs DEF LogsShown
  <2>4. /\ Part(a) \in Stretches /\ Part(a) \in StretchType
        /\ a.index \in Nat /\ Last(Part(a)) \in Nat
        /\ a.index <= Last(Part(a)) /\ TermIn(Part(a), a.index) = a.logTerm
        /\ a.index \in Shown(Part(a)) /\ Last(Part(a)) \in Shown(Part(a))
    BY <2>1, AppendPart
  <2>5. ASSUME state'[n.to] = Leader, term'[n.to] = n.term
        PROVE  n.index <= Len(entries[n.to])
    <3>1. Last(Part(a)) <= Len(entries[n.to])
      BY SMTT(60), <1>1, <2>1, <2>2, <2>5 DEF ReplInv, AppendsWithin
    <3> QED BY SMTT(60), <2>1, <2>4, <3>1
  <2>6. ASSUME a.index \in 1..Len(entries[i]), entries[i][a.index].term # a.logTerm
        PROVE  entries[i][a.index].term < n.term
    <3>1. /\ entries[i][a.index].term \in Nat /\ a.index \in Held(Log(i))
          /\ TermIn(Log(i), a.index) = entries[i][a.index].term /\ Log(i) \in Stretches
      BY <2>3, <2>6 DEF LogShown
    <3>2. entries[i][a.index].term <= n.term /\ n.term \in Nat
      <4>1. entries[i][a.index].term <= term[i]
        BY <2>6 DEF ReplInv, TermsBounded
      <4> QED BY SMTT(60), <1>1, <1>2, <3>1, <4>1
    <3>3. TermIn(Part(a), Last(Part(a))) = n.term
      BY <2>1 DEF ReplInv, OwnLast
    <3>4. Runs(Log(i), Part(a)) /\ a.index <= a.index
      BY SMTT(60), <2>4, <3>1 DEF ReplInv, TermsInOrder
    <3>5. entries[i][a.index].term # n.term
      BY <2>4, <2>6, <3>1, <3>3, <3>4 DEF Runs
    <3> QED BY SMTT(60), <3>1, <3>2, <3>5
  <2>7. SentAppend(n.to, n.term)
    BY <2>1 DEF SentAppend
  <2> QED BY <2>1, <2>5, <2>6, <2>7
<1>4. /\ Stretches \in SUBSET StretchType
      /\ \A f \in Stretches : Ascends(f) /\ \A g \in Stretches : Runs(f, g)
      /\ \A k \in Server : Log(k) \in Stretches
      /\ \A m \in msgs : IsAppend(m) => Part(m) \in Stretches
  BY StretchesTyped, NodeLogs, AppendPart DEF ReplInv, TermsInOrder, LogsShown, LogShown
<1>5. /\ \A k \in Server : Log(k)' = Log(k) /\ Log(k)' \in Stretches
      /\ \A k \in Server : LastTerm(entries'[k]) = LastTerm(entries[k])
      /\ \A k \in Server : \A x \in 1..Len(entries[k]) :
           term'[k] = term[k] /\ Holds(k, x, term[k]) => Holds(k, x, term[k])'
  BY <1>1, <1>4 DEF Log, Holds
<1>6. TermsBounded'
  <2>1. \A k \in Server : \A l \in 1..Len(entries[k]) : entries[k][l].term \in Nat
    BY NodeLogs DEF LogsShown, LogShown
  <2>2. \A k \in Server : \A l \in 1..Len(entries[k]) : entries[k][l].term <= term[k]
    BY DEF TermsBounded, ReplInv
  <2> QED BY SMTT(60), <1>1, <2>1, <2>2 DEF TermsBounded
<1>7. \A k \in Server : state'[k] = Leader => LastTerm(entries'[k]) = term'[k]
  BY <1>1 DEF ReplInv, OwnLast
<1>8. OwnProgress'
  BY <1>1 DEF ReplInv, OwnProgress
<1>9. MatchAcked'
  BY SMTT(60), <1>1 DEF ReplInv, MatchAcked, IsAck
<1>10. \A m \in msgs' \ msgs : Informs(m) =>
         /\ SentAppend(m.to, m.term) /\ m.term = term'[m.from]
         /\ state'[m.to] = Leader /\ term'[m.to] = m.term => m.index <= Len(entries'[m.to])
  BY <1>1, <1>2, <1>3 DEF Informs, IsAck
<1>11. \A m \in msgs' \ msgs : m.type = "MsgAppendResponse" /\ m.reject =>
         m.logTerm = 0 \/ m.logTerm < m.term
  BY <1>2, <1>3
<1>12. \A k \in Server : Len(entries[k]) <= Len(entries'[k])
  BY SMTT(60), <1>1
<1>13. \A m \in msgs' \ msgs : ~IsAppend(m) /\ ~IsAck(m)
  BY <1>2
<1> QED BY <1>1, <1>4, <1>5, <1>6, <1>7, <1>8, <1>9, <1>10, <1>11, <1>12, <1>13, ReplFrom

\* A log that fits can be added to stretches that fit.
LEMMA WithFitting ==
  ASSUME NEW B \in SUBSET StretchType,
         \A f \in B : Ascends(f) /\ \A g \in B : Runs(f, g),
         NEW r \in StretchType, Ascends(r), Runs(r, r),
         \A g \in B : Runs(r, g) /\ Runs(g, r)
  PROVE  /\ B \cup {r} \in SUBSET StretchType
         /\ \A f \in B \cup {r} : Ascends(f) /\ \A g \in B \cup {r} : Runs(f, g)
OBVIOUS

\* Nothing was created yet in the term of a leader that starts to lead it.
LEMMA CreatesFirst ==
  ASSUME Counting, TypeOK, LogInv, TypeOK', ElectionInv', NEW i \in Server, Creates(i),
         NEW g \in Stretches, NEW l \in DOMAIN g.entries, g.entries[l].term = term'[i]
  PROVE  state[i] = Leader /\ term'[i] = term[i]
<1> SUFFICES ASSUME ~(state[i] = Leader /\ term'[i] = term[i])
             PROVE  FALSE
  OBVIOUS
<1>1. /\ term[i] \in Nat /\ term'[i] \in Nat /\ term'[i] # 0
      /\ (state[i] = Candidate /\ term'[i] = term[i]) \/ term'[i] > term[i]
  BY CreatesActs
<1>2. ~LedOnce(i, term'[i])
  BY SMTT(60), <1>1 DEF LedOnce, Leader, Candidate
<1>3. PICK j \in Server : LedOnce(j, term'[i])
  BY DEF LogInv, EntriesOfLeaders
<1> QED BY <1>2, <1>3, CreatorLed

\* A leader creates an entry of its term, which no other log or append has.
LEMMA CreatesRepl ==
  ASSUME Counting, TypeOK, ElectionInv, LogInv, ReplInv, TypeOK', ElectionInv', NEW i \in Server, Creates(i)
  PROVE  ReplInv'
<1>1. PICK x \in Entry : /\ x.term = term'[i]
                         /\ entries' = [entries EXCEPT ![i] = Append(entries[i], x)]
  BY DEF Creates
<1>2. /\ state'[i] = Leader
      /\ \A k \in Server \ {i} : /\ state'[k] = state[k] /\ term'[k] = term[k]
                                 /\ next'[k] = next[k] /\ match'[k] = match[k]
      /\ \/ state[i] = Leader /\ term'[i] = term[i]
         \/ state[i] = Candidate /\ term'[i] = term[i]
         \/ term'[i] > term[i]
      /\ \A j \in Server \ {i} :
           /\ match'[i][j] = match[i][j]
           /\ \/ next'[i][j] = Len(entries[i]) + 1
              \/ state[i] = Leader /\ next'[i][j] = next[i][j]
      /\ match'[i][i] = Len(entries[i]) + 1 /\ next'[i][i] = Len(entries[i]) + 2
  BY DEF Creates
<1>3. msgs' = msgs \cup {AppendMsg(i, j, term'[i], entries'[i], commited'[i], next'[i][j]) :
                           j \in Server \ {i}}
  BY DEF Creates
<1>4. /\ \A k \in Server : term[k] \in Nat /\ term'[k] \in Nat /\ entries[k] \in Seq(Entry)
      /\ \A k, l \in Server : next[k][l] \in Nat /\ next'[k][l] \in Nat \ {0}
      /\ entries'[i] = Append(entries[i], x)
      /\ \A k \in Server \ {i} : entries'[k] = entries[k]
  BY SMTT(60), <1>1 DEF TypeOK
<1>5. \A k \in Server : LogShown(k) /\ LogShown(k)'
  BY NodeLogs, NodeLogsNext DEF LogsShown
<1>6. PICK w \in Stretches, r \in StretchType, L \in Nat :
        w = Log(i) /\ r = Log(i)' /\ L = Len(entries[i])
  BY <1>5 DEF LogShown
<1>7. /\ w \in StretchType /\ w.index = 0 /\ Last(w) = L
      /\ r.index = 0 /\ Last(r) = L + 1 /\ TermIn(r, L + 1) = term'[i]
      /\ \A k \in 0..L : TermIn(r, k) = TermIn(w, k)
      /\ Len(entries'[i]) = L + 1
  <2>1. w = Stretch(0, 0, entries[i]) /\ r = Stretch(0, 0, Append(entries[i], x))
    BY <1>4, <1>6 DEF Log
  <2>2. /\ r.index = 0 /\ Last(r) = L + 1 /\ TermIn(r, L + 1) = term'[i]
        /\ \A k \in 0..L : TermIn(r, k) = TermIn(w, k)
    BY SMTT(60), <1>1, <1>4, <1>6, <2>1, AppendView
  <2> QED BY <1>5, <1>6, <2>2 DEF LogShown
<1>8. /\ Stretches \in SUBSET StretchType
      /\ \A f \in Stretches : Ascends(f) /\ \A g \in Stretches : Runs(f, g)
      /\ \A m \in msgs : IsAppend(m) => Part(m) \in Stretches
  BY StretchesTyped, AppendPart DEF ReplInv, TermsInOrder
<1>9. \A k \in 0..L : TermIn(w, k) \in Nat /\ TermIn(w, k) <= term'[i]
  <2>1. \A k \in 0..L : k \in Shown(w)
    BY <1>7 DEF Shown
  <2>2. \A k \in 1..L : TermIn(w, k) <= term[i]
    BY <1>5, <1>6 DEF ReplInv, TermsBounded, LogShown
  <2>3. TermIn(w, 0) = 0
    BY <1>5, <1>6 DEF LogShown
  <2>4. \A k \in 0..L : k = 0 \/ k \in 1..L
    BY SMTT(60)
  <2> QED BY SMTT(60), <1>2, <1>4, <1>7, <2>1, <2>2, <2>3, <2>4, ViewType
<1>10. ASSUME NEW g \in Stretches, NEW y \in Held(g), TermIn(g, y) = term'[i]
       PROVE  y \in Nat /\ y <= L /\ L >= 1 /\ TermIn(w, L) = term'[i]
  <2>1. g \in StretchType /\ g.index \in Nat /\ y \in Nat /\ y > g.index
        /\ g.entries \in Seq(Entry) /\ Last(g) = g.index + Len(g.entries)
    BY SMTT(60), <1>8, <1>10 DEF Held, StretchType, Last
  <2>2. /\ y - g.index \in DOMAIN g.entries /\ g.entries[y - g.index].term = term'[i]
        /\ g.index + (y - g.index) = y
    <3> QED BY SMTT(60), <1>10, <2>1 DEF Held, TermIn
  <2>3. state[i] = Leader /\ term'[i] = term[i]
    BY <2>2, CreatesFirst
  <2>4. y <= L
    BY <1>6, <2>2, <2>3 DEF LogInv, LeaderCreatedAll
  <2>5. TermIn(w, L) = term[i]
    BY <1>5, <1>6, <2>3 DEF ReplInv, OwnLast, LogShown
  <2> QED BY SMTT(60), <2>1, <2>3, <2>4, <2>5
<1>11. Ascends(r)
  <2> SUFFICES ASSUME NEW k \in Shown(r), NEW l \in Shown(r), k <= l
               PROVE  TermIn(r, k) <= TermIn(r, l)
    BY DEF Ascends
  <2>1. /\ k \in 0..L \/ k = L + 1
        /\ l \in 0..L \/ l = L + 1
    BY SMTT(60), <1>7 DEF Shown
  <2>2. CASE l = L + 1
    BY SMTT(60), <1>4, <1>7, <1>9, <2>1, <2>2
  <2>3. CASE l \in 0..L
    <3>1. k \in 0..L /\ k \in Shown(w) /\ l \in Shown(w)
      BY SMTT(60), <1>7, <2>3 DEF Shown
    <3> QED BY <1>7, <1>8, <2>3, <3>1 DEF Ascends
  <2> QED BY <2>1, <2>2, <2>3
<1>12. ASSUME NEW g \in Stretches
       PROVE  Runs(g, r)
  <2> SUFFICES ASSUME NEW y \in Held(g), NEW z \in Shown(r), NEW u \in Shown(r),
                      y <= z, z <= u, TermIn(r, u) = TermIn(g, y)
               PROVE  TermIn(r, z) = TermIn(g, y)
    BY DEF Runs
  <2>1. /\ z \in 0..L \/ z = L + 1
        /\ u \in 0..L \/ u = L + 1
    BY SMTT(60), <1>7 DEF Shown
  <2>2. CASE u \in 0..L
    <3>1. z \in 0..L /\ z \in Shown(w) /\ u \in Shown(w)
      BY SMTT(60), <1>7, <2>2 DEF Shown
    <3> QED BY SMTT(60), <1>7, <1>8, <2>2, <3>1 DEF Runs
  <2>3. CASE u = L + 1 /\ z = L + 1
    BY <2>3
  <2>4. CASE u = L + 1 /\ z \in 0..L
    <3>1. L >= 1 /\ TermIn(w, L) = TermIn(g, y)
      BY <1>7, <1>10, <2>4
    <3>2. z \in Shown(w) /\ L \in Shown(w) /\ z <= L
      BY SMTT(60), <1>7, <2>4 DEF Shown
    <3> QED BY <1>7, <1>8, <2>4, <3>1, <3>2 DEF Runs
  <2> QED BY <2>1, <2>2, <2>4
<1>13. ASSUME NEW g \in Stretches
       PROVE  Runs(r, g)
  <2> SUFFICES ASSUME NEW y \in Held(r), NEW z \in Shown(g), NEW u \in Shown(g),
                      y <= z, z <= u, TermIn(g, u) = TermIn(r, y)
               PROVE  TermIn(g, z) = TermIn(r, y)
    BY DEF Runs
  <2>1. y \in 1..L \/ y = L + 1
    BY SMTT(60), <1>7 DEF Held
  <2>2. CASE y \in 1..L
    <3>1. y \in Held(w) /\ y \in 0..L
      BY SMTT(60), <1>7, <2>2 DEF Held
    <3> QED BY SMTT(60), <1>7, <1>8, <3>1 DEF Runs
  <2>3. CASE y = L + 1
    <3>1. g.index \in Nat /\ Last(g) \in Nat
      BY <1>8, ViewType
    <3>2. u = z \/ (u \in Held(g) /\ u > L)
      BY SMTT(60), <2>3, <3>1 DEF Shown, Held
    <3>3. TermIn(g, u) = term'[i] /\ (u \in Held(g) => u \in Nat /\ u <= L)
      BY <1>7, <1>10, <2>3
    <3> QED BY SMTT(60), <3>2, <3>3
  <2> QED BY <2>1, <2>2, <2>3
<1>14. Runs(r, r)
  <2> SUFFICES ASSUME NEW y \in Held(r), NEW z \in Shown(r), NEW u \in Shown(r),
                      y <= z, z <= u, TermIn(r, u) = TermIn(r, y)
               PROVE  TermIn(r, z) = TermIn(r, y)
    BY DEF Runs
  <2>1. y \in 1..L \/ y = L + 1
    BY SMTT(60), <1>7 DEF Held
  <2>2. CASE y \in 1..L
    <3>1. y \in Held(w) /\ y \in 0..L
      BY SMTT(60), <1>7, <2>2 DEF Held
    <3>2. Runs(w, r)
      BY <1>12
    <3> QED BY <1>7, <3>1, <3>2 DEF Runs
  <2>3. CASE y = L + 1
    <3>1. z = L + 1
      BY SMTT(60), <1>7, <2>3 DEF Shown
    <3> QED BY <2>3, <3>1
  <2> QED BY <2>1, <2>2, <2>3
<1> DEFINE B == Stretches \cup {r}
<1>15. B \in SUBSET StretchType /\ \A f \in B : Ascends(f) /\ \A g \in B : Runs(f, g)
  BY <1>8, <1>11, <1>12, <1>13, <1>14
<1>16. \A k \in Server : Log(k)' \in B
  <2>1. \A k \in Server \ {i} : Log(k)' = Log(k) /\ Log(k) \in Stretches
    BY <1>4, <1>5 DEF Log, LogShown
  <2> QED BY <1>6, <2>1
<1>17. \A k \in Server : term[k] <= term'[k] /\ Len(entries[k]) <= Len(entries'[k])
  <2>1. \A k \in Server : Len(entries[k]) \in Nat
    BY SMTT(60) DEF LogShown
  <2> QED BY SMTT(60), <1>2, <1>4, <1>6, <2>1
<1>18. ASSUME NEW k \in Server, NEW y \in 1..Len(entries[k]), term'[k] = term[k],
              Holds(k, y, term[k])
       PROVE  Holds(k, y, term[k])'
  <2>1. CASE k # i
    BY <1>4, <1>18, <2>1 DEF Holds
  <2>2. CASE k = i
    <3>1. y \in 1..L /\ y \in 0..L /\ y \in 1..(L + 1) /\ TermIn(w, y) = term[i]
      BY SMTT(60), <1>5, <1>6, <1>18, <2>2 DEF Holds, LogShown
    <3> QED BY <1>5, <1>6, <1>7, <1>18, <2>2, <3>1 DEF Holds, LogShown
  <2> QED BY <2>1, <2>2
<1>19. OwnProgress'
  <2> SUFFICES ASSUME NEW k \in Server, state'[k] = Leader, NEW j \in Server
               PROVE  /\ match'[k][k] = Len(entries'[k])
                      /\ next'[k][j] <= Len(entries'[k]) + 1
    BY DEF OwnProgress
  <2>1. CASE k # i
    BY <1>2, <1>4, <2>1 DEF ReplInv, OwnProgress
  <2>2. CASE k = i
    <3>1. state[i] = Leader => next[i][j] <= L + 1
      BY <1>6 DEF ReplInv, OwnProgress
    <3> QED BY SMTT(60), <1>2, <1>4, <1>7, <2>2, <3>1
  <2> QED BY <2>1, <2>2
<1>20. ASSUME NEW m \in msgs' \ msgs
       PROVE  /\ IsAppend(m) /\ m.from = i /\ term'[i] = m.term
              /\ Part(m) \in StretchType /\ Cut(Part(m), Log(i)')
  <2>1. PICK j \in Server :
          m = AppendMsg(i, j, term'[i], entries'[i], commited'[i], next'[i][j])
    BY <1>3
  <2>2. next'[i][j] <= Len(entries'[i]) + 1
    BY <1>2, <1>19 DEF OwnProgress
  <2>3. next'[i][j] \in 1..(Len(entries'[i]) + 1) /\ entries'[i] \in Seq(Entry)
    <3>1. next'[i][j] \in Nat \ {0} /\ Len(entries'[i]) \in Nat
      BY SMTT(60), <1>4
    <3>2. entries'[i] \in Seq(Entry)
      BY DEF TypeOK
    <3> QED BY SMTT(60), <2>2, <3>1, <3>2
  <2>4. /\ IsAppend(m) /\ m.from = i /\ m.term = term'[i]
        /\ Part(m) \in StretchType /\ Cut(Part(m), Stretch(0, 0, entries'[i]))
    BY SMTT(60), <2>1, <2>3, SentPart
  <2> QED BY <2>4 DEF Log
<1>21. MatchAcked'
  <2>1. msgs \subseteq msgs'
    BY <1>3
  <2>2. \A k, j \in Server : k # j => match'[k][j] = match[k][j]
    BY SMTT(60), <1>2
  <2> QED BY SMTT(60), <2>1, <2>2 DEF ReplInv, MatchAcked, IsAck
<1>22. \A k \in Server : state'[k] = Leader => LastTerm(entries'[k]) = term'[k]
  <2>1. LastTerm(entries'[i]) = term'[i]
    BY <1>5, <1>6, <1>7 DEF LogShown
  <2>2. \A k \in Server \ {i} : state'[k] = Leader => LastTerm(entries'[k]) = term'[k]
    BY <1>2, <1>4 DEF ReplInv, OwnLast
  <2> QED BY <2>1, <2>2
<1>23. TermsBounded'
  <2> SUFFICES ASSUME NEW k \in Server, NEW y \in 1..Len(entries'[k])
               PROVE  entries'[k][y].term <= term'[k]
    BY DEF TermsBounded
  <2>1. CASE k # i
    BY <1>2, <1>4, <2>1 DEF ReplInv, TermsBounded
  <2>2. CASE k = i
    <3>1. entries'[i][y].term = TermIn(r, y) /\ (y \in 0..L \/ y = L + 1)
      BY SMTT(60), <1>5, <1>6, <1>7, <2>2 DEF LogShown
    <3>2. CASE y \in 0..L
      <4>1. TermIn(r, y) = TermIn(w, y) /\ TermIn(w, y) <= term'[i]
        BY <1>7, <1>9, <3>2
      <4> QED BY <2>2, <3>1, <4>1
    <3>3. CASE y = L + 1
      BY SMTT(60), <1>4, <1>7, <2>2, <3>1, <3>3
    <3> QED BY <3>1, <3>2, <3>3
  <2> QED BY <2>1, <2>2
<1>24. msgs \subseteq msgs'
  BY <1>3
<1>25. \A m \in msgs' \ msgs :
         /\ m.type = "MsgAppend"
         /\ state'[m.from] = Leader /\ term'[m.from] = m.term
         /\ Part(m) \in StretchType /\ Cut(Part(m), Log(m.from)')
  BY <1>2, <1>20 DEF IsAppend
<1>26. \A m \in msgs' \ msgs : ~Informs(m) /\ ~IsAck(m) /\ m.type # "MsgAppendResponse"
  BY <1>25 DEF Informs, IsAck
<1>27. \A m \in msgs : IsAppend(m) => Part(m) \in B
  BY <1>8
<1> HIDE DEF B
<1> QED BY <1>15, <1>16, <1>17, <1>18, <1>19, <1>21, <1>22, <1>23, <1>24, <1>25, <1>26,
           <1>27, ReplFrom

\* A follower that accepts an append: what it had of the leader's term it keeps,
\* and what it acknowledges is of that term.
LEMMA MergesRepl ==
  ASSUME TypeOK, ElectionInv, LogInv, ReplInv, TypeOK', NEW m \in msgs, Merges(m)
  PROVE  ReplInv'
<1>1. /\ IsAppend(m) /\ m.to \in Server /\ m.from \in Server /\ m.from # m.to
      /\ \A k \in Server \ {m.to} : entries'[k] = entries[k]
  BY MergeShape
<1>2. /\ \A k \in Server : term[k] \in Nat /\ term'[k] \in Nat /\ term[k] <= term'[k]
      /\ \A k \in Server \ {m.to} : state'[k] = state[k] /\ term'[k] = term[k]
      /\ term[m.to] <= m.term /\ term'[m.to] = m.term /\ m.term \in Nat \ {0}
      /\ state'[m.to] = Follower /\ next' = next /\ match' = match
      /\ state[m.to] = Leader => term[m.to] < m.term
  <2>1. /\ \A k \in Server \ {m.to} : state'[k] = state[k] /\ term'[k] = term[k]
        /\ term[m.to] <= m.term /\ term'[m.to] = m.term
        /\ state'[m.to] = Follower /\ UNCHANGED <<next, match>>
        /\ state[m.to] = Leader => term[m.to] < m.term
    BY DEF Merges
  <2>2. \A k \in Server : term[k] \in Nat /\ term'[k] \in Nat
    BY DEF TypeOK
  <2>3. m.term # 0
    BY <1>1 DEF LogInv, OthersAddressed, IsAppend
  <2> QED BY SMTT(60), <1>1, <2>1, <2>2, <2>3
<1>3. \A k \in Server : LogShown(k) /\ LogShown(k)'
  BY NodeLogs, NodeLogsNext DEF LogsShown
<1>4. PICK w \in Stretches, c \in Stretches, r \in StretchType :
        /\ w = Log(m.to) /\ c = Part(m) /\ r = Log(m.to)'
        /\ Merged(r, w, c) /\ Agree(w, c)
  BY <1>3, AppendPart, MergeShape DEF LogShown
<1>5. /\ Stretches \in SUBSET StretchType
      /\ \A f \in Stretches : Ascends(f) /\ \A g \in Stretches : Runs(f, g)
      /\ \A n \in msgs : IsAppend(n) => Part(n) \in Stretches
  BY StretchesTyped, AppendPart DEF ReplInv, TermsInOrder
<1>6. Ascends(r)
  BY <1>4, <1>5, MergedAscends
<1>7. \A g \in Stretches : Runs(r, g) /\ Runs(g, r)
  BY <1>4, <1>5, MergedRunsFrom, MergedRunsInto
<1>8. Runs(r, r)
  BY <1>4, <1>5, <1>7, MergedRunsFrom
<1> DEFINE B == Stretches \cup {r}
<1>9. B \in SUBSET StretchType /\ \A f \in B : Ascends(f) /\ \A g \in B : Runs(f, g)
  BY <1>5, <1>6, <1>7, <1>8
<1>10. \A k \in Server : Log(k)' \in B
  <2>1. \A k \in Server \ {m.to} : Log(k)' = Log(k) /\ Log(k) \in Stretches
    BY <1>1, <1>3 DEF Log, LogShown
  <2> QED BY <1>4, <2>1
<1>11. /\ c \in StretchType /\ w \in StretchType /\ w.index = 0 /\ r.index = 0
       /\ Last(c) \in Nat /\ Last(w) \in Nat /\ Last(r) \in Nat /\ c.index \in Nat
       /\ c.index <= Last(c) /\ Last(c) <= Last(r) /\ Last(c) \in Shown(c)
       /\ Last(r) = Len(entries'[m.to]) /\ Last(w) = Len(entries[m.to])
       /\ TermIn(c, Last(c)) = m.term
  <2>1. c \in StretchType /\ w \in StretchType
    BY <1>5
  <2>2. TermIn(c, Last(c)) = m.term
    BY <1>1, <1>4 DEF ReplInv, OwnLast
  <2>3. w.index = 0 /\ r.index = 0 /\ Last(c) <= Last(r)
    BY <1>4 DEF Merged
  <2>4. Last(r) = Len(entries'[m.to]) /\ Last(w) = Len(entries[m.to])
    BY <1>1, <1>3, <1>4 DEF LogShown
  <2>5. /\ Last(c) \in Nat /\ Last(w) \in Nat /\ Last(r) \in Nat /\ c.index \in Nat
        /\ c.index <= Last(c)
    BY <2>1, ViewType
  <2> QED BY SMTT(60), <2>1, <2>2, <2>3, <2>4, <2>5 DEF Shown
<1>12. \A y \in Shown(r) : TermIn(r, y) \in Nat /\ TermIn(r, y) <= m.term
  <2>1. ASSUME NEW y \in Shown(w)
        PROVE  TermIn(w, y) \in Nat /\ TermIn(w, y) <= m.term
    <3>1. TermIn(w, y) \in Nat
      BY <1>11, ViewType
    <3>2. y = 0 \/ y \in 1..Len(entries[m.to])
      BY SMTT(60), <1>11 DEF Shown
    <3>3. TermIn(w, 0) = 0
      BY <1>1, <1>3, <1>4 DEF LogShown
    <3>4. y \in 1..Len(entries[m.to]) => TermIn(w, y) <= term[m.to]
      BY <1>1, <1>3, <1>4 DEF ReplInv, TermsBounded, LogShown
    <3> QED BY SMTT(60), <1>1, <1>2, <3>1, <3>2, <3>3, <3>4
  <2>2. ASSUME NEW y \in Shown(c)
        PROVE  TermIn(c, y) \in Nat /\ TermIn(c, y) <= m.term
    <3>1. y <= Last(c) /\ TermIn(c, y) \in Nat
      BY SMTT(60), <1>11, ViewType DEF Shown
    <3> QED BY <1>5, <1>11, <3>1 DEF Ascends
  <2> SUFFICES ASSUME NEW y \in Shown(r)
               PROVE  TermIn(r, y) \in Nat /\ TermIn(r, y) <= m.term
    OBVIOUS
  <2>3. CASE r = w
    BY <2>1, <2>3
  <2>4. CASE Last(r) = Last(c)
    <3>1. y \in Shown(c) \/ (y \in 0..c.index /\ y \in Shown(w))
      <4>1. c.index <= Last(w)
        BY <1>4 DEF Merged
      <4> QED BY SMTT(60), <1>11, <2>4, <4>1 DEF Shown
    <3>2. /\ y \in Shown(c) => TermIn(r, y) = TermIn(c, y)
          /\ y \in 0..c.index => TermIn(r, y) = TermIn(w, y)
      BY <1>4 DEF Merged
    <3> QED BY <2>1, <2>2, <3>1, <3>2
  <2> QED BY <1>4, <2>3, <2>4 DEF Merged
<1>13. TermIn(r, Last(r)) = m.term /\ Last(r) >= 1
  <2>1. TermIn(r, Last(c)) = m.term
    BY <1>4, <1>11 DEF Merged
  <2>2. Last(c) \in Shown(r) /\ Last(r) \in Shown(r)
    BY SMTT(60), <1>11 DEF Shown
  <2>3. m.term <= TermIn(r, Last(r))
    BY <1>6, <1>11, <2>1, <2>2 DEF Ascends
  <2>4. TermIn(r, Last(r)) = m.term
    BY SMTT(60), <1>2, <1>12, <2>2, <2>3
  <2>5. TermIn(r, 0) = 0
    BY <1>1, <1>3, <1>4 DEF LogShown
  <2> QED BY SMTT(60), <1>2, <1>11, <2>4, <2>5
<1>14. ASSUME state'[m.from] = Leader, term'[m.from] = m.term
       PROVE  Last(r) <= Len(entries'[m.from])
  <2>1. state[m.from] = Leader /\ term[m.from] = m.term /\ entries'[m.from] = entries[m.from]
    BY <1>1, <1>2, <1>14
  <2>2. CASE Last(r) = Last(c)
    BY <1>1, <1>4, <2>1, <2>2 DEF ReplInv, AppendsWithin
  <2>3. CASE r = w
    <3>1. /\ Last(w) \in DOMAIN entries[m.to] /\ entries[m.to][Last(w)].term = m.term
      <4>1. Last(w) \in 1..Len(entries[m.to]) /\ TermIn(w, Last(w)) = m.term
        BY SMTT(60), <1>11, <1>13, <2>3
      <4>2. entries[m.to] \in Seq(Entry)
        BY <1>1 DEF TypeOK
      <4> QED BY <1>1, <1>3, <1>4, <4>1, <4>2, SeqShape DEF LogShown
    <3>2. w.entries = entries[m.to] /\ w.index = 0
      BY <1>4 DEF Log, Stretch
    <3>3. w.index + Last(w) <= Len(entries[m.from])
      BY <1>1, <2>1, <3>1, <3>2 DEF LogInv, LeaderCreatedAll
    <3> QED BY SMTT(60), <1>11, <2>1, <2>3, <3>3
  <2> QED BY <1>4, <2>2, <2>3 DEF Merged
<1>15. /\ msgs \subseteq msgs'
       /\ \A n \in msgs' \ msgs :
            /\ n.type = "MsgAppendResponse" /\ ~n.reject /\ n.from = m.to /\ n.to = m.from
            /\ n.term = m.term /\ n.index = Last(r)
  BY <1>11, MergeSends DEF IsAck
<1>16. \A n \in msgs' \ msgs : ~IsAppend(n) /\ ~(n.type = "MsgAppendResponse" /\ n.reject)
  BY <1>15 DEF IsAppend
<1>17. \A n \in msgs' \ msgs :
         /\ SentAppend(n.to, n.term) /\ n.term = term'[n.from]
         /\ state'[n.to] = Leader /\ term'[n.to] = n.term => n.index <= Len(entries'[n.to])
  <2>1. SentAppend(m.from, m.term)
    BY <1>1 DEF SentAppend
  <2> QED BY <1>2, <1>14, <1>15, <2>1
<1>18. \A n \in msgs' \ msgs : n.index >= 1 /\ Holds(n.from, n.index, n.term)'
  <2>1. Last(r) \in 1..Len(entries'[m.to]) /\ entries'[m.to][Last(r)].term = m.term
    BY SMTT(60), <1>1, <1>3, <1>4, <1>13 DEF LogShown
  <2> QED BY <1>13, <1>15, <2>1 DEF Holds
<1>19. \A k \in Server : state[k] = Leader /\ term'[k] = term[k] =>
         Len(entries[k]) <= Len(entries'[k])
  <2> QED BY SMTT(60), <1>1, <1>2
<1>20. ASSUME NEW k \in Server, NEW y \in 1..Len(entries[k]), term'[k] = term[k],
              Holds(k, y, term[k])
       PROVE  Holds(k, y, term[k])'
  <2>1. CASE k # m.to
    BY <1>1, <1>20, <2>1 DEF Holds
  <2>2. CASE k = m.to
    <3>1. y \in Held(w) /\ TermIn(w, y) = m.term
      BY <1>2, <1>3, <1>4, <1>20, <2>2 DEF Holds, LogShown
    <3>2. y \in Held(r) /\ TermIn(r, y) = m.term
      BY SMTT(60), <1>4, <1>5, <1>11, <3>1, MergedKeeps
    <3>3. y \in 1..Len(entries'[k]) /\ entries'[k][y].term = m.term
      BY <1>3, <1>4, <2>2, <3>2 DEF LogShown
    <3> QED BY <1>2, <2>2, <3>3 DEF Holds
  <2> QED BY <2>1, <2>2
<1>21. OwnProgress'
  BY <1>1, <1>2 DEF ReplInv, OwnProgress, Leader, Follower
<1>22. MatchAcked'
  BY SMTT(60), <1>2, <1>15 DEF ReplInv, MatchAcked
<1>23. \A k \in Server : state'[k] = Leader => LastTerm(entries'[k]) = term'[k]
  BY <1>1, <1>2 DEF ReplInv, OwnLast, Leader, Follower
<1>24. TermsBounded'
  <2> SUFFICES ASSUME NEW k \in Server, NEW y \in 1..Len(entries'[k])
               PROVE  entries'[k][y].term <= term'[k]
    BY DEF TermsBounded
  <2>1. CASE k # m.to
    BY <1>1, <1>2, <2>1 DEF ReplInv, TermsBounded
  <2>2. CASE k = m.to
    <3>1. y \in Shown(r) /\ entries'[k][y].term = TermIn(r, y)
      BY SMTT(60), <1>3, <1>4, <2>2 DEF LogShown
    <3> QED BY <1>2, <1>12, <2>2, <3>1
  <2> QED BY <2>1, <2>2
<1>25. \A n \in msgs : IsAppend(n) => Part(n) \in B
  BY <1>5
<1>26. /\ msgs \subseteq msgs' /\ \A k \in Server : term[k] <= term'[k]
       /\ \A n \in msgs' \ msgs : Informs(n) =>
            /\ SentAppend(n.to, n.term) /\ n.term = term'[n.from]
            /\ state'[n.to] = Leader /\ term'[n.to] = n.term => n.index <= Len(entries'[n.to])
       /\ \A n \in msgs' \ msgs : IsAck(n) => n.index >= 1 /\ Holds(n.from, n.index, n.term)'
  BY <1>2, <1>15, <1>17, <1>18
<1> HIDE DEF B
<1> QED BY <1>9, <1>10, <1>16, <1>19, <1>20, <1>21, <1>22, <1>23, <1>24, <1>25, <1>26,
           ReplFrom

-----------------------------------------------------------------------------
(* The theorems *)

\* Nothing is in the logs and nothing was sent.
LEMMA ReplInit ==
  ASSUME Init
  PROVE  ReplInv
<1>1. /\ \A i \in Server : entries[i] = <<>> /\ state[i] = Follower
      /\ \A i, j \in Server : match[i][j] = 0
      /\ msgs = {}
  BY DEF Init
<1>2. \A f \in Stretches : f.index = 0 /\ f.logTerm = 0 /\ f.entries = <<>>
  BY SMTT(60), <1>1 DEF Stretches, Stretch
<1>4. \A f \in Stretches : Shown(f) = {0} /\ Held(f) = {} /\ TermIn(f, 0) = 0
  BY SMTT(60), <1>2 DEF Shown, Held, TermIn, Last
<1>5. TermsInOrder
  BY SMTT(60), <1>4 DEF TermsInOrder, Ascends, Runs
<1>6. TermsBounded
  BY SMTT(60), <1>1 DEF TermsBounded
<1> QED BY <1>1, <1>5, <1>6
        DEF ReplInv, OwnLast, OwnProgress, AppendsWithin, AnswersWithin, AcksHeld,
            RefusalTerms, MatchAcked, Leader, Follower

\* Every step keeps the replication invariant.
LEMMA ReplStep ==
  ASSUME Counting, TypeOK, ElectionInv, LogInv, ReplInv, TypeOK', ElectionInv', Moves
  PROVE  ReplInv'
BY SendsRepl, HearsRepl, CreatesRepl, MergesRepl DEF Moves

\* A leader and a node that acknowledged an entry to it in its term agree up to
\* the entry.
LEMMA AckedAgrees ==
  ASSUME TypeOK, ElectionInv, LogInv, ReplInv, NEW i \in Server, state[i] = Leader,
         NEW m \in msgs, IsAck(m), m.to = i, m.term = term[i], term[m.from] = term[i]
  PROVE  /\ m.index \in 1..Len(entries[i]) /\ m.index \in 1..Len(entries[m.from])
         /\ entries[m.from][m.index].term = term[i] /\ entries[i][m.index].term = term[i]
         /\ \A l \in 1..m.index : entries[m.from][l] = entries[i][l]
<1>1. m.from \in Server /\ m.index \in Nat /\ term[i] \in Nat
      /\ entries[i] \in Seq(Entry) /\ entries[m.from] \in Seq(Entry)
  BY MessageFields DEF TypeOK
<1>2. LogShown(i) /\ LogShown(m.from)
  BY <1>1, NodeLogs DEF LogsShown
<1>3. m.index \in 1..Len(entries[m.from]) /\ entries[m.from][m.index].term = term[i]
  BY DEF ReplInv, AcksHeld, Holds
<1>4. m.index <= Len(entries[i])
  BY DEF ReplInv, AnswersWithin, Informs, IsAck
<1>5. m.index \in 1..Len(entries[i])
  BY SMTT(60), <1>3, <1>4
<1>6. entries[i][m.index].term = term[i]
  <2>1. /\ m.index \in Held(Log(m.from)) /\ TermIn(Log(m.from), m.index) = term[i]
        /\ m.index \in Shown(Log(i)) /\ Len(entries[i]) \in Shown(Log(i))
        /\ TermIn(Log(i), m.index) = entries[i][m.index].term
    BY SMTT(60), <1>2, <1>3, <1>5 DEF LogShown
  <2>2. TermIn(Log(i), Len(entries[i])) = term[i]
    BY <1>2 DEF ReplInv, OwnLast, LogShown
  <2>3. Runs(Log(m.from), Log(i)) /\ m.index <= m.index
    BY SMTT(60), <1>1, <1>2 DEF ReplInv, TermsInOrder, LogShown
  <2> QED BY <1>4, <2>1, <2>2, <2>3 DEF Runs
<1>7. ASSUME NEW l \in 1..m.index
      PROVE  entries[m.from][l] = entries[i][l]
  <2>1. entries[i][m.index].term = entries[m.from][m.index].term
    BY <1>3, <1>6
  <2>2. m.index <= Len(entries[m.from])
    BY SMTT(60), <1>3
  <2> QED BY <1>1, <1>5, <2>1, <2>2, LogsAgreeAt
<1> QED BY <1>3, <1>5, <1>6, <1>7

\* Equal prefixes.
LEMMA SamePrefix ==
  ASSUME NEW s \in Seq(Entry), NEW t \in Seq(Entry), NEW n \in Nat,
         n <= Len(s), n <= Len(t), \A l \in 1..n : s[l] = t[l]
  PROVE  SubSeq(s, 1, n) = SubSeq(t, 1, n)
<1>1. /\ SubSeq(s, 1, n) = [l \in 1..n |-> s[l]]
      /\ SubSeq(t, 1, n) = [l \in 1..n |-> t[l]]
  BY SMTT(60)
<1> QED BY <1>1

\* Only a leader of the other nodes' term asks another node to take over.
LEMMA HandoverKind ==
  ASSUME Moves,
         NEW m \in msgs' \ msgs, m.type = "MsgTimeoutNow"
  PROVE  /\ m.from \in Server /\ m.to \in Server /\ m.from # m.to
         /\ state[m.from] = Leader /\ match'[m.from][m.to] = Len(entries[m.from])
         /\ MatchTracks(m.from, m.to)
<1>1. /\ \A i, j, t, e, c, n : m # AppendMsg(i, j, t, e, c, n)
      /\ \A i, j, t, r, l, x : m # AppendResponseMsg(i, j, t, r, l, x)
  <2>1. \A i, j, t, e, c, n : AppendMsg(i, j, t, e, c, n).type = "MsgAppend"
    BY DEF AppendMsg, Msg
  <2>2. \A i, j, t, r, l, x : AppendResponseMsg(i, j, t, r, l, x).type = "MsgAppendResponse"
    BY DEF AppendResponseMsg, Msg
  <2> QED BY <2>1, <2>2
<1>2. ~\E i \in Server : Hears(i)
  BY DEF Hears
<1>3. ~\E i \in Server : Creates(i)
  <2> SUFFICES ASSUME NEW i \in Server, Creates(i)
               PROVE  FALSE
    OBVIOUS
  <2>1. msgs' = msgs \cup {AppendMsg(i, j, term'[i], entries'[i], commited'[i], next'[i][j]) :
                             j \in Server \ {i}}
    BY DEF Creates
  <2> QED BY <1>1, <2>1
<1>4. ~\E n \in msgs : Merges(n)
  <2> SUFFICES ASSUME NEW n \in msgs, Merges(n)
               PROVE  FALSE
    OBVIOUS
  <2>1. msgs' = msgs \cup {AppendResponseMsg(n.to, n.from, n.term, FALSE, 0,
                                             Len(Merge(entries[n.to], n)))}
    BY DEF Merges
  <2> QED BY <1>1, <2>1
<1>5. Sends
  BY <1>2, <1>3, <1>4 DEF Moves
<1>6. HandsTo(m)
  BY SMTT(60), <1>1, <1>5 DEF Sends
<1> QED BY <1>5, <1>6 DEF HandsTo, Sends

\* A node that acknowledged the whole log of a leader of its own term has no
\* more than that log.
LEMMA WholeLog ==
  ASSUME TypeOK, ElectionInv, LogInv, ReplInv, NEW i \in Server, state[i] = Leader,
         NEW m \in msgs, IsAck(m), m.to = i, m.term = term[i], term[m.from] = term[i],
         m.index = Len(entries[i])
  PROVE  entries[m.from] = entries[i]
<1>1. PICK j \in Server : j = m.from
  BY MessageFields DEF TypeOK
<1>2. /\ m.index \in 1..Len(entries[i]) /\ m.index \in 1..Len(entries[j])
      /\ entries[j][m.index].term = term[i]
      /\ \A l \in 1..m.index : entries[j][l] = entries[i][l]
  BY <1>1, AckedAgrees
<1>3. LogShown(j) /\ LogShown(i)
  BY NodeLogs DEF LogsShown
<1>4. /\ entries[i] \in Seq(Entry) /\ entries[j] \in Seq(Entry) /\ term[i] \in Nat
      /\ Len(entries[j]) \in Nat /\ Len(entries[i]) \in Nat
  BY <1>3 DEF TypeOK, LogShown
<1>5. Len(entries[j]) \in 1..Len(entries[j]) /\ entries[j][Len(entries[j])].term = term[i]
  <2>1. Len(entries[j]) \in 1..Len(entries[j])
    BY SMTT(60), <1>2
  <2>2. entries[j][Len(entries[j])].term \in Nat
    BY <1>3, <2>1 DEF LogShown
  <2>3. entries[j][Len(entries[j])].term <= term[i]
    BY <1>1, <2>1 DEF ReplInv, TermsBounded
  <2>4. /\ m.index \in Shown(Log(j)) /\ Len(entries[j]) \in Shown(Log(j))
        /\ TermIn(Log(j), m.index) = term[i]
        /\ TermIn(Log(j), Len(entries[j])) = entries[j][Len(entries[j])].term
    BY SMTT(60), <1>2, <1>3, <2>1 DEF LogShown
  <2>5. Ascends(Log(j)) /\ m.index <= Len(entries[j])
    BY SMTT(60), <1>2, <1>3 DEF ReplInv, TermsInOrder, LogShown
  <2>6. term[i] <= entries[j][Len(entries[j])].term
    BY <2>4, <2>5 DEF Ascends
  <2> QED BY SMTT(60), <1>4, <2>1, <2>2, <2>3, <2>6
<1>6. Len(entries[j]) <= Len(entries[i])
  <2>1. /\ Log(j) \in Stretches /\ Log(j).index = 0 /\ Log(j).entries = entries[j]
    BY <1>3 DEF LogShown, Log, Stretch
  <2>3. 0 + Len(entries[j]) <= Len(entries[i])
    BY SMTT(60), <1>5, <2>1 DEF LogInv, LeaderCreatedAll
  <2> QED BY SMTT(60), <2>3
<1>7. Len(entries[j]) = Len(entries[i])
  BY SMTT(60), <1>2, <1>6
<1>8. \A l \in 1..Len(entries[j]) : entries[j][l] = entries[i][l]
  BY <1>2, <1>7
<1>9. /\ entries[j] = [l \in 1..Len(entries[j]) |-> entries[j][l]]
      /\ entries[i] = [l \in 1..Len(entries[i]) |-> entries[i][l]]
  BY SMTT(60), <1>4
<1> QED BY <1>1, <1>7, <1>8, <1>9
=============================================================================
