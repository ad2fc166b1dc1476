--------------------------- MODULE StretchProofs ----------------------------
(***************************************************************************)
(* Facts about states and about stretches of logs that all later proofs    *)
(* use: how stretches agree, what Merge, SubSeq and Append make of them,   *)
(* which terms they show, and who has led the terms.                       *)
(***************************************************************************)
EXTENDS RaftInvariants, TLAPS

\* A leaf is Zenon's unless it names the SMT solver, for arithmetic.
USE ZenonT(60)

-----------------------------------------------------------------------------
(* Sequences *)

\* A sequence is a function on the numbers up to its length,
LEMMA SeqShape ==
  ASSUME NEW S, NEW s \in Seq(S)
  PROVE  Len(s) \in Nat /\ DOMAIN s = 1..Len(s) /\ s \in [1..Len(s) -> S]
BY SMTT(60)

\* with elements of the set it is over.
LEMMA SeqElement ==
  ASSUME NEW S, NEW s \in Seq(S), NEW n \in 1..Len(s)
  PROVE  s[n] \in S
BY SMTT(60)

\* Append adds one element at the end,
LEMMA AppendShape ==
  ASSUME NEW S, NEW s \in Seq(S), NEW x \in S
  PROVE  /\ Append(s, x) \in Seq(S) /\ Len(Append(s, x)) = Len(s) + 1
         /\ Append(s, x)[Len(s) + 1] = x
         /\ \A n \in 1..Len(s) : Append(s, x)[n] = s[n]
BY SMTT(60)

-----------------------------------------------------------------------------
(* Sizes *)

\* The size of a set of nodes is a number, at most the size of the cluster,
LEMMA SizesOfSets ==
  ASSUME Counting, NEW S \in SUBSET Server
  PROVE  /\ Cardinality(S) \in Nat /\ Cardinality(Server) \in Nat
         /\ Cardinality(S) <= Cardinality(Server)
BY DEF Counting

\* and grows with the set;
LEMMA LargerSet ==
  ASSUME Counting, NEW T \in SUBSET Server, NEW S \in SUBSET T
  PROVE  Cardinality(S) <= Cardinality(T)
BY DEF Counting

\* two majorities have a node in common.
LEMMA MajoritiesMeet ==
  ASSUME Counting, NEW S \in SUBSET Server, NEW T \in SUBSET Server,
         Cardinality(S) + Cardinality(T) > Cardinality(Server)
  PROVE  \E k \in Server : k \in S /\ k \in T
BY DEF Counting

\* A cluster of one node is that node.
LEMMA OnlyNode ==
  ASSUME Counting, NEW i \in Server, Cardinality(Server) = 1
  PROVE  Server = {i}
<1>1. ASSUME NEW j \in Server, j # i
      PROVE  FALSE
  <2>1. Cardinality({i, j}) = 2
    BY <1>1 DEF Counting
  <2>2. Cardinality({i, j}) <= Cardinality(Server)
    BY SizesOfSets
  <2> QED BY SMTT(60), <2>1, <2>2
<1> QED BY <1>1

-----------------------------------------------------------------------------
(* Type correctness *)

\* What SendAppend copies from the log is a list of entries.
LEMMA SuffixType ==
  ASSUME NEW ents \in Seq(Entry), NEW n \in Nat \ {0}
  PROVE  SubSeq(ents, n, Len(ents)) \in Seq(Entry)
<1>1. CASE n <= Len(ents) + 1
  BY SMTT(60), <1>1
<1>2. CASE n > Len(ents) + 1
  BY SMTT(60), <1>2
<1> QED BY SMTT(60)

\* RaftLog::Term returns a term.
LEMMA TermAtType ==
  ASSUME NEW ents \in Seq(Entry), NEW n \in Int
  PROVE  TermAt(ents, n) \in Nat
<1>1. CASE n \in 1..Len(ents)
  <2>1. ents[n] \in Entry
    BY SMTT(60), <1>1
  <2> QED BY <2>1 DEF TermAt, Entry
<1>2. CASE n \notin 1..Len(ents)
  BY <1>2 DEF TermAt
<1> QED BY <1>1, <1>2

\* The loop of HandleAppendEntries leaves a log, once m.index is in the log.
LEMMA MergeType ==
  ASSUME NEW ents \in Seq(Entry), NEW m \in Message, m.index <= Len(ents)
  PROVE  Merge(ents, m) \in Seq(Entry)
<1> DEFINE last == m.index + Len(m.entries)
           Agrees(k) == \A l \in (m.index + 1)..k :
                          /\ l <= Len(ents)
                          /\ ents[l].term = m.entries[l - m.index].term
           Pick(k) == IF Agrees(k) THEN ents[k] ELSE m.entries[k - m.index]
<1>1. m.index \in Nat /\ m.entries \in Seq(Entry)
  BY DEF Message
<1>2. Len(ents) \in Nat /\ Len(m.entries) \in Nat /\ last \in Nat
  BY SMTT(60), <1>1, SeqShape
<1>3. ASSUME NEW k \in 1..last
      PROVE  Pick(k) \in Entry
  <2>1. CASE Agrees(k)
    <3>1. k \in 1..Len(ents)
      <4>1. CASE k <= m.index
        BY SMTT(60), <4>1, <1>1
      <4>2. CASE k > m.index
        <5>1. k \in (m.index + 1)..k
          BY SMTT(60), <4>2, <1>1
        <5> QED BY SMTT(60), <5>1, <2>1
      <4> QED BY SMTT(60), <4>2, <1>1
    <3>2. ents[k] \in Entry
      BY SMTT(60), <3>1
    <3> QED BY <2>1, <3>2
  <2>2. CASE ~Agrees(k)
    <3>1. k - m.index \in 1..Len(m.entries)
      <4>1. PICK l \in (m.index + 1)..k : ~(/\ l <= Len(ents)
                           /\ ents[l].term = m.entries[l - m.index].term)
        BY <2>2
      <4> QED BY SMTT(60), <1>1
    <3>2. m.entries[k - m.index] \in Entry
      BY SMTT(60), <3>1, <1>1
    <3> QED BY <2>2, <3>2
  <2> QED BY <2>1, <2>2
<1>4. Merge(ents, m) = IF Agrees(last) THEN ents ELSE [k \in 1..last |-> Pick(k)]
  BY DEF Merge
<1> HIDE DEF Agrees, Pick, last
<1>5. [k \in 1..last |-> Pick(k)] \in Seq(Entry)
  BY SMTT(60), <1>2, <1>3
<1> QED BY <1>4, <1>5

\* The fields of a stretch,
LEMMA StretchFields ==
  ASSUME NEW a, NEW t, NEW e
  PROVE  /\ Stretch(a, t, e).index = a
         /\ Stretch(a, t, e).logTerm = t
         /\ Stretch(a, t, e).entries = e
BY DEF Stretch

\* and their types.
LEMMA StretchHasType ==
  ASSUME NEW a \in Nat, NEW t \in Nat, NEW e \in Seq(Entry)
  PROVE  Stretch(a, t, e) \in StretchType
BY DEF Stretch, StretchType

\* What Agree says, without the bound on the index.
LEMMA AgreeAt ==
  ASSUME NEW f \in StretchType, NEW g \in StretchType, Agree(f, g),
         NEW k \in Nat, Covers(f, k), Covers(g, k),
         f.entries[k - f.index].term = g.entries[k - g.index].term
  PROVE  /\ \A l \in Nat : l > f.index /\ l > g.index /\ l <= k =>
                             f.entries[l - f.index] = g.entries[l - g.index]
         /\ f.index = g.index => f.logTerm = g.logTerm
         /\ f.index < g.index => f.entries[g.index - f.index].term = g.logTerm
         /\ g.index < f.index => g.entries[f.index - g.index].term = f.logTerm
<1>1. /\ f.index \in Nat /\ g.index \in Nat
      /\ Len(f.entries) \in Nat /\ Len(g.entries) \in Nat
  BY SeqShape DEF StretchType
<1>2. k \in 1..(f.index + Len(f.entries))
  BY SMTT(60), <1>1 DEF Covers
<1>3. /\ \A l \in 1..k : l > f.index /\ l > g.index =>
                           f.entries[l - f.index] = g.entries[l - g.index]
      /\ f.index = g.index => f.logTerm = g.logTerm
      /\ f.index < g.index => f.entries[g.index - f.index].term = g.logTerm
      /\ g.index < f.index => g.entries[f.index - g.index].term = f.logTerm
  BY <1>2 DEF Agree
<1>4. \A l \in Nat : l > f.index /\ l <= k => l \in 1..k
  BY SMTT(60), <1>1
<1> QED BY <1>3, <1>4

\* And how to show it.
LEMMA AgreeIf ==
  ASSUME NEW f \in StretchType, NEW g \in StretchType,
         ASSUME NEW k \in Nat, Covers(f, k), Covers(g, k),
                f.entries[k - f.index].term = g.entries[k - g.index].term
         PROVE  /\ \A l \in Nat : l > f.index /\ l > g.index /\ l <= k =>
                                    f.entries[l - f.index] = g.entries[l - g.index]
                /\ f.index = g.index => f.logTerm = g.logTerm
                /\ f.index < g.index => f.entries[g.index - f.index].term = g.logTerm
                /\ g.index < f.index => g.entries[f.index - g.index].term = f.logTerm
  PROVE  Agree(f, g)
<1>1. \A k \in 1..(f.index + Len(f.entries)) : k \in Nat /\ \A l \in 1..k : l \in Nat /\ l <= k
  BY SMTT(60)
<1> QED BY <1>1 DEF Agree

\* A stretch agrees with itself,
LEMMA AgreeSelf ==
  ASSUME NEW f \in StretchType
  PROVE  Agree(f, f)
<1>1. f.index \in Nat
  BY DEF StretchType
<1> QED BY SMTT(60), <1>1 DEF Agree

\* and agreement has no direction.
LEMMA AgreeSymmetric ==
  ASSUME NEW f \in StretchType, NEW g \in StretchType, Agree(f, g)
  PROVE  Agree(g, f)
<1> SUFFICES ASSUME NEW k \in Nat, Covers(g, k), Covers(f, k),
                    g.entries[k - g.index].term = f.entries[k - f.index].term
             PROVE  /\ \A l \in Nat : l > g.index /\ l > f.index /\ l <= k =>
                                    g.entries[l - g.index] = f.entries[l - f.index]
                    /\ g.index = f.index => g.logTerm = f.logTerm
                    /\ g.index < f.index => g.entries[f.index - g.index].term = f.logTerm
                    /\ f.index < g.index => f.entries[g.index - f.index].term = g.logTerm
  BY AgreeIf
<1> QED BY AgreeAt

\* An empty stretch agrees with every other.
LEMMA AgreeEmpty ==
  ASSUME NEW f \in StretchType, NEW g \in StretchType, Len(f.entries) = 0
  PROVE  Agree(f, g)
<1>1. f.index \in Nat
  BY DEF StretchType
<1>2. \A k \in 1..(f.index + Len(f.entries)) : ~Covers(f, k)
  BY SMTT(60), <1>1 DEF Covers
<1> QED BY <1>2 DEF Agree

\* SendAppend: the end of a log agrees with what the log agrees with.
LEMMA SuffixAgrees ==
  ASSUME NEW e \in Seq(Entry), NEW n \in Nat \ {0}, NEW g \in StretchType,
         Agree(Stretch(0, 0, e), g)
  PROVE  Suffix(e, n) \in StretchType /\ Agree(Suffix(e, n), g)
<1> DEFINE w == Stretch(0, 0, e)
           s == Suffix(e, n)
<1>1. Len(e) \in Nat /\ n - 1 \in Nat /\ TermAt(e, n - 1) \in Nat
  BY SMTT(60), TermAtType
<1>2. /\ w \in StretchType /\ w.index = 0 /\ w.logTerm = 0 /\ w.entries = e
  BY SMTT(60), StretchFields, StretchHasType
<1>3. s \in StretchType
  BY <1>1, SuffixType, StretchHasType DEF Suffix
<1>4. /\ s.index = n - 1 /\ s.logTerm = TermAt(e, n - 1)
      /\ s.entries = SubSeq(e, n, Len(e))
  BY DEF Suffix, Stretch
<1>5. g.index \in Nat /\ Len(g.entries) \in Nat
  BY SeqShape DEF StretchType
<1> HIDE DEF w, s
<1>6. CASE n > Len(e)
  <2>1. Len(s.entries) = 0
    BY SMTT(60), <1>4, <1>6
  <2> QED BY <1>3, <2>1, AgreeEmpty DEF s
<1>7. CASE n <= Len(e)
  <2>1. /\ Len(s.entries) = Len(e) - (n - 1)
        /\ \A k \in n..Len(e) : s.entries[k - (n - 1)] = e[k]
    <3>1. Len(SubSeq(e, n, Len(e))) = Len(e) - (n - 1)
      BY SMTT(60), <1>7
    <3> QED BY SMTT(60), <1>4, <3>1
  <2>2. ASSUME NEW k \in Nat, Covers(s, k), Covers(g, k),
               s.entries[k - s.index].term = g.entries[k - g.index].term
        PROVE  /\ \A l \in Nat : l > s.index /\ l > g.index /\ l <= k =>
                                   s.entries[l - s.index] = g.entries[l - g.index]
               /\ s.index = g.index => s.logTerm = g.logTerm
               /\ s.index < g.index => s.entries[g.index - s.index].term = g.logTerm
               /\ g.index < s.index => g.entries[s.index - g.index].term = s.logTerm
    <3>1. k \in n..Len(e) /\ k > g.index
      <4>1. /\ k \in (s.index + 1)..(s.index + Len(s.entries))
            /\ k \in (g.index + 1)..(g.index + Len(g.entries))
        BY <2>2 DEF Covers
      <4>2. s.index + 1 = n /\ s.index + Len(s.entries) = Len(e)
        BY SMTT(60), <1>4, <2>1
      <4> QED BY SMTT(60), <1>5, <4>1, <4>2
    <3>2. Covers(w, k) /\ w.entries[k - w.index].term = g.entries[k - g.index].term
      <4>1. s.entries[k - s.index] = e[k]
        BY SMTT(60), <1>4, <3>1
      <4> QED BY SMTT(60), <1>2, <2>2, <3>1, <4>1 DEF Covers
    <3>3. /\ \A l \in Nat : l > 0 /\ l > g.index /\ l <= k =>
                              e[l - 0] = g.entries[l - g.index]
          /\ 0 = g.index => 0 = g.logTerm
          /\ 0 < g.index => e[g.index - 0].term = g.logTerm
      <4>1. Agree(w, g)
        BY DEF w
      <4>2. /\ \A l \in Nat : l > w.index /\ l > g.index /\ l <= k =>
                                w.entries[l - w.index] = g.entries[l - g.index]
            /\ w.index = g.index => w.logTerm = g.logTerm
            /\ w.index < g.index => w.entries[g.index - w.index].term = g.logTerm
        BY <1>2, <2>2, <3>2, <4>1, AgreeAt
      <4> QED BY <1>2, <4>2
    <3>4. /\ \A l \in Nat : l - 0 = l
          /\ n - 1 \in Nat /\ (n - 1 = 0 => TermAt(e, n - 1) = 0)
          /\ (n - 1 > 0 => TermAt(e, n - 1) = e[n - 1].term)
      BY SMTT(60), <1>7 DEF TermAt
    <3>5. ASSUME NEW l \in Nat, l > s.index, l > g.index, l <= k
          PROVE  s.entries[l - s.index] = g.entries[l - g.index]
      <4>1. l \in n..Len(e) /\ l > 0
        BY SMTT(60), <1>4, <3>1, <3>5
      <4>2. s.entries[l - s.index] = e[l]
        BY SMTT(60), <1>4, <4>1
      <4> QED BY SMTT(60), <3>3, <3>5, <4>1, <4>2
    <3>6. s.index = g.index => s.logTerm = g.logTerm
      BY SMTT(60), <1>4, <3>3, <3>4
    <3>7. ASSUME s.index < g.index
          PROVE  s.entries[g.index - s.index].term = g.logTerm
      <4>1. g.index \in n..Len(e) /\ 0 < g.index
        BY SMTT(60), <1>4, <1>5, <3>1, <3>7
      <4>2. s.entries[g.index - s.index] = e[g.index]
        BY <1>4, <2>1, <4>1
      <4> QED BY SMTT(60), <3>3, <4>1, <4>2
    <3>8. ASSUME g.index < s.index
          PROVE  g.entries[s.index - g.index].term = s.logTerm
      <4>1. n - 1 > 0 /\ n - 1 > g.index /\ n - 1 <= k
        BY SMTT(60), <1>4, <1>5, <3>1, <3>8
      <4>2. e[n - 1] = g.entries[(n - 1) - g.index]
        BY SMTT(60), <3>3, <4>1
      <4> QED BY <1>4, <3>4, <4>1, <4>2
    <3> QED BY <3>5, <3>6, <3>7, <3>8
  <2>3. Agree(s, g)
    BY <1>3, <2>2, AgreeIf
  <2> QED BY <1>3, <2>3 DEF s
<1> QED BY SMTT(60), <1>6, <1>7

\* A new entry: a log that gets an entry no other stretch holds still agrees.
LEMMA AppendAgrees ==
  ASSUME NEW e \in Seq(Entry), NEW x \in Entry, NEW g \in StretchType,
         Agree(Stretch(0, 0, e), g),
         \A l \in DOMAIN g.entries :
           g.entries[l].term = x.term => g.index + l <= Len(e)
  PROVE  Agree(Stretch(0, 0, Append(e, x)), g)
<1> DEFINE w == Stretch(0, 0, e)
           r == Stretch(0, 0, Append(e, x))
<1>1. Len(e) \in Nat /\ g.index \in Nat /\ Len(g.entries) \in Nat /\ g.entries \in Seq(Entry)
  BY SeqShape DEF StretchType
<1>2. w \in StretchType /\ w.index = 0 /\ w.logTerm = 0 /\ w.entries = e
  BY SMTT(60), StretchFields, StretchHasType
<1>3. Append(e, x) \in Seq(Entry)
  BY AppendShape
<1>4. r \in StretchType /\ r.index = 0 /\ r.logTerm = 0 /\ r.entries = Append(e, x)
  <2>1. r \in StretchType
    BY <1>3, StretchHasType
  <2> QED BY <2>1 DEF Stretch
<1>5. /\ Len(r.entries) = Len(e) + 1 /\ r.entries[Len(e) + 1] = x
      /\ \A l \in 1..Len(e) : r.entries[l] = e[l]
  BY SMTT(60), <1>4, AppendShape
<1>6. Agree(w, g)
  OBVIOUS
<1> HIDE DEF w, r
<1>7. ASSUME NEW k \in Nat, Covers(r, k), Covers(g, k),
             r.entries[k - r.index].term = g.entries[k - g.index].term
      PROVE  /\ \A l \in Nat : l > r.index /\ l > g.index /\ l <= k =>
                                 r.entries[l - r.index] = g.entries[l - g.index]
             /\ r.index = g.index => r.logTerm = g.logTerm
             /\ r.index < g.index => r.entries[g.index - r.index].term = g.logTerm
             /\ g.index < r.index => g.entries[r.index - g.index].term = r.logTerm
  <2>1. k \in 1..(Len(e) + 1) /\ k > g.index /\ k - g.index \in 1..Len(g.entries)
    BY SMTT(60), <1>1, <1>4, <1>7 DEF Covers
  <2>3. k # Len(e) + 1
    <3> SUFFICES ASSUME k = Len(e) + 1
                 PROVE  FALSE
      OBVIOUS
    <3>1. g.entries[k - g.index].term = x.term
      BY SMTT(60), <1>4, <1>7
    <3>2. k - g.index \in DOMAIN g.entries
      BY SMTT(60), <2>1
    <3> QED BY SMTT(60), <1>1, <3>1, <3>2
  <2>4. k \in 1..Len(e)
    BY SMTT(60), <2>1, <2>3
  <2>5. Covers(w, k) /\ w.entries[k - w.index].term = g.entries[k - g.index].term
    BY SMTT(60), <1>2, <1>4, <1>7, <2>4 DEF Covers
  <2>6. /\ \A l \in Nat : l > w.index /\ l > g.index /\ l <= k =>
                            w.entries[l - w.index] = g.entries[l - g.index]
        /\ w.index = g.index => w.logTerm = g.logTerm
        /\ w.index < g.index => w.entries[g.index - w.index].term = g.logTerm
    BY <1>2, <1>6, <1>7, <2>5, AgreeAt
  <2>7. \A l \in Nat : l > 0 /\ l <= k => r.entries[l - 0] = e[l - 0]
    BY SMTT(60), <1>5, <2>4
  <2> QED BY SMTT(60), <1>1, <1>2, <1>4, <2>1, <2>6, <2>7
<1> QED BY <1>4, <1>7, AgreeIf DEF r

\* HandleAppendEntries: the merged log is the old one up to m.index and the
\* message from there on, unless the old log has all of the message already.
LEMMA MergeResult ==
  ASSUME NEW e \in Seq(Entry), NEW m \in Message, m.index <= Len(e),
         Agree(Stretch(0, 0, e), Stretch(m.index, m.logTerm, m.entries))
  PROVE  \/ Merge(e, m) = e
         \/ /\ Len(Merge(e, m)) = m.index + Len(m.entries)
            /\ \A k \in 1..m.index : Merge(e, m)[k] = e[k]
            /\ \A k \in (m.index + 1)..(m.index + Len(m.entries)) :
                 Merge(e, m)[k] = m.entries[k - m.index]
<1> DEFINE w == Stretch(0, 0, e)
           s == Stretch(m.index, m.logTerm, m.entries)
           last == m.index + Len(m.entries)
           Agrees(k) == \A l \in (m.index + 1)..k :
                          /\ l <= Len(e)
                          /\ e[l].term = m.entries[l - m.index].term
           r == [k \in 1..last |-> IF Agrees(k) THEN e[k] ELSE m.entries[k - m.index]]
<1>1. /\ m.index \in Nat /\ m.logTerm \in Nat /\ m.entries \in Seq(Entry)
      /\ Len(m.entries) \in Nat /\ Len(e) \in Nat /\ last \in Nat
  BY SMTT(60), SeqShape DEF Message
<1>2. /\ w \in StretchType /\ s \in StretchType
  BY <1>1, StretchHasType
<1>3. /\ w.index = 0 /\ w.entries = e /\ s.index = m.index /\ s.entries = m.entries
  BY DEF Stretch
<1>4. Merge(e, m) = IF Agrees(last) THEN e ELSE r
  BY DEF Merge
<1>5. ASSUME NEW k \in (m.index + 1)..last, Agrees(k)
      PROVE  e[k] = m.entries[k - m.index]
  <2>1. k <= Len(e) /\ e[k].term = m.entries[k - m.index].term /\ k \in Nat /\ k > m.index
    <3>1. k \in Nat /\ k > m.index /\ k \in (m.index + 1)..k
      BY SMTT(60), <1>1
    <3> QED BY <1>5, <3>1
  <2>2. Covers(w, k) /\ Covers(s, k) /\ k - 0 = k
    BY SMTT(60), <1>1, <1>3, <2>1 DEF Covers
  <2>3. w.entries[k - w.index].term = s.entries[k - s.index].term
    BY SMTT(60), <1>3, <2>1
  <2>4. \A l \in Nat : l > w.index /\ l > s.index /\ l <= k =>
                         w.entries[l - w.index] = s.entries[l - s.index]
    <3>1. Agree(w, s)
      OBVIOUS
    <3> HIDE DEF w, s
    <3> QED BY <1>2, <2>1, <2>2, <2>3, <3>1, AgreeAt
  <2>5. k > 0 /\ k <= k
    BY SMTT(60), <1>1
  <2> QED BY SMTT(60), <1>3, <2>1, <2>4, <2>5
<1>6. CASE ~Agrees(last)
  <2>1. Merge(e, m) = r
    BY <1>4, <1>6
  <2>4. Len(r) = last
    BY SMTT(60), <1>1
  <2>5. \A k \in 1..m.index : r[k] = e[k]
    <3> SUFFICES ASSUME NEW k \in 1..m.index
                 PROVE  Agrees(k) /\ k \in 1..last
      OBVIOUS
    <3> QED BY SMTT(60), <1>1
  <2>6. ASSUME NEW k \in (m.index + 1)..last
        PROVE  r[k] = m.entries[k - m.index]
    <3>1. r[k] = IF Agrees(k) THEN e[k] ELSE m.entries[k - m.index]
      BY SMTT(60), <1>1
    <3> QED BY <1>5, <3>1
  <2> QED BY <2>1, <2>4, <2>5, <2>6
<1> QED BY <1>4, <1>6

\* HandleAppendEntries: the merged log agrees with what the log and the
\* message agree with, once they have the same term at m.index.
LEMMA MergeAgrees ==
  ASSUME NEW e \in Seq(Entry), NEW m \in Message, NEW g \in StretchType,
         m.index <= Len(e), m.index >= 1 => e[m.index].term = m.logTerm,
         g.index = 0 => g.logTerm = 0,
         Agree(Stretch(0, 0, e), Stretch(m.index, m.logTerm, m.entries)),
         Agree(Stretch(0, 0, e), g),
         Agree(Stretch(m.index, m.logTerm, m.entries), g)
  PROVE  Agree(Stretch(0, 0, Merge(e, m)), g)
<1> DEFINE w == Stretch(0, 0, e)
           s == Stretch(m.index, m.logTerm, m.entries)
           q == Merge(e, m)
           r == Stretch(0, 0, q)
<1>1. /\ m.index \in Nat /\ m.logTerm \in Nat /\ m.entries \in Seq(Entry)
      /\ Len(m.entries) \in Nat /\ Len(e) \in Nat
      /\ g.index \in Nat /\ Len(g.entries) \in Nat
  BY SeqShape DEF Message, StretchType
<1>2. q \in Seq(Entry) /\ Len(q) \in Nat
  BY SMTT(60), MergeType
<1>3. w \in StretchType /\ s \in StretchType /\ r \in StretchType
  BY <1>1, <1>2, StretchHasType
<1>4. /\ w.index = 0 /\ w.logTerm = 0 /\ w.entries = e
      /\ s.index = m.index /\ s.logTerm = m.logTerm /\ s.entries = m.entries
      /\ r.index = 0 /\ r.logTerm = 0 /\ r.entries = q
  BY DEF Stretch
<1>5. \/ q = e
      \/ /\ Len(q) = m.index + Len(m.entries)
         /\ \A k \in 1..m.index : q[k] = e[k]
         /\ \A k \in (m.index + 1)..(m.index + Len(m.entries)) :
              q[k] = m.entries[k - m.index]
  BY MergeResult
<1>6. Agree(w, g) /\ Agree(s, g)
  OBVIOUS
<1> HIDE DEF w, s, q, r
<1>7. CASE q = e
  BY <1>7 DEF w, q
<1>8. CASE /\ Len(q) = m.index + Len(m.entries)
           /\ \A k \in 1..m.index : q[k] = e[k]
           /\ \A k \in (m.index + 1)..(m.index + Len(m.entries)) :
                q[k] = m.entries[k - m.index]
  <2>1. ASSUME NEW k \in 1..m.index, k > g.index, k <= g.index + Len(g.entries),
               e[k].term = g.entries[k - g.index].term
        PROVE  /\ \A l \in Nat : l > 0 /\ l > g.index /\ l <= k =>
                                   q[l] = g.entries[l - g.index]
               /\ 0 < g.index => q[g.index].term = g.logTerm
    <3>1. k \in Nat /\ Covers(w, k) /\ Covers(g, k) /\ k - 0 = k
      BY SMTT(60), <1>1, <1>4, <2>1 DEF Covers
    <3>2. w.entries[k - w.index].term = g.entries[k - g.index].term
      BY SMTT(60), <1>4, <2>1
    <3>3. /\ \A l \in Nat : l > w.index /\ l > g.index /\ l <= k =>
                              w.entries[l - w.index] = g.entries[l - g.index]
          /\ w.index < g.index => w.entries[g.index - w.index].term = g.logTerm
      BY SMTT(60), <1>3, <1>6, <3>1, <3>2, AgreeAt
    <3>4. \A l \in Nat : l - 0 = l /\ (l > 0 /\ l <= k => q[l] = e[l])
      BY SMTT(60), <1>1, <1>8
    <3> QED BY SMTT(60), <1>1, <1>4, <2>1, <3>3, <3>4
  <2>2. ASSUME NEW k \in Nat, Covers(r, k), Covers(g, k),
               r.entries[k - r.index].term = g.entries[k - g.index].term
        PROVE  /\ \A l \in Nat : l > r.index /\ l > g.index /\ l <= k =>
                                   r.entries[l - r.index] = g.entries[l - g.index]
               /\ r.index = g.index => r.logTerm = g.logTerm
               /\ r.index < g.index => r.entries[g.index - r.index].term = g.logTerm
               /\ g.index < r.index => g.entries[r.index - g.index].term = r.logTerm
    <3>1. /\ k >= 1 /\ k <= m.index + Len(m.entries)
          /\ k > g.index /\ k <= g.index + Len(g.entries)
          /\ q[k].term = g.entries[k - g.index].term
      <4> QED BY SMTT(60), <1>1, <1>4, <1>8, <2>2 DEF Covers
    <3> SUFFICES /\ \A l \in Nat : l > 0 /\ l > g.index /\ l <= k =>
                                     q[l] = g.entries[l - g.index]
                 /\ 0 < g.index => q[g.index].term = g.logTerm
      <4>1. \A l \in Nat : l - 0 = l
        BY SMTT(60)
      <4> QED BY SMTT(60), <1>1, <1>4, <4>1
    <3>2. CASE k <= m.index
      <4>1. k \in 1..m.index /\ q[k] = e[k]
        BY SMTT(60), <1>8, <3>1, <3>2
      <4> QED BY <2>1, <3>1, <4>1
    <3>3. CASE k > m.index
      <4>1. Covers(s, k) /\ q[k] = m.entries[k - m.index]
        <5>1. k \in (m.index + 1)..(m.index + Len(m.entries))
          BY SMTT(60), <1>1, <3>1, <3>3
        <5> QED BY <1>4, <1>8, <5>1 DEF Covers
      <4>2. s.entries[k - s.index].term = g.entries[k - g.index].term
        BY <1>4, <3>1, <4>1
      <4>3. /\ \A l \in Nat : l > m.index /\ l > g.index /\ l <= k =>
                                m.entries[l - m.index] = g.entries[l - g.index]
            /\ m.index = g.index => m.logTerm = g.logTerm
            /\ m.index < g.index => m.entries[g.index - m.index].term = g.logTerm
            /\ g.index < m.index => g.entries[m.index - g.index].term = m.logTerm
        <5>1. /\ \A l \in Nat : l > s.index /\ l > g.index /\ l <= k =>
                                  s.entries[l - s.index] = g.entries[l - g.index]
              /\ s.index = g.index => s.logTerm = g.logTerm
              /\ s.index < g.index => s.entries[g.index - s.index].term = g.logTerm
              /\ g.index < s.index => g.entries[s.index - g.index].term = s.logTerm
          BY <1>3, <1>6, <2>2, <4>1, <4>2, AgreeAt
        <5> QED BY <1>4, <5>1
      <4>4. \A l \in Nat : l > m.index /\ l <= k => q[l] = m.entries[l - m.index]
        BY SMTT(60), <1>1, <1>8, <3>1
      <4>5. CASE m.index < g.index
        <5>1. g.index > m.index /\ g.index <= k /\ q[g.index].term = g.logTerm
          <6>1. g.index \in Nat /\ g.index > m.index /\ g.index <= k
            BY SMTT(60), <1>1, <3>1, <4>5
          <6> QED BY <4>3, <4>4, <6>1
        <5>2. \A l \in Nat : l > g.index => l > m.index
          BY SMTT(60), <1>1, <4>5
        <5> QED BY <4>3, <4>4, <5>1, <5>2
      <4>6. CASE m.index = g.index
        <5>1. 0 < g.index => q[g.index].term = g.logTerm
          BY SMTT(60), <1>1, <1>8, <4>3, <4>6
        <5> QED BY <4>3, <4>4, <4>6, <5>1
      <4>7. CASE g.index < m.index
        <5>1. /\ m.index \in 1..m.index /\ m.index > g.index
              /\ m.index <= g.index + Len(g.entries)
              /\ e[m.index].term = g.entries[m.index - g.index].term
          <6>1. /\ m.index \in 1..m.index /\ m.index >= 1 /\ m.index > g.index
                /\ m.index <= g.index + Len(g.entries)
            BY SMTT(60), <1>1, <3>1, <3>3, <4>7
          <6> QED BY <4>3, <6>1
        <5>2. /\ \A l \in Nat : l > 0 /\ l > g.index /\ l <= m.index =>
                                  q[l] = g.entries[l - g.index]
              /\ 0 < g.index => q[g.index].term = g.logTerm
          BY <2>1, <5>1
        <5>3. \A l \in Nat : l <= m.index \/ l > m.index
          BY SMTT(60), <1>1
        <5> QED BY <4>3, <4>4, <5>2, <5>3
      <4> QED BY SMTT(60), <1>1, <4>5, <4>6, <4>7
    <3> QED BY SMTT(60), <1>1, <3>2, <3>3
  <2> QED BY <1>3, <2>2, AgreeIf DEF r, q
<1> QED BY <1>5, <1>7,
           <1>8-----------------------------------------------------------------------------

\* The entries of the end of a log are entries of the log.
LEMMA SuffixEntries ==
  ASSUME NEW e \in Seq(Entry), NEW n \in Nat \ {0}, NEW l \in DOMAIN Suffix(e, n).entries
  PROVE  (n - 1) + l \in DOMAIN e /\ Suffix(e, n).entries[l] = e[(n - 1) + l]
<1>1. Suffix(e, n).entries = SubSeq(e, n, Len(e)) /\ Len(e) \in Nat
  BY SeqShape DEF Suffix, Stretch
<1>2. CASE n > Len(e)
  <2>1. Len(SubSeq(e, n, Len(e))) = 0
    BY SMTT(60), <1>2
  <2>2. DOMAIN SubSeq(e, n, Len(e)) = {}
    BY SMTT(60), <2>1
  <2> QED BY <1>1, <2>2
<1>3. CASE n <= Len(e)
  <2> QED BY SMTT(60), <1>1, SeqShape
<1> QED BY SMTT(60), <1>2, <1>3

\* Ends of logs can be added to stretches that agree.
LEMMA WithSuffixes ==
  ASSUME NEW B \in SUBSET StretchType,
         \A f \in B : (f.index = 0 => f.logTerm = 0) /\ \A g \in B : Agree(f, g),
         NEW S,
         \A f \in S : \/ f \in B
                      \/ \E e \in Seq(Entry), n \in Nat \ {0} :
                           Stretch(0, 0, e) \in B /\ f = Suffix(e, n)
  PROVE  /\ S \subseteq StretchType
         /\ \A f \in S : (f.index = 0 => f.logTerm = 0) /\ \A g \in S : Agree(f, g)
         /\ \A f \in S : \A l \in DOMAIN f.entries : \E g \in B : \E k \in DOMAIN g.entries :
              g.entries[k] = f.entries[l] /\ g.index + k = f.index + l
<1>1. ASSUME NEW f \in S, NEW g \in B
      PROVE  f \in StretchType /\ Agree(f, g)
  BY SMTT(60), SuffixAgrees
<1>2. ASSUME NEW f \in S, NEW g \in S
      PROVE  Agree(f, g)
  <2>1. CASE g \in B
    BY <1>1, <2>1
  <2>2. CASE g \notin B
    <3>1. PICK e \in Seq(Entry), n \in Nat \ {0} : Stretch(0, 0, e) \in B /\ g = Suffix(e, n)
      BY <2>2
    <3>2. f \in StretchType /\ Stretch(0, 0, e) \in StretchType /\ Agree(f, Stretch(0, 0, e))
      BY <1>1, <3>1
    <3>3. Agree(Stretch(0, 0, e), f)
      BY <3>2, AgreeSymmetric
    <3>4. g \in StretchType /\ Agree(g, f)
      BY <3>1, <3>3, SuffixAgrees
    <3> QED BY <3>2, <3>4, AgreeSymmetric
  <2> QED BY <2>1, <2>2
<1>3. S \subseteq StretchType
  BY SMTT(60), SuffixAgrees
<1>4. ASSUME NEW f \in S, f.index = 0
      PROVE  f.logTerm = 0
  <2>1. CASE f \notin B
    <3>1. PICK e \in Seq(Entry), n \in Nat \ {0} : f = Suffix(e, n)
      BY <2>1
    <3>2. f.index = n - 1 /\ f.logTerm = TermAt(e, n - 1)
      BY <3>1 DEF Suffix, Stretch
    <3> QED BY SMTT(60), <1>4, <3>2 DEF TermAt
  <2> QED BY <1>4, <2>1
<1>5. ASSUME NEW f \in S, NEW l \in DOMAIN f.entries
      PROVE  \E g \in B : \E k \in DOMAIN g.entries :
               g.entries[k] = f.entries[l] /\ g.index + k = f.index + l
  <2>1. CASE f \notin B
    <3>1. PICK e \in Seq(Entry), n \in Nat \ {0} : Stretch(0, 0, e) \in B /\ f = Suffix(e, n)
      BY <2>1
    <3>2. (n - 1) + l \in DOMAIN e /\ f.entries[l] = e[(n - 1) + l]
      BY <3>1, SuffixEntries
    <3>3. /\ Stretch(0, 0, e).index = 0 /\ Stretch(0, 0, e).entries = e
          /\ f.index = n - 1
      BY <3>1 DEF Stretch, Suffix
    <3> QED BY SMTT(60), <3>1, <3>2, <3>3
  <2> QED BY <2>1
<1> QED BY <1>2, <1>3, <1>4, <1>5

\* A log that agrees with stretches that agree can be added to them.
LEMMA WithLog ==
  ASSUME NEW B \in SUBSET StretchType,
         \A f \in B : (f.index = 0 => f.logTerm = 0) /\ \A g \in B : Agree(f, g),
         NEW e \in Seq(Entry), \A g \in B : Agree(Stretch(0, 0, e), g)
  PROVE  /\ B \cup {Stretch(0, 0, e)} \in SUBSET StretchType
         /\ \A f \in B \cup {Stretch(0, 0, e)} :
              /\ f.index = 0 => f.logTerm = 0
              /\ \A g \in B \cup {Stretch(0, 0, e)} : Agree(f, g)
<1>1. PICK s \in StretchType : s = Stretch(0, 0, e)
  BY StretchHasType
<1>2. s.logTerm = 0
  BY <1>1 DEF Stretch
<1>3. \A g \in B : Agree(s, g) /\ Agree(g, s)
  BY <1>1, AgreeSymmetric
<1>4. Agree(s, s)
  BY AgreeSelf
<1> QED BY <1>1, <1>2, <1>3, <1>4

-----------------------------------------------------------------------------
(* The terms that a stretch shows *)

\* All of these are numbers.
LEMMA ViewType ==
  ASSUME NEW f \in StretchType
  PROVE  /\ f.index \in Nat /\ Last(f) \in Nat /\ f.index <= Last(f)
         /\ \A k \in Shown(f) : TermIn(f, k) \in Nat
<1>1. f.index \in Nat /\ f.logTerm \in Nat /\ f.entries \in Seq(Entry)
  BY DEF StretchType
<1>2. Len(f.entries) \in Nat /\ \A l \in 1..Len(f.entries) : f.entries[l] \in Entry
  BY SMTT(60), <1>1
<1>3. \A l \in 1..Len(f.entries) : f.entries[l].term \in Nat
  BY <1>2 DEF Entry
<1>4. ASSUME NEW k \in Shown(f)
      PROVE  TermIn(f, k) \in Nat
  <2>1. k = f.index \/ k - f.index \in 1..Len(f.entries)
    BY SMTT(60), <1>1 DEF Shown, Last
  <2> QED BY <1>1, <1>3, <2>1 DEF TermIn
<1> QED BY SMTT(60), <1>1, <1>4 DEF Last

\* What a log shows.
LEMMA LogView ==
  ASSUME NEW e \in Seq(Entry), NEW f, f = Stretch(0, 0, e)
  PROVE  /\ f \in StretchType /\ f.index = 0 /\ Len(e) \in Nat /\ Last(f) = Len(e)
         /\ Shown(f) = 0..Len(e) /\ Held(f) = 1..Len(e)
         /\ TermIn(f, 0) = 0
         /\ \A k \in 1..Len(e) : TermIn(f, k) = e[k].term
         /\ LastTerm(e) = TermIn(f, Len(e))
<1>1. /\ f \in StretchType /\ f.index = 0 /\ f.logTerm = 0 /\ f.entries = e
      /\ Len(e) \in Nat
  BY StretchHasType, SeqShape DEF Stretch
<1>2. /\ Last(f) = Len(e) /\ Shown(f) = 0..Len(e) /\ Held(f) = 1..Len(e)
  BY SMTT(60), <1>1 DEF Last, Shown, Held
<1>3. TermIn(f, 0) = 0 /\ \A k \in 1..Len(e) : TermIn(f, k) = e[k].term
  <2> QED BY SMTT(60), <1>1 DEF TermIn
<1>4. LastTerm(e) = TermIn(f, Len(e))
  BY SMTT(60), <1>3 DEF LastTerm, TermAt, LastIndex
<1> QED BY <1>1, <1>2, <1>3, <1>4

\* Where two stretches that agree hold one term, they show the same terms
\* before it.
LEMMA AgreeTerms ==
  ASSUME NEW f \in StretchType, NEW g \in StretchType, Agree(f, g),
         NEW k \in Held(f), k \in Held(g), TermIn(f, k) = TermIn(g, k),
         NEW l \in Shown(f), l \in Shown(g), l <= k
  PROVE  TermIn(f, l) = TermIn(g, l)
<1>1. /\ f.index \in Nat /\ g.index \in Nat /\ Last(f) \in Nat /\ Last(g) \in Nat
      /\ k \in Nat /\ l \in Nat
  BY SMTT(60), ViewType DEF Shown, Held
<1>2. Covers(f, k) /\ Covers(g, k) /\ k # f.index /\ k # g.index
  BY SMTT(60) DEF Covers, Held, Last
<1>3. f.entries[k - f.index].term = g.entries[k - g.index].term
  BY <1>2 DEF TermIn
<1>4. /\ \A n \in Nat : n > f.index /\ n > g.index /\ n <= k =>
                             f.entries[n - f.index] = g.entries[n - g.index]
      /\ f.index = g.index => f.logTerm = g.logTerm
      /\ f.index < g.index => f.entries[g.index - f.index].term = g.logTerm
      /\ g.index < f.index => g.entries[f.index - g.index].term = f.logTerm
  BY <1>1, <1>2, <1>3, AgreeAt
<1>5. l >= f.index /\ l >= g.index
  BY SMTT(60), <1>1 DEF Shown
<1>6. CASE l > f.index /\ l > g.index
  BY <1>1, <1>4, <1>6 DEF TermIn
<1>7. CASE l = f.index \/ l = g.index
  BY SMTT(60), <1>1, <1>4, <1>5 DEF TermIn
<1> QED BY SMTT(60), <1>1, <1>5, <1>6, <1>7

\* A stretch is a part of itself,
LEMMA CutSelf ==
  ASSUME NEW f \in StretchType
  PROVE  Cut(f, f)
BY SMTT(60), ViewType DEF Cut

\* and SendAppend sends a part of the log.
LEMMA SuffixCut ==
  ASSUME NEW e \in Seq(Entry), NEW n \in 1..(Len(e) + 1)
  PROVE  /\ Suffix(e, n) \in StretchType
         /\ Cut(Suffix(e, n), Stretch(0, 0, e))
<1>1. PICK w : w = Stretch(0, 0, e)
  OBVIOUS
<1>2. /\ w.index = 0 /\ Len(e) \in Nat /\ Last(w) = Len(e)
      /\ TermIn(w, 0) = 0 /\ \A k \in 1..Len(e) : TermIn(w, k) = e[k].term
  BY <1>1, LogView
<1>3. PICK s : s = Suffix(e, n)
  OBVIOUS
<1>4. /\ s.index = n - 1 /\ s.logTerm = TermAt(e, n - 1)
      /\ s.entries = SubSeq(e, n, Len(e)) /\ n - 1 \in Nat
  BY SMTT(60), <1>3 DEF Suffix, Stretch
<1>5. s \in StretchType
  <2>1. n \in Nat \ {0} /\ n - 1 \in Int
    BY SMTT(60), <1>2
  <2>2. SubSeq(e, n, Len(e)) \in Seq(Entry)
    BY SMTT(60)
  <2>3. TermAt(e, n - 1) \in Nat
    BY <2>1, TermAtType
  <2> QED BY <1>3, <1>4, <2>2, <2>3, StretchHasType DEF Suffix
<1>7. Last(s) = Len(e)
  BY SMTT(60), <1>4 DEF Last
<1>8. ASSUME NEW k \in Shown(s)
      PROVE  TermIn(s, k) = TermIn(w, k)
  <2>1. k = n - 1 \/ k \in n..Len(e)
    BY SMTT(60), <1>4, <1>7 DEF Shown
  <2>2. CASE k = n - 1
    <3>1. TermIn(s, k) = TermAt(e, k)
      BY <1>4, <2>2 DEF TermIn
    <3>2. k = 0 \/ k \in 1..Len(e)
      BY SMTT(60), <2>2
    <3> QED BY <1>2, <3>1, <3>2 DEF TermAt
  <2>3. CASE k \in n..Len(e)
    <3> QED BY SMTT(60), <1>2, <1>4, <2>3 DEF TermIn
  <2> QED BY <2>1, <2>2, <2>3
<1> QED BY SMTT(60), <1>1, <1>2, <1>3, <1>4, <1>5, <1>7, <1>8 DEF Cut

\* What holds of a stretch holds of its parts.
LEMMA CutKeeps ==
  ASSUME NEW f \in StretchType, NEW w \in StretchType, Cut(f, w)
  PROVE  /\ Ascends(w) => Ascends(f)
         /\ \A g \in StretchType : Runs(w, g) => Runs(f, g)
         /\ \A g \in StretchType : Runs(g, w) => Runs(g, f)
<1>1. /\ f.index \in Nat /\ w.index \in Nat /\ Last(f) \in Nat /\ Last(w) = Last(f)
      /\ w.index <= f.index
  BY ViewType DEF Cut
<1>2. \A k \in Shown(f) : k \in Shown(w) /\ TermIn(f, k) = TermIn(w, k)
  BY SMTT(60), <1>1 DEF Cut, Shown
<1>3. \A k \in Held(f) : k \in Held(w) /\ TermIn(f, k) = TermIn(w, k)
  BY SMTT(60), <1>1, <1>2 DEF Shown, Held
<1>4. Ascends(w) => Ascends(f)
  BY <1>2 DEF Ascends
<1>5. ASSUME NEW g \in StretchType, Runs(w, g)
      PROVE  Runs(f, g)
  BY <1>3, <1>5 DEF Runs
<1>6. ASSUME NEW g \in StretchType, Runs(g, w)
      PROVE  Runs(g, f)
  BY <1>2, <1>6 DEF Runs
<1> QED BY <1>4, <1>5, <1>6

\* An entry that a leader appends: the terms go on ascending,
LEMMA AppendView ==
  ASSUME NEW e \in Seq(Entry), NEW x \in Entry,
         NEW w, w = Stretch(0, 0, e), NEW r, r = Stretch(0, 0, Append(e, x))
  PROVE  /\ r \in StretchType /\ r.index = 0 /\ Last(r) = Len(e) + 1
         /\ TermIn(r, Len(e) + 1) = x.term
         /\ \A k \in 0..Len(e) : TermIn(r, k) = TermIn(w, k)
<1>1. /\ Append(e, x) \in Seq(Entry) /\ Len(e) \in Nat
      /\ Len(Append(e, x)) = Len(e) + 1 /\ Append(e, x)[Len(e) + 1] = x
      /\ \A l \in 1..Len(e) : Append(e, x)[l] = e[l]
  BY SMTT(60)
<1>2. PICK a \in Seq(Entry) : a = Append(e, x)
  BY <1>1
<1>3. /\ r \in StretchType /\ r.index = 0 /\ Last(r) = Len(a)
      /\ TermIn(r, 0) = 0 /\ \A k \in 1..Len(a) : TermIn(r, k) = a[k].term
  BY <1>2, LogView
<1>4. TermIn(w, 0) = 0 /\ \A k \in 1..Len(e) : TermIn(w, k) = e[k].term
  BY LogView
<1> QED BY SMTT(60), <1>1, <1>2, <1>3, <1>4

\* and what HandleAppendEntries makes of a log.
LEMMA MergeView ==
  ASSUME NEW e \in Seq(Entry), NEW m \in Message, m.index <= Len(e),
         m.index >= 1 => e[m.index].term = m.logTerm, m.index = 0 => m.logTerm = 0,
         NEW w, w = Stretch(0, 0, e), NEW c, c = Stretch(m.index, m.logTerm, m.entries),
         Agree(w, c), NEW r, r = Stretch(0, 0, Merge(e, m))
  PROVE  /\ r \in StretchType /\ c \in StretchType
         /\ Merged(r, w, c)
<1> DEFINE last == m.index + Len(m.entries)
           Agrees(k) == \A l \in (m.index + 1)..k :
                          /\ l <= Len(e)
                          /\ e[l].term = m.entries[l - m.index].term
<1>1. /\ m.index \in Nat /\ m.logTerm \in Nat /\ m.entries \in Seq(Entry)
      /\ Len(m.entries) \in Nat /\ Len(e) \in Nat /\ last \in Nat
  BY SMTT(60) DEF Message
<1>2. PICK q \in Seq(Entry) : q = Merge(e, m)
  BY MergeType
<1>3. /\ w \in StretchType /\ w.index = 0 /\ Last(w) = Len(e)
      /\ TermIn(w, 0) = 0 /\ \A k \in 1..Len(e) : TermIn(w, k) = e[k].term
  BY LogView
<1>4. /\ r \in StretchType /\ r.index = 0 /\ Last(r) = Len(q) /\ Len(q) \in Nat
      /\ TermIn(r, 0) = 0 /\ \A k \in 1..Len(q) : TermIn(r, k) = q[k].term
  BY <1>2, LogView
<1>5. /\ c \in StretchType /\ c.index = m.index /\ Last(c) = last
      /\ TermIn(c, m.index) = m.logTerm
      /\ \A k \in (m.index + 1)..last : TermIn(c, k) = m.entries[k - m.index].term
  BY SMTT(60), <1>1, StretchHasType DEF Stretch, Last, TermIn
<1>6. TermIn(w, m.index) = m.logTerm
  BY SMTT(60), <1>1, <1>3
<1>7. \/ q = e
      \/ /\ Len(q) = last
         /\ \A k \in 1..m.index : q[k] = e[k]
         /\ \A k \in (m.index + 1)..last : q[k] = m.entries[k - m.index]
  BY <1>2, MergeResult
<1>8. Merge(e, m) = e => Agrees(last)
  <2> SUFFICES ASSUME Merge(e, m) = e, ~Agrees(last)
               PROVE  FALSE
    OBVIOUS
  <2>1. Merge(e, m) = [k \in 1..last |-> IF Agrees(k) THEN e[k] ELSE m.entries[k - m.index]]
    BY DEF Merge
  <2>2. DOMAIN e = 1..last /\ DOMAIN e = 1..Len(e)
    BY <2>1, SeqShape
  <2>3. Len(e) = last
    BY SMTT(60), <1>1, <2>2
  <2>4. PICK l \in (m.index + 1)..last : e[l].term # m.entries[l - m.index].term
    BY SMTT(60), <2>3
  <2>5. ~Agrees(l) /\ l \in 1..last
    BY SMTT(60), <1>1, <2>4
  <2>6. e[l] = m.entries[l - m.index]
    BY <2>1, <2>5
  <2> QED BY <2>4, <2>6
<1>9. q = e => \A k \in (m.index + 1)..last : k <= Len(e) /\ e[k].term = m.entries[k - m.index].term
  BY <1>2, <1>8
<1> HIDE DEF Agrees, last
<1>10. last >= m.index
  BY SMTT(60), <1>1 DEF last
<1>11. last <= Len(q)
  <2>1. CASE q = e
    <3>1. last = m.index \/ last \in (m.index + 1)..last
      BY SMTT(60), <1>1, <1>10
    <3> QED BY <1>9, <2>1, <3>1
  <2> QED BY SMTT(60), <1>7, <2>1
<1>12. ASSUME NEW k \in 0..m.index
       PROVE  TermIn(r, k) = TermIn(w, k)
  <2>1. k = 0 \/ (k \in 1..m.index /\ k \in 1..Len(q) /\ k \in 1..Len(e))
    BY SMTT(60), <1>1, <1>10, <1>11
  <2>2. k \in 1..m.index => q[k] = e[k]
    BY <1>7
  <2> QED BY <1>3, <1>4, <2>1, <2>2
<1>13. ASSUME NEW k \in (m.index + 1)..last
       PROVE  TermIn(r, k) = TermIn(c, k)
  <2>1. k \in 1..Len(q)
    BY SMTT(60), <1>1, <1>11
  <2>2. q[k].term = m.entries[k - m.index].term
    BY <1>7, <1>9
  <2> QED BY <1>4, <1>5, <2>1, <2>2
<1>14. ASSUME NEW k \in Shown(c)
       PROVE  TermIn(r, k) = TermIn(c, k)
  <2>1. k = m.index \/ k \in (m.index + 1)..last
    BY SMTT(60), <1>1, <1>5 DEF Shown
  <2>2. m.index \in 0..m.index
    BY SMTT(60), <1>1
  <2> QED BY <1>5, <1>6, <1>12, <1>13, <2>1, <2>2
<1>15. r = w \/ Last(r) = Last(c)
  BY <1>2, <1>4, <1>5, <1>7
<1>16. r = w \/ Last(w) < Last(c) \/ \E k \in Held(c) : TermIn(w, k) # TermIn(c, k)
  <2> SUFFICES ASSUME Last(w) >= Last(c), \A k \in Held(c) : TermIn(w, k) = TermIn(c, k)
               PROVE  r = w
    BY SMTT(60), <1>1, <1>3, <1>5
  <2>1. \A k \in (m.index + 1)..last : k \in 1..Len(e) /\ k \in Held(c)
    BY SMTT(60), <1>1, <1>3, <1>5 DEF Held
  <2>2. \A k \in (m.index + 1)..last : k <= Len(e) /\ e[k].term = m.entries[k - m.index].term
    BY SMTT(60), <1>3, <1>5, <2>1
  <2>3. Merge(e, m) = e
    BY <2>2 DEF Merge, last
  <2> QED BY <2>3
<1> QED BY <1>3, <1>4, <1>5, <1>6, <1>11, <1>12, <1>14, <1>15, <1>16 DEF Merged

\* The terms of a merged log still ascend,
LEMMA MergedAscends ==
  ASSUME NEW r \in StretchType, NEW w \in StretchType, NEW c \in StretchType,
         Merged(r, w, c), Ascends(w), Ascends(c)
  PROVE  Ascends(r)
<1>1. /\ c.index \in Nat /\ Last(c) \in Nat /\ c.index <= Last(c) /\ Last(w) \in Nat
      /\ w.index = 0 /\ r.index = 0 /\ c.index <= Last(w)
      /\ \A k \in Shown(c) : TermIn(r, k) = TermIn(c, k)
      /\ \A k \in 0..c.index : TermIn(r, k) = TermIn(w, k)
      /\ r = w \/ Last(r) = Last(c)
  BY ViewType DEF Merged
<1>2. CASE Last(r) = Last(c)
  <2>1. /\ \A k \in 0..c.index : k \in Shown(w)
        /\ c.index \in Shown(c)
        /\ \A k \in Shown(r) : k \in Nat /\ TermIn(r, k) \in Nat /\ (k \in 0..c.index \/ k \in Shown(c))
    BY SMTT(60), <1>1, <1>2, ViewType DEF Shown
  <2> SUFFICES ASSUME NEW k \in Shown(r), NEW l \in Shown(r), k <= l
               PROVE  TermIn(r, k) <= TermIn(r, l)
    BY DEF Ascends
  <2>2. CASE l \in 0..c.index
    <3> QED BY SMTT(60), <1>1, <2>1, <2>2 DEF Ascends
  <2>3. CASE k \in Shown(c) /\ l \in Shown(c)
    BY <1>1, <2>3 DEF Ascends
  <2>4. CASE k \in 0..c.index /\ l \in Shown(c)
    <3>1. c.index \in 0..c.index /\ k <= c.index /\ c.index <= l
      BY SMTT(60), <1>1, <2>4 DEF Shown
    <3>2. TermIn(r, k) <= TermIn(r, c.index)
      BY <1>1, <2>1, <3>1 DEF Ascends
    <3>3. TermIn(r, c.index) <= TermIn(r, l)
      BY <1>1, <2>1, <3>1 DEF Ascends
    <3>4. c.index \in Shown(r)
      BY SMTT(60), <1>1 DEF Shown
    <3> QED BY SMTT(60), <2>1, <3>2, <3>3, <3>4
  <2> QED BY <2>1, <2>2, <2>3, <2>4
<1> QED BY <1>1, <1>2

\* and it holds no term that neither the log nor the message held,
LEMMA MergedRunsFrom ==
  ASSUME NEW r \in StretchType, NEW w \in StretchType, NEW c \in StretchType,
         Merged(r, w, c), NEW g \in StretchType, Runs(w, g), Runs(c, g)
  PROVE  Runs(r, g)
<1>1. /\ c.index \in Nat /\ Last(c) \in Nat /\ c.index <= Last(c) /\ Last(w) \in Nat
      /\ w.index = 0 /\ r.index = 0 /\ c.index <= Last(w)
      /\ \A k \in Shown(c) : TermIn(r, k) = TermIn(c, k)
      /\ \A k \in 0..c.index : TermIn(r, k) = TermIn(w, k)
      /\ r = w \/ Last(r) = Last(c)
  BY ViewType DEF Merged
<1>2. CASE Last(r) = Last(c)
  <2>1. ASSUME NEW x \in Held(r)
        PROVE  \/ x \in Held(w) /\ TermIn(r, x) = TermIn(w, x)
               \/ x \in Held(c) /\ TermIn(r, x) = TermIn(c, x)
    <3>1. x \in 1..c.index \/ x \in (c.index + 1)..Last(c)
      BY SMTT(60), <1>1, <1>2 DEF Held
    <3>2. x \in 1..c.index => x \in Held(w) /\ x \in 0..c.index
      BY SMTT(60), <1>1 DEF Held
    <3>3. x \in (c.index + 1)..Last(c) => x \in Held(c) /\ x \in Shown(c)
      BY SMTT(60), <1>1 DEF Held, Shown
    <3> QED BY <1>1, <3>1, <3>2, <3>3
  <2> QED BY SMTT(60), <2>1 DEF Runs
<1> QED BY <1>1, <1>2

\* and what runs into the log and into the message runs into it.
LEMMA MergedRunsInto ==
  ASSUME NEW r \in StretchType, NEW w \in StretchType, NEW c \in StretchType,
         Merged(r, w, c), NEW g \in StretchType, Runs(g, w), Runs(g, c)
  PROVE  Runs(g, r)
<1>1. /\ c.index \in Nat /\ Last(c) \in Nat /\ c.index <= Last(c) /\ Last(w) \in Nat
      /\ w.index = 0 /\ r.index = 0 /\ c.index <= Last(w)
      /\ \A k \in Shown(c) : TermIn(r, k) = TermIn(c, k)
      /\ \A k \in 0..c.index : TermIn(r, k) = TermIn(w, k)
      /\ r = w \/ Last(r) = Last(c)
      /\ g.index \in Nat /\ Last(g) \in Nat
  BY ViewType DEF Merged
<1>2. CASE Last(r) = Last(c)
  <2>1. /\ \A k \in 0..c.index : k \in Shown(w)
        /\ c.index \in Shown(c) /\ c.index \in 0..c.index
        /\ \A k \in Shown(r) : k \in Nat /\ (k \in 0..c.index \/ k \in Shown(c))
    BY SMTT(60), <1>1, <1>2 DEF Shown
  <2> SUFFICES ASSUME NEW x \in Held(g), NEW z \in Shown(r), NEW y \in Shown(r),
                      x <= z, z <= y, TermIn(r, y) = TermIn(g, x)
               PROVE  TermIn(r, z) = TermIn(g, x)
    BY DEF Runs
  <2>2. CASE y \in 0..c.index
    <3> QED BY SMTT(60), <1>1, <2>1, <2>2 DEF Runs
  <2>3. CASE z \in Shown(c) /\ y \in Shown(c)
    BY SMTT(60), <1>1, <2>3 DEF Runs
  <2>4. CASE z \in 0..c.index /\ y \in Shown(c)
    <3>1. z <= c.index /\ c.index <= y /\ x \in Nat /\ x <= c.index
      BY SMTT(60), <1>1, <2>4 DEF Shown, Held
    <3>2. TermIn(c, c.index) = TermIn(g, x)
      BY SMTT(60), <1>1, <2>1, <3>1 DEF Runs
    <3>3. TermIn(w, c.index) = TermIn(g, x)
      BY <1>1, <2>1, <3>2
    <3> QED BY SMTT(60), <1>1, <2>1, <3>3 DEF Runs
  <2> QED BY <2>1, <2>2, <2>3, <2>4
<1> QED BY <1>1, <1>2

\* A merge keeps the entries of the term that the message ends with.
LEMMA MergedKeeps ==
  ASSUME NEW r \in StretchType, NEW w \in StretchType, NEW c \in StretchType,
         Merged(r, w, c), Agree(w, c), Runs(w, c), Runs(c, w),
         NEW x \in Held(w), TermIn(w, x) = TermIn(c, Last(c))
  PROVE  x \in Held(r) /\ TermIn(r, x) = TermIn(w, x)
<1>1. /\ c.index \in Nat /\ Last(c) \in Nat /\ c.index <= Last(c) /\ Last(w) \in Nat
      /\ w.index = 0 /\ r.index = 0 /\ c.index <= Last(w)
      /\ \A k \in Shown(c) : TermIn(r, k) = TermIn(c, k)
      /\ \A k \in 0..c.index : TermIn(r, k) = TermIn(w, k)
  BY ViewType DEF Merged
<1>2. x \in 1..Last(w) /\ Last(c) \in Shown(c)
  BY SMTT(60), <1>1 DEF Held, Shown
<1>3. ASSUME Last(r) = Last(c),
             Last(w) < Last(c) \/ \E k \in Held(c) : TermIn(w, k) # TermIn(c, k)
      PROVE  x \in Held(r) /\ TermIn(r, x) = TermIn(w, x)
  <2>1. CASE x <= c.index
    <3>1. x \in 0..c.index /\ x \in Held(r)
      BY SMTT(60), <1>1, <1>3, <2>1 DEF Held
    <3> QED BY <1>1, <3>1
  <2>2. CASE x > c.index /\ x <= Last(c)
    <3>1. x \in Shown(c) /\ x \in Held(r) /\ x <= x
      BY SMTT(60), <1>1, <1>3, <2>2 DEF Held, Shown
    <3>2. TermIn(c, x) = TermIn(w, x)
      BY <1>2, <2>2, <3>1 DEF Runs
    <3> QED BY <1>1, <3>1, <3>2
  <2>3. CASE x > Last(c)
    <3>1. PICK k \in Held(c) : TermIn(w, k) # TermIn(c, k)
      BY SMTT(60), <1>1, <1>2, <1>3, <2>3
    <3>2. /\ Last(c) \in Held(c) /\ Last(c) \in Shown(w) /\ x \in Shown(w)
          /\ Last(c) <= x /\ Last(c) <= Last(c)
          /\ k \in Shown(w) /\ k \in Shown(c) /\ k <= Last(c) /\ Last(c) \in Held(w)
      BY SMTT(60), <1>1, <2>3 DEF Held, Shown
    <3>3. TermIn(w, Last(c)) = TermIn(c, Last(c))
      BY <3>2 DEF Runs
    <3>4. TermIn(w, k) = TermIn(c, k)
      BY <3>2, <3>3, AgreeTerms
    <3> QED BY <3>1, <3>4
  <2> QED BY SMTT(60), <1>1, <1>2, <2>1, <2>2, <2>3
<1> QED BY <1>3 DEF Merged

\* What holds of stretches holds of their parts.
LEMMA PartsKeep ==
  ASSUME NEW B \in SUBSET StretchType,
         \A f \in B : Ascends(f) /\ \A g \in B : Runs(f, g),
         NEW S \in SUBSET StretchType, \A f \in S : \E w \in B : Cut(f, w)
  PROVE  \A f \in S : Ascends(f) /\ \A g \in S : Runs(f, g)
<1>1. ASSUME NEW f \in S
      PROVE  Ascends(f) /\ \A g \in B : Runs(f, g)
  BY CutKeeps
<1>2. ASSUME NEW f \in S, NEW g \in S
      PROVE  Runs(f, g)
  BY CutKeeps
<1> QED BY <1>1, <1>2

\* The messages only grow, so who supports whom only grows, and whoever was
\* elected stays elected.
LEMMA ElectedGrows ==
  ASSUME Counting, NEW i \in Server, NEW t \in Nat, msgs \subseteq msgs'
  PROVE  /\ Supporters(i, t) \subseteq Supporters(i, t)'
         /\ Elected(i, t) => Elected(i, t)'
<1>1. Supporters(i, t) \subseteq Supporters(i, t)'
  BY DEF Supporters, IsGrant
<1>2. Supporters(i, t) \in SUBSET Server /\ Supporters(i, t)' \in SUBSET Server
  BY DEF Supporters
<1>3. Cardinality(Supporters(i, t)) <= Cardinality(Supporters(i, t)')
  BY <1>1, <1>2, LargerSet
<1>4. Elected(i, t) => Elected(i, t)'
  BY SMTT(60), <1>2, <1>3, SizesOfSets DEF Elected
<1> QED BY <1>1, <1>4

-----------------------------------------------------------------------------
(* The leaders of the past *)

\* Who led a term has led it for ever.
LEMMA LedOnceStays ==
  ASSUME Counting, TypeOK, TypeOK', ElectionInv', RolesKept,
         NEW i \in Server, NEW t \in Nat, LedOnce(i, t)
  PROVE  LedOnce(i, t)'
<1>1. term[i] \in Nat /\ term'[i] \in Nat
  BY DEF TypeOK
<1>2. Elected(i, t)'
  BY ElectedGrows DEF LedOnce, RolesKept
<1>3. t <= term'[i] /\ (t = term'[i] => state'[i] = Leader)
  BY SMTT(60), <1>1 DEF LedOnce, RolesKept
<1>4. ASSUME NEW m \in msgs', IsGrant(m), m.from = i, m.term = t
      PROVE  FALSE
  <2>1. m \in msgs' \ msgs
    BY <1>4 DEF LedOnce
  <2>2. m.term = term'[i]
    BY <1>4, <2>1 DEF RolesKept
  <2>3. state'[i] = Leader
    BY <1>3, <1>4, <2>2
  <2>4. state'[i] = Follower
    BY <1>4, <2>2 DEF ElectionInv, GrantRemembered, IsGrant
  <2> QED BY <2>3, <2>4 DEF Leader, Follower
<1> QED BY <1>2, <1>3, <1>4 DEF LedOnce, IsGrant

\* Nobody else has led the term that a leader leads.
LEMMA LedOnceUnique ==
  ASSUME Counting, TypeOK, ElectionInv, NEW i \in Server, NEW j \in Server,
         state[i] = Leader, LedOnce(j, term[i])
  PROVE  i = j
<1> SUFFICES ASSUME i # j
             PROVE  FALSE
  OBVIOUS
<1>1. PICK t \in Nat : t = term[i]
  BY DEF TypeOK
<1>2. Elected(i, t) /\ Elected(j, t)
  BY <1>1 DEF ElectionInv, LeadersElected, LedOnce
<1>3. Supporters(i, t) \in SUBSET Server /\ Supporters(j, t) \in SUBSET Server
  BY DEF Supporters
<1>4. /\ Cardinality(Supporters(i, t)) \in Nat /\ Cardinality(Supporters(j, t)) \in Nat
      /\ Cardinality(Server) \in Nat
  BY <1>3, SizesOfSets
<1>5. Cardinality(Supporters(i, t)) + Cardinality(Supporters(j, t)) > Cardinality(Server)
  BY SMTT(60), <1>2, <1>4 DEF Elected
<1>6. PICK k \in Server : k \in Supporters(i, t) /\ k \in Supporters(j, t)
  BY <1>3, <1>5, MajoritiesMeet
<1>7. k # i
  BY <1>1, <1>6 DEF Supporters, ElectionInv, GrantRemembered, Leader, Follower
<1>8. k # j
  BY <1>1, <1>6 DEF Supporters, LedOnce
<1>9. PICK g1 \in msgs : IsGrant(g1) /\ g1.from = k /\ g1.to = i /\ g1.term = t
  BY <1>6, <1>7 DEF Supporters
<1>10. PICK g2 \in msgs : IsGrant(g2) /\ g2.from = k /\ g2.to = j /\ g2.term = t
  BY <1>6, <1>8 DEF Supporters
<1> QED BY <1>9, <1>10 DEF ElectionInv, GrantUnique

\* A leader has led its term.
LEMMA LeaderLed ==
  ASSUME TypeOK, ElectionInv, NEW i \in Server, state[i] = Leader
  PROVE  LedOnce(i, term[i])
<1>1. term[i] <= term[i]
  BY SMTT(60) DEF TypeOK
<1>2. Elected(i, term[i])
  BY DEF ElectionInv, LeadersElected
<1>3. \A m \in msgs : IsGrant(m) /\ m.from = i => m.term # term[i]
  BY DEF ElectionInv, GrantRemembered, Leader, Follower
<1> QED BY <1>1, <1>2, <1>3 DEF LedOnce

\* ElectionInv implies it,
LEMMA LeadersAreKnown ==
  ASSUME Counting
  PROVE  TypeOK /\ ElectionInv => LeadersKnown
BY LeaderLed, LedOnceUnique DEF LeadersKnown

\* in the next state as well.
LEMMA LeadersAreKnownNext ==
  ASSUME Counting
  PROVE  TypeOK' /\ ElectionInv' => LeadersKnown'
BY LeadersAreKnown, PTL

\* The logs and the MsgAppend of a typed state are stretches.
LEMMA StretchesTyped ==
  ASSUME TypeOK
  PROVE  Stretches \in SUBSET StretchType
<1>1. \A i \in Server : Stretch(0, 0, entries[i]) \in StretchType
  BY StretchHasType DEF TypeOK
<1>2. \A m \in msgs : Stretch(m.index, m.logTerm, m.entries) \in StretchType
  BY StretchHasType DEF TypeOK, Message
<1> QED BY <1>1, <1>2 DEF Stretches

-----------------------------------------------------------------------------
(* Steps that keep LogInv *)

\* The stretches after a step: logs, messages that were there, and new ones.
LEMMA StretchesNext ==
  ASSUME NEW f \in Stretches'
  PROVE  \/ \E i \in Server : f = Stretch(0, 0, entries'[i])
         \/ f \in Stretches
         \/ \E m \in msgs' \ msgs : /\ m.type = "MsgAppend"
                                    /\ f = Stretch(m.index, m.logTerm, m.entries)
BY DEF Stretches

\* What the stretches of LogInv are.
LEMMA StretchesOfInv ==
  ASSUME TypeOK, LogInv
  PROVE  /\ Stretches \in SUBSET StretchType
         /\ \A f \in Stretches : /\ f.index = 0 => f.logTerm = 0
                                /\ \A g \in Stretches : Agree(f, g)
         /\ \A i \in Server : /\ entries[i] \in Seq(Entry)
                              /\ Stretch(0, 0, entries[i]) \in Stretches
<1>1. \A i \in Server : entries[i] \in Seq(Entry)
  BY DEF TypeOK
<1>2. \A i \in Server : Stretch(0, 0, entries[i]) \in Stretches
  BY DEF Stretches
<1> QED BY <1>1, <1>2, StretchesTyped DEF LogInv, StretchesAgree

-----------------------------------------------------------------------------
(* Every step is one of them *)

\* What SendAppend sends is cut off from the log.
LEMMA AppendMsgCut ==
  ASSUME NEW i, NEW j, NEW t, NEW ents, NEW cmt, NEW n,
         NEW a, a = AppendMsg(i, j, t, ents, cmt, n)
  PROVE  /\ a.type = "MsgAppend" /\ a.from = i /\ a.to = j /\ a.term = t
         /\ Stretch(a.index, a.logTerm, a.entries) = Suffix(ents, n)
BY DEF AppendMsg, Msg, Stretch, Suffix

-----------------------------------------------------------------------------
(* The theorems *)

\* Logs are stretches that begin at index 0, so where they agree on a term
\* they are equal up to it.
LEMMA LogsAgreeAt ==
  ASSUME TypeOK, LogInv, NEW i \in Server, NEW j \in Server, NEW k \in 1..Len(entries[i]),
         k <= Len(entries[j]), entries[i][k].term = entries[j][k].term
  PROVE  /\ \A l \in 1..k : entries[i][l] = entries[j][l]
         /\ SubSeq(entries[i], 1, k) = SubSeq(entries[j], 1, k)
<1>1. /\ entries[i] \in Seq(Entry) /\ entries[j] \in Seq(Entry)
      /\ Len(entries[i]) \in Nat /\ Len(entries[j]) \in Nat
  BY SeqShape DEF TypeOK
<1>2. Agree(Stretch(0, 0, entries[i]), Stretch(0, 0, entries[j]))
  BY StretchesOfInv
<1>3. \A l \in 1..k : entries[i][l] = entries[j][l]
  <2>1. PICK f, g : f = Stretch(0, 0, entries[i]) /\ g = Stretch(0, 0, entries[j])
    OBVIOUS
  <2>2. f.index = 0 /\ f.entries = entries[i] /\ g.index = 0 /\ g.entries = entries[j]
    BY <2>1 DEF Stretch
  <2>3. f \in StretchType /\ g \in StretchType /\ Agree(f, g) /\ k \in Nat
    BY SMTT(60), <1>1, <1>2, <2>1 DEF Stretch, StretchType
  <2>4. Covers(f, k) /\ Covers(g, k)
    BY SMTT(60), <2>2 DEF Covers
  <2>5. f.entries[k - f.index].term = g.entries[k - g.index].term
    BY SMTT(60), <2>2
  <2>6. \A l \in Nat : l > f.index /\ l > g.index /\ l <= k =>
                         f.entries[l - f.index] = g.entries[l - g.index]
    BY <2>3, <2>4, <2>5, AgreeAt
  <2> QED BY SMTT(60), <2>2, <2>6
<1> QED BY SMTT(60), <1>3

-----------------------------------------------------------------------------
(* Logs and appends as stretches *)

\* The fields of a message.
LEMMA MessageFields ==
  ASSUME NEW m \in Message
  PROVE  /\ m.from \in Server /\ m.to \in Server /\ m.term \in Nat /\ m.index \in Nat
         /\ m.logTerm \in Nat /\ m.commit \in Nat /\ m.entries \in Seq(Entry)
         /\ m.reject \in BOOLEAN
BY DEF Message

\* for every node,
LEMMA NodeLogs == TypeOK => LogsShown
<1> SUFFICES ASSUME TypeOK, NEW i \in Server
             PROVE  LogShown(i)
  BY DEF LogsShown
<1>1. entries[i] \in Seq(Entry)
  BY DEF TypeOK
<1>2. PICK f : f = Stretch(0, 0, entries[i])
  OBVIOUS
<1>3. /\ f \in StretchType /\ f.index = 0 /\ Len(entries[i]) \in Nat
      /\ Last(f) = Len(entries[i])
      /\ Shown(f) = 0..Len(entries[i]) /\ Held(f) = 1..Len(entries[i])
      /\ TermIn(f, 0) = 0
      /\ \A k \in 1..Len(entries[i]) : TermIn(f, k) = entries[i][k].term
      /\ LastTerm(entries[i]) = TermIn(f, Len(entries[i]))
  BY <1>1, <1>2, LogView
<1>4. \A k \in 1..Len(entries[i]) : entries[i][k].term \in Nat
  <2> QED BY SMTT(60), <1>3, ViewType
<1>5. f \in Stretches
  BY <1>2 DEF Stretches
<1>6. Log(i) = f
  BY <1>2 DEF Log
<1> QED BY <1>3, <1>4, <1>5, <1>6 DEF LogShown

\* in the next state as well.
LEMMA NodeLogsNext == TypeOK' => LogsShown'
BY NodeLogs, PTL

\* An append and what it shows.
LEMMA AppendPart ==
  ASSUME TypeOK, NEW m \in msgs, IsAppend(m)
  PROVE  /\ Part(m) \in Stretches /\ Part(m) \in StretchType
         /\ Part(m).index = m.index /\ m.index \in Nat /\ Last(Part(m)) \in Nat
         /\ m.index <= Last(Part(m)) /\ TermIn(Part(m), m.index) = m.logTerm
         /\ m.index \in Shown(Part(m)) /\ Last(Part(m)) \in Shown(Part(m))
         /\ Last(Part(m)) = m.index + Len(m.entries)
<1>1. m \in Message /\ Part(m) \in Stretches
  BY DEF TypeOK, Stretches, Part, IsAppend
<1>2. Part(m) \in StretchType /\ m.index \in Nat
  BY <1>1, MessageFields, StretchHasType DEF Part
<1>3. Part(m).index = m.index /\ Part(m).logTerm = m.logTerm /\ Part(m).entries = m.entries
  BY DEF Part, Stretch
<1>4. Last(Part(m)) \in Nat /\ Part(m).index <= Last(Part(m))
  BY <1>2, ViewType
<1>5. m.index \in Shown(Part(m)) /\ Last(Part(m)) \in Shown(Part(m))
  BY SMTT(60), <1>2, <1>3, <1>4 DEF Shown
<1>6. TermIn(Part(m), m.index) = m.logTerm /\ Last(Part(m)) = m.index + Len(m.entries)
  BY <1>3 DEF TermIn, Last
<1> QED BY SMTT(60), <1>1, <1>2, <1>3, <1>5, <1>6

\* What SendAppend sends is a part of the log.
LEMMA SentPart ==
  ASSUME NEW e \in Seq(Entry), NEW n \in 1..(Len(e) + 1), NEW i, NEW j, NEW t, NEW c,
         NEW m, m = AppendMsg(i, j, t, e, c, n)
  PROVE  /\ IsAppend(m) /\ m.from = i /\ m.to = j /\ m.term = t /\ m.commit = c
         /\ Part(m) \in StretchType /\ Cut(Part(m), Stretch(0, 0, e))
<1>1. /\ m.type = "MsgAppend" /\ m.from = i /\ m.to = j /\ m.term = t
      /\ Part(m) = Suffix(e, n)
  BY SMTT(60), AppendMsgCut DEF Part
<1>2. m.commit = c
  BY DEF AppendMsg, Msg
<1> QED BY <1>1, <1>2, SuffixCut DEF IsAppend

-----------------------------------------------------------------------------
(* The four kinds of steps *)

\* What a leader that adds an entry does to the terms and the roles, and sends.
LEMMA CreatesActs ==
  ASSUME TypeOK, TypeOK', NEW i \in Server, Creates(i)
  PROVE  /\ state'[i] = Leader /\ term'[i] # 0
         /\ \A k \in Server : term[k] \in Nat /\ term'[k] \in Nat
         /\ \A k \in Server \ {i} :
              state'[k] = state[k] /\ term'[k] = term[k] /\ entries'[k] = entries[k]
         /\ \/ state[i] = Leader /\ term'[i] = term[i]
            \/ state[i] = Candidate /\ term'[i] = term[i]
            \/ Cardinality(Server) = 1 /\ term'[i] > term[i]
         /\ msgs \subseteq msgs'
         /\ \A n \in msgs' \ msgs : n.type = "MsgAppend"
<1>1. \A k \in Server : term[k] \in Nat /\ term'[k] \in Nat
  BY DEF TypeOK
<1>2. \A k \in Server \ {i} : entries'[k] = entries[k]
  <2>1. PICK e : entries' = [entries EXCEPT ![i] = e]
    BY DEF Creates
  <2> QED BY SMTT(60), <2>1
<1>3. msgs' = msgs \cup {AppendMsg(i, j, term'[i], entries'[i], commited'[i], next'[i][j]) :
                           j \in Server \ {i}}
  BY DEF Creates
<1>4. ASSUME NEW n \in msgs' \ msgs
      PROVE  n.type = "MsgAppend"
  BY SMTT(60), <1>3, AppendMsgCut
<1> QED BY <1>1, <1>2, <1>4 DEF Creates

\* Nobody but its leader has led the term in which an entry is created.
LEMMA CreatorLed ==
  ASSUME Counting, TypeOK, TypeOK', ElectionInv', NEW i \in Server, Creates(i),
         NEW j \in Server, LedOnce(j, term'[i])
  PROVE  i = j
<1>1. state'[i] = Leader /\ term'[i] \in Nat
  BY CreatesActs
<1>2. RolesKept
  BY SMTT(60), CreatesActs DEF RolesKept, IsGrant
<1>3. PICK t \in Nat : t = term'[i]
  BY <1>1
<1>4. LedOnce(j, t)'
  BY <1>2, <1>3, LedOnceStays
<1>5. LedOnce(j, term[i])'
  BY <1>3, <1>4
<1> QED BY <1>1, <1>5, LeadersAreKnownNext DEF LeadersKnown

\* A follower that accepts an append: its old log, the append and its new log.
LEMMA MergeShape ==
  ASSUME TypeOK, LogInv, NEW m \in msgs, Merges(m)
  PROVE  /\ IsAppend(m) /\ m.to \in Server /\ m.from \in Server /\ m.from # m.to
         /\ Merged(Log(m.to)', Log(m.to), Part(m)) /\ Agree(Log(m.to), Part(m))
         /\ Len(Merge(entries[m.to], m)) = Len(entries'[m.to])
         /\ \A k \in Server \ {m.to} : entries'[k] = entries[k]
<1>1. /\ IsAppend(m) /\ m.to \in Server /\ m.from \in Server /\ m.from # m.to
      /\ m \in Message /\ entries[m.to] \in Seq(Entry)
  <2>1. m \in Message /\ m.type = "MsgAppend"
    BY DEF TypeOK, Merges
  <2>2. m.from # m.to
    BY <2>1 DEF LogInv, OthersAddressed
  <2> QED BY <2>1, <2>2, MessageFields DEF TypeOK, IsAppend
<1>2. /\ m.index <= Len(entries[m.to])
      /\ m.index >= 1 => entries[m.to][m.index].term = m.logTerm
      /\ entries' = [entries EXCEPT ![m.to] = Merge(entries[m.to], m)]
  BY DEF Merges
<1>3. /\ entries'[m.to] = Merge(entries[m.to], m)
      /\ \A k \in Server \ {m.to} : entries'[k] = entries[k]
  BY <1>1, <1>2 DEF TypeOK
<1>4. Log(m.to) \in Stretches /\ Part(m) \in Stretches
  BY <1>1, NodeLogs, AppendPart DEF LogsShown, LogShown
<1>5. Agree(Log(m.to), Part(m)) /\ (m.index = 0 => m.logTerm = 0)
  <2>1. Part(m).index = m.index /\ Part(m).logTerm = m.logTerm
    BY DEF Part, Stretch
  <2> QED BY <1>4, <2>1 DEF LogInv, StretchesAgree
<1>6. PICK e, w, c, r : /\ e = entries[m.to] /\ w = Log(m.to) /\ c = Part(m)
                        /\ r = Stretch(0, 0, Merge(e, m))
  OBVIOUS
<1>7. /\ w = Stretch(0, 0, e) /\ c = Stretch(m.index, m.logTerm, m.entries)
      /\ r = Log(m.to)'
  BY <1>3, <1>6 DEF Log, Part
<1>8. Merged(r, w, c)
  BY <1>1, <1>2, <1>5, <1>6, <1>7, MergeView
<1> QED BY <1>1, <1>3, <1>5, <1>6, <1>7, <1>8

\* It sends one message, which acknowledges its whole log.
LEMMA MergeSends ==
  ASSUME TypeOK, LogInv, NEW m \in msgs, Merges(m)
  PROVE  \E n : /\ msgs' = msgs \cup {n} /\ IsAck(n)
                /\ n.type = "MsgAppendResponse" /\ n.from = m.to /\ n.to = m.from
                /\ n.term = m.term /\ n.index = Len(entries'[m.to])
<1>1. PICK x : x = Len(Merge(entries[m.to], m))
  OBVIOUS
<1>2. PICK n : n = AppendResponseMsg(m.to, m.from, m.term, FALSE, 0, x)
  OBVIOUS
<1>3. /\ n.type = "MsgAppendResponse" /\ n.from = m.to /\ n.to = m.from
      /\ n.term = m.term /\ n.index = x /\ n.reject = FALSE
  BY <1>2 DEF AppendResponseMsg, Msg
<1>4. msgs' = msgs \cup {n}
  BY <1>1, <1>2 DEF Merges
<1>5. x = Len(entries'[m.to])
  BY <1>1, MergeShape
<1> QED BY <1>3, <1>4, <1>5 DEF IsAck

-----------------------------------------------------------------------------
(* The theorems *)

\* An answer of a node's first leadership is one of its present term.
LEMMA FirstAnswers ==
  ASSUME TypeOK, ElectionInv, LogInv, ReplInv, NEW i \in Server, LeadsFirst(i),
         NEW m \in msgs, IsAck(m), m.to = i
  PROVE  m.term = term[i]
<1>1. m.from \in Server /\ m.term \in Nat /\ term[i] \in Nat
  BY MessageFields DEF TypeOK
<1>2. PICK a \in msgs : IsAppend(a) /\ a.from = i /\ a.term = m.term
  BY DEF ReplInv, AnswersWithin, Informs, IsAck, SentAppend
<1>3. m.term <= term[i]
  BY <1>2 DEF ElectionInv, LeaderMsgs, FromLeader, IsAppend
<1>4. m.term # 0
  BY <1>2 DEF LogInv, OthersAddressed, IsAppend
<1>5. Led(i, m.term)
  BY <1>2 DEF Led, FromLeader, IsAppend
<1>6. m.term \notin 1..(term[i] - 1)
  BY <1>5 DEF LeadsFirst
<1> QED BY SMTT(60), <1>1, <1>3, <1>4, <1>6

\* What a leader knows of the others when it leads for the first time.
LEMMA FirstMatch ==
  ASSUME TypeOK, ElectionInv, LogInv, ReplInv, NEW i \in Server, LeadsFirst(i),
         NEW j \in Server, i # j, match[i][j] # 0
  PROVE  \E m \in msgs : /\ IsAck(m) /\ m.from = j /\ m.to = i /\ m.term = term[i]
                         /\ m.index = match[i][j] /\ m.index <= Len(entries[i])
<1>1. PICK m \in msgs : IsAck(m) /\ m.from = j /\ m.to = i /\ m.index = match[i][j]
  BY DEF ReplInv, MatchAcked
<1>2. m.term = term[i]
  BY <1>1, FirstAnswers
<1>3. m.index <= Len(entries[i])
  BY <1>1, <1>2 DEF ReplInv, AnswersWithin, Informs, IsAck, LeadsFirst
<1> QED BY <1>1, <1>2, <1>3
=============================================================================
