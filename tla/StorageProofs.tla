--------------------------- MODULE StorageProofs ---------------------------
(***************************************************************************)
(* What TLAPS proves about MemoryStorage, for every set of terms and every *)
(* bound on the indexes.                                                   *)
(***************************************************************************)
EXTENDS MemoryStorage, SequenceTheorems, TLAPS

Entry == [index : Nat, term : Nat]

\* The inductive invariant: ents_ has no gaps, and since nothing ever gets
\* compacted (Compact and CreateSnapshot do not return) it starts at index 0.
StorageInv ==
  /\ ents \in Seq(Entry)
  /\ Len(ents) >= 1
  /\ \A k \in 1..Len(ents) : ents[k].index = k - 1

\* A new storage holds the dummy entry alone.
LEMMA StorageInit == Init => StorageInv
<1> SUFFICES ASSUME Init PROVE StorageInv
  OBVIOUS
<1>1. [index |-> 0, term |-> 0] \in Entry
  BY DEF Entry
<1>2. ents = <<[index |-> 0, term |-> 0]>>
  BY DEF Init
<1>3. ents \in Seq(Entry) /\ Len(ents) = 1 /\ ents[1] = [index |-> 0, term |-> 0]
  BY <1>1, <1>2
<1> QED BY <1>3 DEF StorageInv

\* The entries of a batch, as Append receives them.
NewEntries(first, terms) ==
  [n \in 1..Len(terms) |-> [index |-> first + n - 1, term |-> terms[n]]]

\* A batch that Append gets is a sequence of terms,
LEMMA BatchType ==
  ASSUME NEW terms \in Batches
  PROVE  terms \in Seq(Nat) /\ Len(terms) \in Nat
<1>1. PICK n \in 1..MaxIndex : terms \in [1..n -> Terms]
  BY DEF Batches
<1>2. n \in Nat
  BY StorageAssumption
<1>3. terms \in [1..n -> Nat]
  BY Zenon, <1>1, StorageAssumption
<1> QED BY <1>2, <1>3

\* and its entries have consecutive indexes.
LEMMA NewEntriesType ==
  ASSUME NEW terms \in Seq(Nat), NEW first \in Nat \ {0}
  PROVE  /\ NewEntries(first, terms) \in Seq(Entry)
         /\ Len(NewEntries(first, terms)) = Len(terms)
         /\ \A n \in 1..Len(terms) :
              NewEntries(first, terms)[n] = [index |-> first + n - 1, term |-> terms[n]]
<1>1. ASSUME NEW n \in 1..Len(terms)
      PROVE  [index |-> first + n - 1, term |-> terms[n]] \in Entry
  BY DEF Entry
<1> QED BY <1>1 DEF NewEntries

\* Concatenation, for entries
LEMMA ConcatEntries ==
  ASSUME NEW s \in Seq(Entry), NEW t \in Seq(Entry)
  PROVE  /\ s \o t \in Seq(Entry)
         /\ Len(s \o t) = Len(s) + Len(t)
         /\ \A i \in 1..(Len(s) + Len(t)) :
              (s \o t)[i] = IF i <= Len(s) THEN s[i] ELSE t[i - Len(s)]
BY ConcatProperties

\* and for terms.
LEMMA ConcatNats ==
  ASSUME NEW s \in Seq(Nat), NEW t \in Seq(Nat)
  PROVE  /\ s \o t \in Seq(Nat)
         /\ Len(s \o t) = Len(s) + Len(t)
         /\ \A i \in 1..(Len(s) + Len(t)) :
              (s \o t)[i] = IF i <= Len(s) THEN s[i] ELSE t[i - Len(s)]
BY ConcatProperties

\* What Append leaves, entry by entry, when the batch does not leave a gap.
LEMMA AppendEffect ==
  ASSUME StorageInv, NEW first \in 1..MaxIndex, NEW terms \in Batches,
         AppendBatch(first, terms), first <= Len(ents)
  PROVE  /\ ents' \in Seq(Entry)
         /\ Len(ents') = first + Len(terms)
         /\ \A k \in 1..first : ents'[k] = ents[k]
         /\ \A k \in (first + 1)..(first + Len(terms)) :
              ents'[k] = [index |-> k - 1, term |-> terms[k - first]]
<1> DEFINE kept == SubSeq(ents, 1, first)
           new  == NewEntries(first, terms)
<1>1. first \in Nat \ {0} /\ terms \in Seq(Nat)
  BY BatchType, StorageAssumption
<1>2. /\ new \in Seq(Entry) /\ Len(new) = Len(terms)
      /\ \A n \in 1..Len(terms) : new[n] = [index |-> first + n - 1, term |-> terms[n]]
  BY <1>1, NewEntriesType
<1>3. kept \in Seq(Entry) /\ Len(kept) = first /\ \A k \in 1..first : kept[k] = ents[k]
  BY <1>1 DEF StorageInv
<1>4. first - Offset = first /\ Len(ents) >= first - Offset
  BY <1>1 DEF StorageInv, Offset
<1>5. ents' = kept \o new
  BY <1>4 DEF AppendBatch, AppendAt, NewEntries
<1> HIDE DEF kept, new
<1>6. /\ kept \o new \in Seq(Entry)
      /\ Len(kept \o new) = Len(kept) + Len(new)
      /\ \A i \in 1..(Len(kept) + Len(new)) :
           (kept \o new)[i] = IF i <= Len(kept) THEN kept[i] ELSE new[i - Len(kept)]
  BY <1>2, <1>3, ConcatEntries
<1>7. ASSUME NEW k \in 1..first PROVE ents'[k] = ents[k]
  BY <1>1, <1>2, <1>3, <1>5, <1>6
<1>8. ASSUME NEW k \in (first + 1)..(first + Len(terms))
      PROVE  ents'[k] = [index |-> k - 1, term |-> terms[k - first]]
  <2>1. k \in 1..(first + Len(terms)) /\ ~(k <= first) /\ k - first \in 1..Len(terms)
        /\ first + (k - first) - 1 = k - 1
    BY <1>1
  <2>2. ents'[k] = new[k - first]
    BY <1>2, <1>3, <1>5, <1>6, <2>1
  <2> QED BY <1>2, <2>1, <2>2
<1>9. ents' \in Seq(Entry) /\ Len(ents') = first + Len(terms)
  BY <1>2, <1>3, <1>5, <1>6
<1> QED BY <1>7, <1>8, <1>9

\* Append and Compact keep the indexes of the storage consecutive.
LEMMA StorageNext == StorageInv /\ [AppendNext \/ CompactNext]_vars => StorageInv'
<1> SUFFICES ASSUME StorageInv, [AppendNext \/ CompactNext]_vars PROVE StorageInv'
  OBVIOUS
<1>1. CASE UNCHANGED ents
  BY <1>1 DEF StorageInv
<1>2. ASSUME NEW first \in 1..MaxIndex, NEW terms \in Batches, AppendBatch(first, terms)
      PROVE  StorageInv'
  <2>1. first \in Nat \ {0} /\ terms \in Seq(Nat)
    BY BatchType, StorageAssumption
  <2>2. CASE first <= Len(ents)
    <3>1. /\ ents' \in Seq(Entry)
          /\ Len(ents') = first + Len(terms)
          /\ \A k \in 1..first : ents'[k] = ents[k]
          /\ \A k \in (first + 1)..(first + Len(terms)) :
               ents'[k] = [index |-> k - 1, term |-> terms[k - first]]
      BY <1>2, <2>2, AppendEffect
    <3>2. ASSUME NEW k \in 1..Len(ents') PROVE ents'[k].index = k - 1
      <4>1. CASE k <= first
        <5>1. k \in 1..first /\ k \in 1..Len(ents)
          BY <2>1, <2>2, <4>1 DEF StorageInv
        <5> QED BY <3>1, <5>1 DEF StorageInv
      <4>2. CASE k > first
        <5>1. k \in (first + 1)..(first + Len(terms))
          BY <2>1, <3>1, <4>2
        <5>2. ents'[k] = [index |-> k - 1, term |-> terms[k - first]]
          BY <3>1, <5>1
        <5> QED BY <5>2
      <4> QED BY <2>1, <4>1, <4>2
    <3>3. Len(ents') >= 1
      BY <2>1, <3>1
    <3> QED BY <3>1, <3>2, <3>3 DEF StorageInv
  <2>3. CASE ~(first <= Len(ents))
    <3>1. ents' = ents
      BY <1>2, <2>1, <2>3 DEF AppendBatch, StorageInv, Offset
    <3> QED BY <1>1, <3>1
  <2> QED BY <2>2, <2>3
<1>3. CASE CompactNext
  BY <1>1, <1>3 DEF CompactNext, Compact, CreateSnapshot
<1> QED BY <1>1, <1>2, <1>3 DEF AppendNext, vars

\* ents_ never has gaps.
THEOREM StorageInvariant == StorageSpec => []StorageInv
BY StorageInit, StorageNext, PTL DEF StorageSpec

\* RaftLog's constructor finds every entry, with its own index, through
\* FirstIndex, LastIndex and Entries.
THEOREM RestartRecovers == StorageSpec => []RecoversAll
<1>1. StorageInv => RecoversAll
  <2> SUFFICES ASSUME StorageInv PROVE RecoversAll
    OBVIOUS
  <2>1. Offset = 0 /\ FirstIndex = 1 /\ LastIndex = Len(ents) - 1 /\ Len(ents) \in Nat
    BY DEF StorageInv, Offset, FirstIndex, LastIndex
  <2> DEFINE es == Entries(FirstIndex, LastIndex + 1)
  <2>2. es = SubSeq(ents, 2, Len(ents))
    BY <2>1 DEF Entries
  <2>3. Len(es) = LastIndex /\ \A k \in 1..Len(es) : es[k] = ents[k + 1]
    BY <2>1, <2>2 DEF StorageInv
  <2>4. ASSUME NEW k \in 1..Len(es) PROVE es[k] = [index |-> k, term |-> Term(k)]
    <3>1. k + 1 \in 1..Len(ents) /\ k \in Nat
      BY <2>1, <2>3
    <3>2. ents[k + 1] \in Entry /\ ents[k + 1].index = k
      BY <3>1 DEF StorageInv
    <3>3. Term(k) = ents[k + 1].term
      BY <2>1, <3>1 DEF Term
    <3> QED BY <2>3, <3>2, <3>3 DEF Entry
  <2> QED BY <2>3, <2>4 DEF RecoversAll
<1> QED BY <1>1, StorageInvariant, PTL
-----------------------------------------------------------------------------
(* The storage implements the log RawNode needs *)

\* The log that a storage shows are the terms after the dummy entry.
LEMMA ShownIsTerms ==
  StorageInv => /\ Shown \in Seq(Nat)
                /\ Len(Shown) = Len(ents) - 1
                /\ \A i \in 1..(Len(ents) - 1) : Shown[i] = ents[i + 1].term
<1> SUFFICES ASSUME StorageInv
             PROVE  /\ Shown \in Seq(Nat)
                    /\ Len(Shown) = Len(ents) - 1
                    /\ \A i \in 1..(Len(ents) - 1) : Shown[i] = ents[i + 1].term
  OBVIOUS
<1>1. Offset = 0 /\ LastIndex = Len(ents) - 1 /\ Len(ents) - 1 \in Nat
  BY DEF StorageInv, Offset, LastIndex
<1>2. ASSUME NEW i \in 1..(Len(ents) - 1)
      PROVE  Term(i) = ents[i + 1].term /\ Term(i) \in Nat
  <2>1. i + 1 \in 1..Len(ents)
    BY <1>1
  <2>2. ents[i + 1] \in Entry
    BY <2>1 DEF StorageInv
  <2>3. Term(i) = ents[i + 1].term
    BY <1>1 DEF Term
  <2> QED BY <2>2, <2>3 DEF Entry
<1> QED BY <1>1, <1>2 DEF Shown

\* An Append whose first index is not behind the log is a Save.
LEMMA AppendSaves ==
  ASSUME StorageInv, StorageInv', NEW first \in 1..MaxIndex, NEW terms \in Batches,
         AppendBatch(first, terms)
  PROVE  Stable!Save
<1>1. first \in Nat \ {0} /\ terms \in Seq(Nat) /\ Len(ents) \in Nat /\ Len(ents) >= 1
  BY BatchType, StorageAssumption DEF StorageInv
<1>2. request'.first = first /\ request'.terms = terms
  BY DEF AppendBatch
<1>3. /\ Shown \in Seq(Nat) /\ Len(Shown) = Len(ents) - 1
      /\ \A i \in 1..(Len(ents) - 1) : Shown[i] = ents[i + 1].term
  BY ShownIsTerms
<1>4. /\ Shown' \in Seq(Nat) /\ Len(Shown') = Len(ents') - 1
      /\ \A i \in 1..(Len(ents') - 1) : Shown'[i] = ents'[i + 1].term
  <2>1. (StorageInv => /\ Shown \in Seq(Nat) /\ Len(Shown) = Len(ents) - 1
                       /\ \A i \in 1..(Len(ents) - 1) : Shown[i] = ents[i + 1].term)'
    BY ShownIsTerms, PTL
  <2> QED BY <2>1
<1>5. CASE first <= Len(ents)
  <2>1. /\ Len(ents') = first + Len(terms)
        /\ \A k \in 1..first : ents'[k] = ents[k]
        /\ \A k \in (first + 1)..(first + Len(terms)) :
             ents'[k] = [index |-> k - 1, term |-> terms[k - first]]
    BY <1>5, AppendEffect
  <2> DEFINE kept == SubSeq(Shown, 1, first - 1)
  <2>2. /\ kept \in Seq(Nat) /\ Len(kept) = first - 1
        /\ \A i \in 1..(first - 1) : kept[i] = Shown[i]
    BY <1>1, <1>3, <1>5
  <2> HIDE DEF kept
  <2>3. /\ kept \o terms \in Seq(Nat)
        /\ Len(kept \o terms) = (first - 1) + Len(terms)
        /\ \A i \in 1..((first - 1) + Len(terms)) :
             (kept \o terms)[i] = IF i <= first - 1 THEN kept[i] ELSE terms[i - (first - 1)]
    <3>1. /\ kept \o terms \in Seq(Nat)
          /\ Len(kept \o terms) = Len(kept) + Len(terms)
          /\ \A i \in 1..(Len(kept) + Len(terms)) :
               (kept \o terms)[i] = IF i <= Len(kept) THEN kept[i] ELSE terms[i - Len(kept)]
      BY <1>1, <2>2, ConcatNats
    <3> QED BY ONLY <2>2, <3>1
  <2>4. Len(Shown') = Len(kept \o terms)
    BY <1>1, <1>4, <2>1, <2>3
  <2>5. ASSUME NEW i \in 1..Len(Shown') PROVE Shown'[i] = (kept \o terms)[i]
    <3>1. i \in 1..(Len(ents') - 1) /\ i \in 1..((first - 1) + Len(terms))
      BY <1>1, <1>4, <2>1
    <3>2. Shown'[i] = ents'[i + 1].term
      BY <1>4, <3>1
    <3>3. CASE i <= first - 1
      <4>1. i + 1 \in 1..first /\ i \in 1..(Len(ents) - 1) /\ i \in 1..(first - 1)
        BY <1>1, <1>5, <3>1, <3>3
      <4> QED BY <1>3, <2>1, <2>2, <2>3, <3>1, <3>2, <3>3, <4>1
    <3>4. CASE ~(i <= first - 1)
      <4>1. /\ i + 1 \in (first + 1)..(first + Len(terms))
            /\ (i + 1) - first = i - (first - 1)
        BY <1>1, <3>1, <3>4
      <4>2. ents'[i + 1] = [index |-> (i + 1) - 1, term |-> terms[(i + 1) - first]]
        BY <2>1, <4>1
      <4>3. ents'[i + 1].term = terms[i - (first - 1)]
        BY <4>1, <4>2
      <4> QED BY <2>3, <3>1, <3>2, <3>4, <4>3
    <3> QED BY <3>3, <3>4
  <2>6. Shown' = kept \o terms
    BY <1>4, <2>3, <2>4, <2>5, SeqEqual
  <2>7. ~(request'.first > Len(Shown) + 1)
    BY <1>1, <1>2, <1>3, <1>5
  <2> QED BY <1>2, <2>6, <2>7 DEF kept, Stable!Save
<1>6. CASE ~(first <= Len(ents))
  <2>1. ents' = ents
    BY <1>1, <1>6 DEF AppendBatch, StorageInv, Offset
  <2>2. Shown' = Shown
    BY <2>1 DEF Shown, LastIndex, Offset, Term
  <2>3. request'.first > Len(Shown) + 1
    BY <1>1, <1>2, <1>3, <1>6
  <2> QED BY <2>2, <2>3 DEF Stable!Save
<1> QED BY <1>5, <1>6

\* Seen through LastIndex and Term, MemoryStorage is a log in which an append
\* replaces what is stored from its first index on and a gap is refused.
THEOREM StorageRefinesLog == StorageSpec => ImplementsStableLog
<1>1. Init => Stable!Init
  <2> SUFFICES ASSUME Init PROVE Stable!Init
    OBVIOUS
  <2>1. LastIndex = 0
    BY DEF Init, LastIndex, Offset
  <2>2. Shown = <<>>
    BY <2>1 DEF Shown
  <2> QED BY <2>2 DEF Init, Stable!Init
<1>2. StorageInv /\ StorageInv' /\ [AppendNext \/ CompactNext]_vars
        => [Stable!Save]_<<Shown, request>>
  <2> SUFFICES ASSUME StorageInv, StorageInv', [AppendNext \/ CompactNext]_vars
               PROVE  [Stable!Save]_<<Shown, request>>
    OBVIOUS
  <2>1. CASE UNCHANGED <<ents, request>>
    BY <2>1 DEF Shown, LastIndex, Offset, Term
  <2>2. CASE AppendNext
    BY <2>2, AppendSaves DEF AppendNext
  <2>3. CASE CompactNext
    BY <2>1, <2>3 DEF CompactNext, Compact, CreateSnapshot
  <2> QED BY <2>1, <2>2, <2>3 DEF vars
<1> QED BY <1>1, <1>2, StorageInvariant, PTL DEF StorageSpec, ImplementsStableLog, Stable!Spec
=============================================================================
