--------------------------- MODULE MemoryStorage ---------------------------
(***************************************************************************)
(* MemoryStorage (src/raftcore/src/memory_storage.cc) as one thread uses   *)
(* it.  ents_ starts with a dummy entry; an entry is found by its position *)
(* relative to the index of the dummy.                                     *)
(*                                                                         *)
(* Compact and CreateSnapshot call LastIndex while they hold mutex_, which *)
(* LastIndex locks again; std::mutex is not recursive.  The outcome that   *)
(* the build (glibc, default mutex) produces is that the thread waits for  *)
(* itself: `blocked'.  What the two functions do after that call is        *)
(* therefore never executed, and the dummy keeps index 0.                  *)
(***************************************************************************)
EXTENDS Integers, Sequences

CONSTANTS
  Terms,     \* terms of entries
  MaxIndex   \* bound: the largest index of an entry or snapshot

ASSUME StorageAssumption == Terms \subseteq Nat /\ MaxIndex \in Nat

VARIABLES
  ents,      \* ents_: a sequence of entries, the dummy first
  snapShot,  \* the metadata of snapShot_
  blocked,   \* the thread waits for mutex_, which it holds itself
  request    \* the batch of the last Append, by first index and terms

vars == <<ents, snapShot, blocked, request>>

Init ==
  /\ ents = <<[index |-> 0, term |-> 0]>>
  /\ snapShot = [index |-> 0, term |-> 0]
  /\ blocked = FALSE
  /\ request = [first |-> 1, terms |-> <<>>]
-----------------------------------------------------------------------------
(* The methods that read.  Position 0 of the code is position 1 here. *)

Offset == ents[1].index

FirstIndex == Offset + 1

LastIndex == Offset + Len(ents) - 1

Term(i) == IF i < Offset \/ i - Offset >= Len(ents) THEN 0
           ELSE ents[i - Offset + 1].term

\* Entries(lo, hi) for FirstIndex <= lo <= hi <= LastIndex + 1.
Entries(lo, hi) == SubSeq(ents, lo - Offset + 1, hi - Offset)
-----------------------------------------------------------------------------
(* The methods that write *)

\* Mutant: what is stored from the first new entry on is kept.
AppendAtKeeps(es, k, new) == es \o new

\* Mutant: the entry before the first new one is dropped as well.
AppendAtCuts(es, k, new) == SubSeq(es, 1, k - 1) \o new

\* The two branches of Append: k entries are kept.
AppendAt(es, k, new) == SubSeq(es, 1, k) \o new

\* Append of a batch: entries with the given terms and consecutive indexes
\* from first > Offset on, as RaftLog hands them out.  A batch that leaves a
\* gap is dropped (the branch that should panic).
AppendBatch(first, terms) ==
  LET k   == first - Offset
      new == [n \in 1..Len(terms) |-> [index |-> first + n - 1, term |-> terms[n]]]
  IN /\ ~blocked
     /\ terms # <<>>
     /\ first > Offset
     /\ ents' = IF Len(ents) >= k THEN AppendAt(ents, k, new) ELSE ents
     /\ request' = [first |-> first, terms |-> terms]
     /\ UNCHANGED <<snapShot, blocked>>

ApplySnapshot(snap) ==
  /\ ~blocked
  /\ snapShot.index < snap.index
  /\ snapShot' = snap
  /\ ents' = ents \o <<snap>>
  /\ UNCHANGED <<blocked, request>>

\* Compact returns at once for an index that is compacted already.
Compact(i) ==
  /\ ~blocked
  /\ i > Offset
  /\ blocked' = TRUE
  /\ UNCHANGED <<ents, snapShot, request>>

CreateSnapshot(i) ==
  /\ ~blocked
  /\ i >= snapShot.index
  /\ blocked' = TRUE
  /\ UNCHANGED <<ents, snapShot, request>>
-----------------------------------------------------------------------------
Batches == UNION {[1..n -> Terms] : n \in 1..MaxIndex}

AppendNext ==
  \E first \in 1..MaxIndex, terms \in Batches :
    first + Len(terms) - 1 <= MaxIndex /\ AppendBatch(first, terms)

CompactNext == \E i \in 1..MaxIndex : Compact(i) \/ CreateSnapshot(i)

SnapshotNext == \E i \in 1..MaxIndex, t \in Terms : ApplySnapshot([index |-> i, term |-> t])

\* The storage as RaftLog and the application use it: no snapshots.
StorageSpec == Init /\ [][AppendNext \/ CompactNext]_vars

SnapshotSpec == Init /\ [][AppendNext \/ SnapshotNext]_vars
-----------------------------------------------------------------------------
(* Properties *)

\* The log as LastIndex and Term show it.
Shown == [i \in 1..LastIndex |-> Term(i)]

Stable == INSTANCE StableLog WITH log <- Shown

\* Seen through LastIndex and Term, the storage is the log RawNode needs:
\* a batch that overlaps what is stored replaces it from its first index on.
ImplementsStableLog == Stable!Spec

\* A restart (RaftLog's constructor) reads from the storage, through
\* FirstIndex, LastIndex and Entries, every entry with its own index.
RecoversAll ==
  LET es == Entries(FirstIndex, LastIndex + 1)
  IN /\ Len(es) = LastIndex
     /\ \A k \in 1..Len(es) : es[k] = [index |-> k, term |-> Term(k)]

\* "Compact discards all log entries prior to compactIndex": Compact and
\* CreateSnapshot return.
NeverBlocked == ~blocked

\* "LastIndex returns the index of the last entry in the log", also after
\* ApplySnapshot has put an entry for the snapshot into the log.
LastIndexIsLast == LastIndex = ents[Len(ents)].index
=============================================================================
