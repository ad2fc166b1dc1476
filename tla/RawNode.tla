------------------------------ MODULE RawNode ------------------------------
(***************************************************************************)
(* A cluster of RaftContext objects driven through RawNode                 *)
(* (src/raftcore/src/raw_node.cc): the application takes a Ready (EReady), *)
(* saves its entries to a MemoryStorage, sends its messages, applies its   *)
(* committed entries and calls Advance.  A node may crash between any two  *)
(* of these steps; RaftContext's constructor then restarts it from what    *)
(* the storage holds.                                                      *)
(*                                                                         *)
(* The application is not part of the repository.  It is modelled from the *)
(* comments on DReady and Config, in three respects that they leave open:  *)
(* whether it saves the hard state by reading the public fields of `raft'  *)
(* itself (EReady does not return it), whether its state machine survives  *)
(* a crash (then it passes the index as Config::applied), and whether it   *)
(* steps the node while it works on a Ready.  It passes the same peers at  *)
(* every start, since nothing ever stores a configuration.                 *)
(*                                                                         *)
(* stabled and applied complete the fields of RaftLog.  A message is in    *)
(* msgs_ until EReady; `sent' holds those the application has sent.  Nodes *)
(* outside Watched never crash, and their application works off every      *)
(* Ready at once, so nothing is recorded for them.                         *)
(***************************************************************************)
EXTENDS RaftCore

CONSTANTS
  Watched,         \* the nodes whose application may lag and crash
  SavesHardState,  \* the application saves term_, vote_ and commited_
  KeepsMachine,    \* the state machine of the application survives a crash
  Interleaves,     \* the node is stepped between EReady and Advance
  MaxCrashes       \* bound: the number of crashes

ASSUME RawNodeAssumption ==
  /\ Watched \subseteq Server
  /\ {SavesHardState, KeepsMachine, Interleaves} \subseteq BOOLEAN
  /\ MaxCrashes \in Nat

VARIABLES
  stabled,     \* raftLog_->stabled_
  applied,     \* raftLog_->applied_
  prevHardSt,  \* RawNode::prevHardSt
  stored,      \* MemoryStorage: ents_ after the dummy entry
  hardState,   \* MemoryStorage: hardState_
  ready,       \* the Ready the application works on, with its progress
  machine,     \* the entries the application has applied
  sent,        \* the messages the application has sent
  crashes      \* how often a node has crashed

readyVars == <<stabled, applied, prevHardSt, stored, hardState, ready, machine,
               sent, crashes>>
allVars   == <<vars, readyVars>>

EmptyHardState == [term |-> 0, vote |-> None, commit |-> 0]

\* Mutant: the vote is not part of the hard state.
HardStateNoVote(i) == [term |-> term[i], vote |-> None, commit |-> commited[i]]

HardState(i) == [term |-> term[i], vote |-> vote[i], commit |-> commited[i]]

NoReady == [phase |-> "none", first |-> 1, entries |-> <<>>, committed |-> <<>>,
            messages |-> {}, hard |-> EmptyHardState]

Min2(a, b) == IF a < b THEN a ELSE b
-----------------------------------------------------------------------------
(* RaftLog and RawNode *)

\* Mutant: entries that replace saved ones count as saved.
CutStabledNever(i) == stabled[i]

\* HandleAppendEntries lowers stabled_ below the first entry it replaces; no
\* other handler replaces entries.
CutStabled(i) ==
  LET replaced == {k \in DOMAIN entries[i] :
                     \/ k > Len(entries'[i])
                     \/ entries'[i][k].term # entries[i][k].term}
  IN IF replaced = {} THEN stabled[i]
     ELSE Min2(stabled[i], (CHOOSE k \in replaced : \A l \in replaced : k <= l) - 1)

\* Mutant: the first entry that is not saved is left out.
UnstableEntriesSkip(i) == SubSeq(entries[i], stabled[i] + 2, Len(entries[i]))

UnstableEntries(i) == SubSeq(entries[i], stabled[i] + 1, Len(entries[i]))

\* Mutants: the entries are taken from the last applied one on; the last
\* committed entry is left out.
NextEntsAgain(i) ==
  SubSeq(entries[i], IF applied[i] = 0 THEN 1 ELSE applied[i], commited[i])

NextEntsShort(i) == SubSeq(entries[i], applied[i] + 1, commited[i] - 1)

NextEnts(i) == SubSeq(entries[i], applied[i] + 1, commited[i])

Pending(i) == {m \in msgs : m.from = i} \ (sent \cup ready[i].messages)

HasReady(i) ==
  \/ HardState(i) \notin {EmptyHardState, prevHardSt[i]}
  \/ UnstableEntries(i) # <<>>
  \/ NextEnts(i) # <<>>
  \/ Pending(i) # {}

EReady(i) ==
  /\ i \in Watched
  /\ ready[i] = NoReady
  /\ HasReady(i)
  /\ ready' = [ready EXCEPT ![i] =
       [phase |-> "taken", first |-> stabled[i] + 1,
        entries |-> UnstableEntries(i), committed |-> NextEnts(i),
        messages |-> Pending(i), hard |-> HardState(i)]]
  /\ UNCHANGED <<vars, stabled, applied, prevHardSt, stored, hardState, machine,
                 sent, crashes>>

\* rd.hardSt is always empty, so prevHardSt stays; the storage is never
\* compacted, so MaybeCompact does nothing.
Advance(i) ==
  LET rd == ready[i]
  IN /\ rd.phase = "applied"
     /\ stabled' = [stabled EXCEPT ![i] =
          IF rd.entries = <<>> THEN @ ELSE rd.first + Len(rd.entries) - 1]
     /\ applied' = [applied EXCEPT ![i] = @ + Len(rd.committed)]
     /\ ready' = [ready EXCEPT ![i] = NoReady]
     /\ UNCHANGED <<vars, prevHardSt, stored, hardState, machine, sent, crashes>>
-----------------------------------------------------------------------------
(* The application *)

\* MemoryStorage::Append of entries that start at index first: what is stored
\* from there on is replaced; a gap is refused.
StorageAppend(ents, first, new) ==
  IF new = <<>> \/ first > Len(ents) + 1 THEN ents
  ELSE SubSeq(ents, 1, first - 1) \o new

\* "Entries specifies entries to be saved to stable storage BEFORE Messages
\* are sent."
SaveReady(i) ==
  LET rd == ready[i]
  IN /\ rd.phase = "taken"
     /\ stored' = [stored EXCEPT ![i] = StorageAppend(@, rd.first, rd.entries)]
     /\ hardState' = IF SavesHardState
                     THEN [hardState EXCEPT ![i] = rd.hard] ELSE hardState
     /\ ready' = [ready EXCEPT ![i].phase = "saved"]
     /\ UNCHANGED <<vars, stabled, applied, prevHardSt, machine, sent, crashes>>

SendReady(i) ==
  /\ ready[i].phase = "saved"
  /\ sent' = sent \cup ready[i].messages
  /\ ready' = [ready EXCEPT ![i].phase = "sent"]
  /\ UNCHANGED <<vars, stabled, applied, prevHardSt, stored, hardState, machine,
                 crashes>>

ApplyReady(i) ==
  /\ ready[i].phase = "sent"
  /\ machine' = [machine EXCEPT ![i] = @ \o ready[i].committed]
  /\ ready' = [ready EXCEPT ![i].phase = "applied"]
  /\ UNCHANGED <<vars, stabled, applied, prevHardSt, stored, hardState, sent,
                 crashes>>

\* A crash, and the constructors of RaftLog, RaftContext and RawNode.  What
\* msgs_ and the Ready held is lost.
Restart(i) ==
  LET last == Len(stored[i])
      kept == IF KeepsMachine THEN machine[i] ELSE <<>>
  IN /\ i \in Watched
     /\ crashes < MaxCrashes
     /\ crashes' = crashes + 1
     /\ SetRole(i, Follower, hardState[i].term, hardState[i].vote, None)
     /\ votes' = [votes EXCEPT ![i] = [j \in Server |-> "none"]]
     /\ entries' = [entries EXCEPT ![i] = stored[i]]
     /\ commited' = [commited EXCEPT ![i] = hardState[i].commit]
     /\ prs' = [prs EXCEPT ![i] = Server]
     /\ next' = [next EXCEPT ![i] = [j \in Server |-> last + 1]]
     /\ match' = [match EXCEPT ![i] = [j \in Server |-> IF j = i THEN last ELSE 0]]
     /\ SetTransferee(i, None)
     /\ \E p \in UninitPending :
          pendingConfIndex' = [pendingConfIndex EXCEPT ![i] = p]
     /\ stabled' = [stabled EXCEPT ![i] = last]
     /\ machine' = [machine EXCEPT ![i] = kept]
     /\ applied' = [applied EXCEPT ![i] = Len(kept)]
     /\ prevHardSt' = [prevHardSt EXCEPT ![i] = hardState[i]]
     /\ msgs' = msgs \ ({m \in msgs : m.from = i} \ sent)
     /\ ready' = [ready EXCEPT ![i] = NoReady]
     /\ UNCHANGED <<stored, hardState, sent>>
-----------------------------------------------------------------------------
RawInit ==
  /\ Init
  /\ stabled = [i \in Server |-> 0]
  /\ applied = [i \in Server |-> 0]
  /\ prevHardSt = [i \in Server |-> EmptyHardState]
  /\ stored = [i \in Server |-> <<>>]
  /\ hardState = [i \in Server |-> EmptyHardState]
  /\ ready = [i \in Server |-> NoReady]
  /\ machine = [i \in Server |-> <<>>]
  /\ sent = {}
  /\ crashes = 0

Steppable(i) == Interleaves \/ ready[i] = NoReady

\* What a step of some node leaves for RawNode.
Stepped ==
  /\ stabled' = [i \in Server |-> IF i \in Watched THEN CutStabled(i) ELSE 0]
  /\ sent' = sent \cup {m \in msgs' : m.from \notin Watched}
  /\ UNCHANGED <<applied, prevHardSt, stored, hardState, ready, machine, crashes>>

RaftStep ==
  /\ \/ \E i \in Server : Steppable(i) /\ Hup(i)
     \/ \E i \in Server, d \in Value : Steppable(i) /\ Propose(i, d)
     \/ \E m \in sent : Steppable(m.to) /\ Receive(m)
  /\ Stepped

ReadyStep(i) ==
  \/ EReady(i) \/ SaveReady(i) \/ SendReady(i) \/ ApplyReady(i) \/ Advance(i)

ReadyNext == \E i \in Server : ReadyStep(i)

Crash == \E i \in Server : Restart(i)

RawSpec == RawInit /\ [][RaftStep \/ ReadyNext \/ Crash]_allVars
-----------------------------------------------------------------------------
(* Properties *)

\* "log entries with index <= stabled are persisted to storage" (log.h): what
\* stabled_ covers is in the log and in the storage, entry by entry.  Entries
\* of the log that were replaced after they were saved must be saved anew.
StabledIsPersisted ==
  \A i \in Watched :
    /\ stabled[i] <= Len(entries[i]) /\ stabled[i] <= Len(stored[i])
    /\ \A k \in 1..stabled[i] : entries[i][k] = stored[i][k]

\* An accepted MsgAppend is acknowledged only when the entries up to the index
\* it names are in the storage: the leader of the term counts them, and a
\* crash must not take them back.
AcksAreDurable ==
  \A m \in sent :
    /\ m.type = "MsgAppendResponse" /\ ~m.reject
    /\ m.from \in Watched /\ m.term = term[m.from]
    => /\ m.index <= Len(stored[m.from]) /\ m.index <= Len(entries[m.from])
       /\ \A k \in 1..m.index : stored[m.from][k] = entries[m.from][k]

\* Every committed entry reaches the state machine of the application once and
\* in the order of the log, crashes included: what NextEnts hands out starts
\* where the state machine ends.
AppliedOnceInOrder ==
  \A i \in Watched :
    /\ Len(machine[i]) <= commited[i] /\ Len(machine[i]) <= Len(entries[i])
    /\ machine[i] = SubSeq(entries[i], 1, Len(machine[i]))

\* What is committed is applied in the end, unless a crash loses the commit
\* index: no step of EReady, Advance or a restart leaves an entry behind.
CommittedIsApplied ==
  \A i \in Watched, k \in 1..(MaxIndex + 1) :
    commited[i] >= k ~> Len(machine[i]) >= k \/ commited[i] < k

\* "HasReady called when RawNode user need to check if any Ready pending": it
\* announces a Ready only when there is something in it.
HasReadyMeansWork ==
  \A i \in Watched :
    ready[i] = NoReady /\ HasReady(i) =>
      \/ UnstableEntries(i) # <<>> \/ NextEnts(i) # <<>> \/ Pending(i) # {}
=============================================================================
