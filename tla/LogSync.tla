------------------------------- MODULE LogSync -------------------------------
(***************************************************************************)
(* How the leader of a term brings the log of one follower into agreement  *)
(* with its own: HandleAppendEntries on the follower against               *)
(* HandleAppendEntriesResponse and SendAppend on the leader, with the      *)
(* heartbeats that make the leader send again.                             *)
(*                                                                         *)
(* A behaviour starts when the leader has just been elected in term        *)
(* MaxTerm (BecomeLeader has appended its entry and broadcast it) and the  *)
(* follower has not heard of it.  The two logs are any that the earlier    *)
(* leaders can have left.  The other nodes are down, and nothing is        *)
(* proposed or committed.                                                  *)
(***************************************************************************)
EXTENDS RaftCore

CONSTANTS leader, follower

ASSUME PairAssumption == {leader, follower} \subseteq Server /\ leader # follower

\* The logs the earlier terms may have left: terms never decrease.
OldLogs ==
  {l \in UNION {[1..n -> [term : 1..(MaxTerm - 1), data : {Noop}]] :
                  n \in 0..MaxIndex} :
     \A a, b \in DOMAIN l : a <= b => l[a].term <= l[b].term}

\* All entries of a term were written by one leader into one log, so a log
\* with an entry of that term continues the other one up to it.
Extends(l1, l2) ==
  \A a \in DOMAIN l1, b \in DOMAIN l2 :
    a <= b /\ l1[a].term = l2[b].term => SubSeq(l1, 1, a) = SubSeq(l2, 1, a)

Consistent(l1, l2) == Extends(l1, l2) /\ Extends(l2, l1)

SyncInit ==
  \E old, behind \in OldLogs :
    LET ents == Append(old, [term |-> MaxTerm, data |-> Noop])
        nxt  == [j \in Server |-> IF j = leader THEN Len(old) + 2
                                                ELSE Len(old) + 1]
    IN /\ Consistent(old, behind)
       /\ entries = [i \in Server |-> CASE i = leader   -> ents
                                        [] i = follower -> behind
                                        [] OTHER        -> old]
       /\ state = [i \in Server |-> IF i = leader THEN Leader ELSE Follower]
       /\ term = [i \in Server |-> IF i = follower THEN MaxTerm - 1 ELSE MaxTerm]
       /\ vote = [i \in Server |-> IF i = follower THEN None ELSE leader]
       /\ lead = [i \in Server |-> IF i = leader THEN i ELSE None]
       /\ votes = [i \in Server |-> [j \in Server |->
                     IF i = leader /\ j # follower THEN "granted" ELSE "none"]]
       /\ commited = [i \in Server |-> 0]
       /\ prs = [i \in Server |-> Server]
       /\ next = [i \in Server |-> IF i = leader THEN nxt
                                   ELSE [j \in Server |-> 1]]
       /\ match = [i \in Server |-> [j \in Server |->
                     IF i = leader /\ j = i THEN Len(ents) ELSE 0]]
       /\ leadTransferee = [i \in Server |-> None]
       /\ pendingConfIndex = [i \in Server |-> 0]
       /\ msgs = {AppendMsg(leader, follower, MaxTerm, ents, 0, Len(old) + 1)}

Between(m) == {m.from, m.to} = {leader, follower}

SyncNext ==
  \/ Beat(leader)
  \/ \E m \in msgs :
       /\ Between(m)
       /\ \/ HandleHeartbeat(m)
          \/ HandleHeartbeatResponse(m)
          \/ HandleAppendEntries(m)
          \/ HandleAppendEntriesResponse(m)

\* The leader keeps ticking, and every message the two nodes exchange is
\* delivered in the end, each refusal on its own (they differ in logTerm and
\* index).
Delivers(A(_)) == \E m \in msgs : Between(m) /\ A(m)

DeliversReject(t, k) ==
  \E m \in msgs : /\ Between(m) /\ m.logTerm = t /\ m.index = k
                  /\ HandleAppendReject(m)

SyncFairness ==
  /\ WF_vars(Beat(leader))
  /\ WF_vars(Delivers(HandleHeartbeat))
  /\ WF_vars(Delivers(HandleHeartbeatResponse))
  /\ WF_vars(Delivers(HandleAppendEntries))
  /\ WF_vars(Delivers(HandleAppendAck))
  /\ \A t \in 0..MaxTerm, k \in 0..(MaxIndex + 1) : WF_vars(DeliversReject(t, k))

SyncSpec == SyncInit /\ [][SyncNext]_vars /\ SyncFairness
-----------------------------------------------------------------------------
CaughtUp ==
  /\ entries[follower] = entries[leader]
  /\ match[leader][follower] = Len(entries[leader])

\* "The leader could bring a follower's log into consistency with its own",
\* whatever the two logs were (HandleAppendEntries, HandleAppendEntriesResponse).
FollowerCatchesUp == <>[]CaughtUp

\* The same where the two logs do not differ in their first entry: the search
\* of HandleAppendEntriesResponse for the point of agreement terminates.
AgreesOnFirst ==
  entries[follower] = <<>> \/ entries[follower][1] = entries[leader][1]

FollowerCatchesUpAboveFirst == AgreesOnFirst => <>[]CaughtUp
=============================================================================
