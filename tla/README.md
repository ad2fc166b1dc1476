# eraft: TLA+ models, checks and proofs

eraft is a distributed key-value store in C++. Its repository holds a Raft
library in the style of etcd (`src/raftcore`), the protobuf messages
(`src/protocol`), an epoll network server with a Redis-like protocol
(`src/network`), a storage engine over pmemkv (`src/storage`) and a server
program (`src/cmd`). This directory models the Raft library, from elections to
the storage, and the network server, from its thread pool to the commands. It
checks the models with TLC and proves what matters most with TLAPS.
`PROJECT.json` lists the runs, the theorems, the findings, the hazards, and the
source lines behind every definition.

## 1. The system

| part | state | operations | hard behaviour |
|---|---|---|---|
| `RaftContext` (`raft.cc`) | role, term, vote, votes, leader, peers with next/match, transferee, pending configuration change, timers, outgoing messages | `Tick`, `Step` (one handler per message and role), `AddNode`, `RemoveNode`, `ReadMessage` | messages lost, duplicated, reordered; campaigns that race; a deposed leader that comes back; transfers that race an election |
| `RaftLog` (`log.cc`) | entries, commited, applied, stabled, firstIndex, pending snapshot | `LastIndex`, `Term`, `UnstableEntries`, `NextEnts`, `MaybeCompact` | unsigned index arithmetic at the first entry; cutting below stabled |
| `RawNode` (`raw_node.cc`) | previous hard state | `Campaign`, `Propose*`, `ApplyConfChange`, `EReady`, `HasReady`, `Advance`, `TransferLeader` | what is persisted between a Ready and its `Advance`; restart |
| `MemoryStorage` | entries after a dummy, hard state, snapshot, mutex | `Append`, `Compact`, `CreateSnapshot`, `ApplySnapshot`, reads | a mutex locked twice by one thread; position against index after compaction |
| `AsyncBuffer`, `CircularBuffer`, `UnboundedBuffer` | a ring, an overflow buffer, a buffer being sent | `Write`, `ProcessBuffer`, `Skip` | writer and sender thread without a common lock |
| `ThreadPool` | tasks, waiters, pending stop signals | `ExecuteTask`, worker, monitor, `JoinAll` | stop signals taken by another worker; shutdown |
| `NetThreadPool`, `TaskManager`, `Server` | connections known to each thread, new connections | accept, read, write, remove, parse | a connection handed between three threads with `try_lock` |
| `StreamSocket`, `Epoller` | `epollOut_`, send buffer | `Send`, write event | partial writes whose rest is never sent |
| `ProtoParser`, `Client` | parse state | `ParseRequest`, `_HandlePacket` | state kept while the bytes are fed again |
| `Executor`, commands | a table, a handle | `set`, `get`, `del`, `scan` | none of their own |

The application drives a `RawNode`: it ticks it, steps the messages it receives
into it, and sends the messages it reads out. All operations of one node run on
one thread; the concurrency of the Raft library is that of several nodes and of
the network between them. The network server and the Raft library are not
connected yet: `raft_store.h` and its neighbours are declarations only.

The server has three kinds of threads: the main loop (parsing, commands), the
`RecvThread` (accepting, reading) and the `SendThread`. A connection is shared
by the three, its receive buffer by two of them without a lock, its send buffer
by two with a lock for the overflow only.

## 2. Modules

| module | contents |
|---|---|
| `RaftCore` | a cluster of `RaftContext` objects with their logs; every handler is an action; the properties |
| `MCRaftCore` | `RaftCore` on an unrestricted network, its elections alone, and the bound on campaigns |
| `MCPartitions` | `RaftCore` when a schedule chooses who campaigns, who is asked to hand over and which messages of a term get through |
| `MCStaleMatch` | one such choice in a cluster of five |
| `LogSync` | leader and follower alone, from any two logs, with fairness |
| `RawNode` | `RaftCore` composed with `RawNode`, the storage and an application that takes, saves, sends and applies; crashes and restarts |
| `MCRawPartitions` | `RawNode` under such schedules |
| `Membership`, `MCMembership` | `RaftCore` with `AddNode` and `RemoveNode`; its instances |
| `MemoryStorage`, `StableLog` | the storage, and the log it implements |
| `CircularBuffer` | what the methods of the ring compute |
| `RecvBuffer`, `ByteStream` | the receive buffer between two threads, and the queue of bytes it implements |
| `AsyncBuffer`, `PacketChannel` | the send buffer between two threads, and the channel of packets it implements |
| `NetThreads` | connections between three threads |
| `ThreadPool` | tasks, workers, monitor, shutdown |
| `Requests`, `MCRequests` | the parser, the client object and the commands; its instance |
| `RaftInvariants` | the definitions that the proofs about `RaftCore` share: stretches of logs, the four kinds of steps, the replication invariant |
| `StretchProofs` | lemmas about the operators: sequences, sizes, what stretches show, what a step of each kind does |
| `ElectionProofs` | type correctness, the steps of election safety, every handler is one of the four kinds of steps |
| `ReplicationProofs` | the steps of log matching and of the replication invariant |
| `CommitProofs` | what is acknowledged by a majority is never lost; what is committed was |
| `RaftCoreProofs` | the theorems about `RaftCore`, put together from these |
| `StorageProofs`, `RecvBufferProofs`, `NetThreadsProofs` | the proofs about these modules |

### How RaftCore corresponds to the code

One action is one call of `Step` or `Tick`, from the first statement to the
return. A variable is the field of the same name, indexed by the node. `votes`
tells apart a ballot that is missing, granted and refused, which is what
`std::map<uint64_t, bool>` tells apart. `entries[i]` is the log from index 1:
nothing compacts in these modules, so `firstIndex_` is 1.

`Step` first compares terms: a larger `m.term` makes the node a follower and
abandons a transfer (`StepState`, `StepTerm`, `StepVote`, `StepLead`,
`StepTransferee`). The action then continues with the fields as that prologue
left them, so the dispatch by role is the dispatch by the new role. A message
that the role ignores but whose term is newer still has that effect
(`StepNewerResponse`).

| code | action |
|---|---|
| `TickElection`, `RawNode::Campaign`, `DoElection` | `Hup`, `DoElection` |
| `HandleRequestVote`, `HandleRequestVoteResponse` | the actions of these names, with `BecomeLeader` |
| `AppendEntries` by `Propose`, `ProposeSplitRegion`, `ProposeConfChange` | `Propose`, `ProposeConfChange` |
| `HandleAppendEntries`, `HandleHeartbeat` | the actions of these names |
| `HandleAppendEntriesResponse` with `LeaderCommit` | `HandleAppendEntriesResponse`: `HandleAppendReject` or `HandleAppendAck` |
| `TickHeartbeat`, `MsgHeartbeatResponse` | `Beat`, `HandleHeartbeatResponse` |
| `RawNode::TransferLeader`, `HandleTransferLeader` and its forwarding | `TransferLeader`, `HandleTransferLeader` |
| `TickTransfer`, `MsgTimeoutNow` | `TransferTimeout`, `HandleTimeoutNow` |

Abstractions:

- `msgs` is the set of all messages sent. A message in it may be received at
  any time, any number of times, or never: loss, delay, reordering and
  duplication. The transport is not part of the repository.
- A timeout may expire at any moment; the tick counters are left out.
- A payload is a model value. The empty entry of a new leader is `Noop`, a
  configuration change is `ConfChange`.
- `pendingConfIndex_` is not initialised by the constructor: `Init` lets it be
  any member of `UninitPending`. Line 752 spells it `pendingConfIndex`, which is
  no member; it is read as `pendingConfIndex_`.
- `fIndex` (line 715) may be read uninitialised. `FIndexInitialised` states when
  it is, so the value chosen for it does not matter where that holds.
- `MaxTerm` bounds campaigns and `MaxIndex` proposals, in the guards.

### How RawNode corresponds to the code

`stabled`, `applied` and `prevHardSt` are the fields; `stored` and `hardState`
are the storage. `EReady`, `Advance` and `HasReady` are one step each. The
application is not in the repository, so it is external: `SaveReady`,
`SendReady`, `ApplyReady`, in the order the comments of `DReady` demand, and
three constants for what they leave open. `SavesHardState`: `EReady` does not
return the hard state (the lines are commented out), so an application can save
it only by reading the fields of `raft` itself. `KeepsMachine`: whether the
state machine survives a crash. `Interleaves`: whether `Step` is called between
`EReady` and `Advance`. `Restart` is the constructors of `RaftLog`,
`RaftContext` and `RawNode` on what the storage holds; it may come between any
two steps. The nodes outside `Watched` handle every Ready at once and never
crash. Heartbeats and transfers are left out here.

### How Membership corresponds to the code

One change per log: `Node` joins or leaves the group that `change`, a member of
`Changes`, names; servers outside that group never run. `ApplyConfChange` calls `AddNode` or
`RemoveNode`, with the `LeaderCommit` of the latter, on each node at a time of
its own. `AnswerOfStranger` is the null `Progress` that
`HandleAppendEntriesResponse` follows. A removed node stops when it has applied
its own removal. `MCMembership` chooses who can talk to whom in each term, since
a change adds too many states for an unrestricted network.

### How the storage and the buffers correspond to the code

`MemoryStorage` is used by one thread. `AppendBatch` is `Append`; `Compact` and
`CreateSnapshot` end where they call `LastIndex` with the mutex held: the thread
waits for itself (`blocked`), and what follows in these functions is never
executed.

`RecvBuffer` and `AsyncBuffer` take one step per access to `readPos_`,
`writePos_`, `backBytes_` or the lock, so that the other thread may come between
a check and what relies on it. The positions are `std::atomic`. Bytes are
numbered, or tagged with packet, position and length, so that losing, doubling,
overwriting and reordering them can be told apart. `readv` and `writev` handle
any number of bytes up to what they are given. `_HandlePacket` takes all of a
datum (`ParseTake`) or nothing (`ParseBreak`); `RecvBuffer` leaves open which,
and `Requests` says. When `writev` takes less than it is offered, `epollOut_` is
set and `Send` returns at once from then on. Only `OnWriteable` would resume it.
`AsyncBuffer` has that action, so that the buffer is checked for what follows a
short write, but without fairness: in the program nothing calls it
(`WriteEvent.cfg`, section 5).

### How the server's threads correspond to the code

In `NetThreads` a step is what one thread does to one connection. A request is
`Parts` pieces, since TCP may cut it; the pieces in the socket and in `recvBuf_`
are counted, and so are the replies. `RecvData` reads what there is room for:
with `Capacity` pieces in `recvBuf_` neither data nor the end of the stream is
read. `MainHandle` replies to the request at the head and takes all that is in
`recvBuf_`, whatever came behind the request included. When there is no whole
request at the head, the bytes stay and the parser may keep a part of them
(`MainBreak`). It then makes nothing of them, or takes some later bytes for a
parameter and replies to that (`MainMistake`); neither is certain. `SendPoll` is the code as it is: `OnWritable` is the base class's, so that the
event leads to `OnError`.

In `ThreadPool` a step is one critical section of `mutex_`. The tasks in
`endless`, as the two network threads of the server are, return after
`StopAllThreads` only; `Init` chooses them among the members of `Endless`. After
the monitor's count has wrapped round (`wrapped`) nothing is claimed.

In `Requests` the bytes of a request are its lines, with their sizes, and TCP
may cut a request between any two. `cut` records that `_HandlePacket` was called
when only a part of a request was there. The key-value store, pmemkv, is a set
of pairs; that one of its operations fails is not modelled.

## 3. Runs

Runs that pass:

| run | instance | what it shows |
|---|---|---|
| `elections` | 3 nodes, 2 terms, at most 3 campaigns; votes and the appends that bear on them | `OneLeaderPerTerm`; `ElectionInv`, the invariant behind its proof; `TypeOK` |
| `partitions` | 3 nodes, 3 terms; three families of schedules | `LogMatching`, `LeaderCompleteness`, `StateMachineSafety`, `CommittedIsStable`, `CommittedOnMajority`, `MatchIsReplicated`, `HandoverComplete` |
| `log_sync` | 1 leader, 1 follower, logs of up to 4 entries of 3 terms | `FollowerCatchesUpAboveFirst`, `NextInBounds`, `FIndexInitialised` |
| `ready` | 3 nodes, 2 terms, 1 crash; the application saves the hard state | `StabledIsPersisted`, `AcksAreDurable`, `AppliedOnceInOrder`, `CommittedIsApplied`, `OneLeaderPerTerm` |
| `membership` | one node of three joins or leaves, or one of two leaves; 3 terms | `OneLeaderPerTerm` while old and new group are in use, `AloneCommitsAll` |
| `storage` | batches of 2 terms up to index 4 | `ImplementsStableLog`, `RecoversAll` |
| `recv_buffer` | ring of 8 bytes, requests of 6, 16 bytes | `DatumIsNext`, `AssertsHold`, `ImplementsByteStream`, `RequestsReachParser` |
| `async_buffer` | ring of 4 bytes, 4 packets of 1, 2 or 4 bytes | `AssertsHold`, `OnlyOverflowOvertakes`, `ImplementsPacketChannel`, `AllSent` |
| `net_threads` | 2 connections, one slow with 2 requests of 2 pieces, one silent; buffers of 3 pieces | `PolledAreHeld`, `OnlySlowDrops`, `ClosedIsReleased`, `RequestsAreAnswered` |
| `thread_pool` | 4 tasks, none or 2 of them endless, 1 idle worker allowed | `JoinedMeansDone`, `TasksStart`, `JoinReturns` |
| `requests` | 3 requests of 12 kinds, whole or in pieces | `ExecutedAsSent`, `GetsAreAnswered`, `AllAnswered` |

`stale_match` shows a finding (section 5). The other configurations of this
directory are not runs: they reproduce the observations of section 5.

Deadlock is checked in `log_sync` only, which beats for ever: the other systems
stop when they have used up their bounds, or because a client or the server has
finished.

### Bounds

Three nodes are the smallest cluster with a majority that is not the whole. Two
terms with three campaigns include two candidates of one term, a candidate that
lost and votes again in its term, and a campaign that answers a late message.
Votes and their answers are delivered in any order and number. So are the appends
of the first term, which change the logs that the votes of the second compare;
appends of the second term reach only candidates and leaders, whom they depose.

`partitions` has three families of schedules. `Pairs` has the three terms of the
classical hard case, an old leader that comes back with a long log after another
one has led without it; every term has the smallest majority, the most adverse
one. In the histories without a comeback clients propose nothing. `Pairs` does not
include partitions in which a term reaches all three nodes. In `Steady` one
node leads all three and loses nothing: its log has two entries, so appends and
heartbeats of different lengths, and the answers to them, overtake each other.
In `Handing` the leader of the first term is asked to hand over, by itself or
through the follower, while clients propose and the transfer may time out.

The logs of `log_sync` have three earlier terms, so the search for the agreement
takes several refusals. `ready` has a fixed pair of leaders, of which the second
replaces what the first has appended, saved or not, acknowledged or not; and two
candidates of one term that both ask the node that crashes, which is what a
second vote needs. In `membership` the change is proposed in the first term, a
second term is started in vain and two nodes compete in the third, with any part
of the nodes having applied the change.

The ring of `recv_buffer` holds one request of 6 bytes and not two, so that it
wraps at every offset, fills up, and a request is cut at the end of the ring. In
`async_buffer` a packet of 4 bytes never fits the ring (one slot stays free),
and four packets can fill the ring, overflow, be swapped and overflow again.
Two connections are enough for one to disturb the other; the one without requests
is accepted, watched, swept and closed like any. Two requests in four pieces,
three of which fit the buffer, can be met whole, in parts, and one behind the
other; the buffer can be left in the middle of a request and be clogged. Four tasks are enough
for two idle workers above the limit, of which one is stopped, while a task
comes.

### Fairness

- `LogSync`. `WF(Beat)`: the application ticks the leader for ever. Weak
  fairness of the deliveries between the two nodes: the heartbeats keep the
  leader sending the append anew, so a network that does not lose everything
  delivers one in the end. Each refusal (one per term and index) is delivered in
  its own right, because the set of messages keeps older ones available, and an
  older one alone must not satisfy the fairness.
- `RawNode`: the application goes on with its Ready loop. Nothing is assumed of
  the network or of crashes.
- `RecvBuffer`, `AsyncBuffer`: both threads loop for ever. The strong fairness
  of reading says that the peer goes on: `readv` does not find nothing for ever.
  Nothing is assumed of `writev`: `AllSent` is about the time until it first
  takes less than it is offered.
- `NetThreads`: each thread loops for ever and turns to every connection; a slow
  client reads in the end. Nothing says that clients send or close, nor what the
  parser makes of a part of a request. The
  `try_lock` of `newTasks_` is retried in every round, and its mutex is held for
  a push only.
- `ThreadPool`: strong fairness of each worker, because others may hold the
  mutex again and again; the operating system lets each have it in the end.
  Nothing is assumed of those who submit tasks, of the monitor's rounds or of
  the shutdown.
- `Requests`: TCP delivers, and the main loop goes round.

## 4. Proofs

The theorems hold for every value of the constants: every cluster size, capacity
of the ring, number of connections, and every bound. Assumptions:
`ServerAssumption` (finitely many nodes, `None` is none of them),
`UninitAssumption` and `BoundAssumption` (the bounds are natural numbers);
`StorageAssumption`; `SizeAssumption` (a ring has at least two slots; that it is
a power of 2 is not needed once `&` is `Mask`) and `RecvAssumption`;
`NetAssumption`.

`TypeCorrect`: `Spec => []TypeOK`. The content is the arithmetic: `next - 1`,
the slice index in a refusal and the retry index never fall below zero, and the
match index that `LeaderCommit` picks exists. The type invariant is inductive as
it stands, because messages are typed with it.

`ElectionSafe`: `Spec => []OneLeaderPerTerm`. The usual argument, one vote per
node and term, is not available: `BecomeFollower` clears `vote_` even within a
term, and a candidate that lost does vote again (`VoteTwice.cfg`, section 5).
`ElectionInvariant` proves the replacement, `ElectionInv`:

1. a candidate or leader holds its own vote (`OwnVote`);
2. a node that granted a vote in its current term is a follower that remembers
   it (`GrantRemembered`), because only a candidate that lost clears it, and a
   candidate has granted none;
3. so no node grants two votes of a term (`GrantUnique`), and none that led a
   term grants one in it (`LeaderGrantsNone`);
4. a candidate counts only ballots that were granted in its term
   (`BallotsGranted`), and a leader was elected by a majority of them and
   itself (`LeadersElected`).

Two leaders of a term share a supporter by counting. If it granted both a vote
they are the same node by 3. If it is one of them it led the term and granted
the other a vote, against `LeaderGrantsNone` or `GrantRemembered`. The proof of
preservation has one lemma per kind of step: steps that leave elections alone
(`QuietStep`), steps that only make followers (`FollowersStep`, `HeardStep`),
terms that rise (`RiseStep`), votes, counts, campaigns, and a leader's messages.

`LogInvariant`: `Spec => []LogInv`, and `LogsMatch`:
`Spec => []LogMatching`. `LogMatching` speaks of logs only and is not inductive:
an append that was sent long ago changes a log when it arrives. `LogInv`
therefore speaks of *stretches*, which are the logs and the entries of every
`MsgAppend` ever sent, together with the index and the term before them:

1. any two stretches agree: where both hold an entry of the same term at the
   same index they are equal as far back as both reach, and the term before the
   shorter one is the one the longer one holds there (`StretchesAgree`);
2. the log of a leader reaches as far as any entry of its term
   (`LeaderCreatedAll`), so that an entry it creates is new;
3. the entries of a term were created by a node that was elected in the term,
   still leads it or has left it, and granted no vote in it
   (`EntriesOfLeaders`). So a node that becomes leader finds no entry of its
   term, for there would be two nodes elected in it, against `ElectionInv`.

From here on the handlers appear only through what they do to logs. `StepKinds`
shows that every step of `Next` is one of four kinds (`Moves` in
`RaftInvariants`): leaders send and keep track of answers (`Sends`), a node
campaigns or answers (`Hears`), a leader creates an entry (`Creates`), or a
follower merges an append and acknowledges it (`Merges`). The invariants below
have one lemma per kind. When a follower merges, the check of the previous term
makes the stretch and the log agree before the stretch, and `MergeAgrees` shows
that what results, an overwritten, extended or unchanged log, agrees with every
stretch that agreed with both. The proof needs the whole `Merge`, including the
case in which an old append must not cut a longer log.

`ReplInvariant`: `Spec => []ReplInv`. Terms never fall along a stretch, and the
entries of one term are a run of indexes in all of them; what a leader has and
sends ends with an entry of its own term; an acknowledged entry is of the term
of the acknowledgement and stays while that term lasts; a refusal names a term
below its own; a match index was acknowledged, if perhaps in an earlier term.
From it follow four properties of the runs, for every cluster:

- `MatchesReplicated`: `match` tells the truth about the followers of its term;
- `ProgressInBounds`: neither `next` nor `match` passes the end of the log;
- `FIndexNeverUninitialised`: the term a refusal names is below the leader's,
  and the leader's log ends with its own, so the search always finds an index;
- `HandsOverWholeLog`, an action property: `MsgTimeoutNow` goes only to a node
  that has the whole log.

The three about `match` speak of a node that leads for the first time
(`LeadsFirst`): `BecomeLeader` keeps the match indexes of an earlier term, so
they are false of a node that leads again, as `stale_match` shows.
`LoneLeaderCommits` (`AloneCommitsAll`, in a fixed group) needs the four kinds
only.

Commitment. `LeaderCompleteness` and `StateMachineSafety` are not theorems of
`RaftCore` for every cluster, because `LeaderCommit` counts match indexes of
earlier terms, and half of the nodes when a configuration change is pending
(section 5). The proof separates what depends on this from what does not.

- `AckInvariant`, for every cluster of several nodes, says nothing of commits.
  An entry is *chosen* when more than half of the nodes acknowledged it in its
  term, and *dead* when more than half have left the term without doing so; it
  cannot be both. A stretch with an entry of a later term goes without an entry
  only if that entry is dead (`LostIsDead`), and a vote granted, a vote asked
  for or a leader's log keep this up (`GrantsHold`, `RequestLogs`,
  `LeadersSent`). It is what the comparison of logs in `HandleRequestVote` is
  for.
- `CommitInvariant` and `CommitsSafely`: as long as `LeaderCommit` counts right
  (`CountsRight`), all that is committed is chosen. So `StateMachineSafety`,
  `LeaderCompleteness`, `CommittedOnMajority` and `CommittedIsStable` hold, for
  every size of the cluster. `CountsRight` has two parts: the match indexes
  that a leader uses for an entry of its term were acknowledged in its term
  (`CountsOwnTerm`), and the number of nodes is odd or no configuration change
  is pending (`CountsMajority`).
- `FirstLeadersCountRight`: with an odd number of nodes, `CountsRight` can only
  fail once some node leads a second time.
- `ThreeCountRight`: with one or three nodes it never fails. A leader of three
  needs the acknowledgement of one other node only. If the old match index of
  that node reaches an entry of the new term, the entry that was acknowledged
  there in the old term had a majority, so it is still there, and the entries
  of the new term come after it. `ThreeApplyTheSame`, `ThreeLeadersComplete`,
  `ThreeCommitOnMajority` and `ThreeKeepCommitted` are the properties of the
  run `partitions`, without a hypothesis, for any number of terms and entries.

`Counting` collects what these proofs use of the sizes of sets of nodes;
`CountingHolds` proves it from the finiteness of the cluster.

`StorageInvariant`, `RestartRecovers`, `StorageRefinesLog`: entry `k` of the
storage sits at position `k`, since a batch replaces the tail or is dropped. The
refinement maps the storage to the terms that `Term` shows up to `LastIndex`;
`AppendBatch` maps to `Save`, and a call that blocks to a stutter.

`RingInvariant`, `ParserSeesNext`, `AssertionsNeverFail`, `RingRefinesStream`:
`RingInv` says that the unread bytes lie from the read position on, and what
each thread knows of the other while it works. The receiver's space is at most
what is free now, because meanwhile the parser can only free more; the parser's
datum is at most what is readable now, because meanwhile the receiver can only
add. So neither needs a lock. The refinement maps the ring to the sequence of
its unread bytes. `RecvAdjust` maps to `Arrive`, `ParseTake` to `Take`, and all
else to a stutter, `readv`'s writing into the ring included.

`PointersAreLive` is inductive as it stands. `OnlySlowClientsDrop` needs in
addition that `nOut` is set only when some connection waits for its write event
(`DropInv`).

`LogInv`, `ReplInv`, `AckInv` and the invariant of commits were checked before
they were proved, on schedules as in `Pairs` with one proposal less, the
conjuncts of `AckInv` with five nodes as well; no run repeats this.

Only model-checked: every other property of section 3.

- Liveness (`FollowerCatchesUpAboveFirst`, `CommittedIsApplied`,
  `RequestsReachParser`, `AllSent`, `ClosedIsReleased`, `RequestsAreAnswered`,
  `TasksStart`, `JoinReturns`, `AllAnswered`): the prover has no support for
  fairness and `ENABLED`.
- What `RawNode`, `Membership`, `AsyncBuffer`, `ThreadPool` and `Requests`
  promise. Crashes and changes of the group need an election invariant of their
  own, since `ElectionInv` relies on a node that remembers its vote and on a
  fixed group.
- No abstract replicated log is given that `RaftCore` would implement: for
  larger clusters it does not, as `stale_match` shows.

## 5. Findings and observations

The finding of the run `stale_match` (`CommittedOnMajority`): `BecomeLeader`
resets `next` of the other peers and not `match`, so a node that leads twice may
count the acknowledgements of its first term for entries that the follower has
replaced since.

Further observations. Each has a configuration that makes TLC produce the
behaviour (`tlc -config VoteTwice.cfg MCRaftCore` and so on). They show that a
property that one would expect fails, and say what the runs above have to leave
out.

| configuration, module | property | what the code does |
|---|---|---|
| `VoteTwice`, `MCRaftCore` | `VoteOncePerTerm` | A candidate that lost becomes a follower of the same term with no vote (`raft.cc:635`) and grants one to another node. Election safety survives (section 4), but not the "at most one candidate in a given term" of `raft_paper_tests.cc:308`. |
| `RelaxedQuorum`, `MCRaftCore` | `CommittedOnMajority` | With an even number of peers and a pending configuration change, `LeaderCommit` (`raft.cc:752`) takes the match index that half of the peers have. |
| `LogSyncConflict`, `LogSync` | `FollowerCatchesUp` | A conflict at index 1 is refused with index 0, which the leader takes for "no index" and ignores (`raft.cc:710`). |
| `RestartVotes`, `MCRawPartitions` | `OneLeaderPerTerm` | `EReady` hands out no hard state (`raw_node.cc:128`), so a restarted node votes again and a term gets two leaders. `ready` shows that saving it is enough. |
| `ReadyInterleaved`, `MCRawPartitions` | `StabledIsPersisted` | A `Step` between `EReady` and `Advance` may leave `stabled_` ahead of the storage (`raw_node.cc:159`). `ready` shows that it is sound without such steps. |
| `HasReady`, `MCRawPartitions` | `HasReadyMeansWork` | `HasReady` stays true once the hard state has changed, since `prevHardSt` is not updated (`raw_node.cc:140`). |
| `StorageCompact`, `MemoryStorage` | `NeverBlocked` | `Compact` and `CreateSnapshot` lock their mutex twice (`memory_storage.cc:168` and `146`). |
| `StorageSnapshot`, `MemoryStorage` | `LastIndexIsLast` | After `ApplySnapshot` (`memory_storage.cc:132`) positions no longer tell indexes. |
| `Removal`, `MCMembership` | `StateMachineSafety` | `RemoveNode` recounts under the rule for a pending change (`raft.cc:877`), and a leader of three commits alone. |
| `RemovedAnswers`, `MCMembership` | `NoNullProgress` | A late answer of a removed node leads to a null pointer (`raft.cc:730`). |
| `AddedProgress`, `MCMembership` | `NextInBounds` | An added node starts with `next` = 6, whatever the length of the log (`raft.cc:866`). |
| `WriteEvent`, `NetThreads` | `WriteEventSends` | After a partial write the connection is closed instead of resumed: `OnWritable` against `OnWriteable` (`net_thread_pool.cc:155`). |
| `MonitorWrap`, `ThreadPool` | `StopsAreForWaiting` | The monitor's unsigned count of idle workers can wrap round (`thread_pool.cc:104`). It needs tasks that return while the pool is in use; the two that the server submits return at shutdown only. |
| `ClosedSocket`, `NetThreads` | `AlwaysReleased` | With a receive buffer full of bytes that do not parse, `Recv` returns before it calls `readv` (`stream_socket.cc:40`), error events are not passed on (`epoller.cc:117`), and a connection that the client has closed is never released. |
| `RequestsCut`, `MCRequests` | `CutIsAnswered` | A request of which the main loop has met a part may never be answered: the parser keeps its progress and is given the same bytes again (`client.cc:14`). |

`CommittedOnMajority`, `LeaderCompleteness`, `StateMachineSafety` and
`CommittedIsStable` are proved for three nodes, and for any number as long as
`CountsRight` holds (section 4). `MatchIsReplicated`, `NextInBounds` and
`HandoverComplete` speak of a node that leads for the first time, for the reason
that `stale_match` shows. All are about a fixed group.

What the server promises a client is therefore conditional, and the properties
say so. `AllAnswered` and `RequestsAreAnswered` are about requests that the main
loop meets whole, the latter with nothing behind them, since `_HandlePacket`
discards what follows a request (`client.cc:35`). `ClosedIsReleased` excepts a
clogged receive buffer. `AllSent` ends with the first short write.

`HandoverComplete` looks at the `MsgTimeoutNow` that a step adds to `msgs`.
`MsgTimeoutNow` has no term, so of several between the same two nodes it sees the
first. `TasksStart` holds until the monitor's count wraps round.

The send buffer may send packets in another order than they were written: the
sender finds the ring empty, the writer fills it and overflows, and the sender
then swaps the overflow in. `PacketChannel` therefore says nothing of order, and
`OnlyOverflowOvertakes` says exactly how far the order can suffer. No document
of the repository promises the order.

## 6. What could come next

- `CountsRight` for every cluster, once `BecomeLeader` resets the match indexes
  and `LeaderCommit` asks for more than half of the nodes; nothing else of the
  proofs would change.
- `OneLeaderPerTerm` with restarts and with membership changes as a theorem;
  now it is proved for a fixed group without crashes and checked for the rest.
- A proof of `ImplementsPacketChannel`.

## 7. Not modelled

- Snapshots in `RaftContext`: `SendSnapshot` has no caller, so `HandleSnapshot`
  never gets a message, and `pendingSnapshot_` stays empty.
- `MaybeCompact`, and `firstIndex_` other than 1: `Compact` never returns
  (`StorageCompact.cfg`), so the storage's first index stays 1. The branch
  of `Append` for entries below the first index is not reached either.
- The tick counters: a timeout may expire at any moment instead. The counters
  only decide when, so every behaviour with them is one of the model.
- `MsgEntryConfChange` is echoed by the handlers but nobody creates it; a
  `MsgPropose` with several entries does not occur, as `RawNode` proposes one.
- Several changes of membership in one log, and the null `Progress` that
  `RemoveNode` or a transfer inserts for a node that is not in the group.
- `ApplySnapshot` together with a use of its result (`StorageSnapshot.cfg`).
- Requests that are cut within a line, and requests without parameters; what
  pipelined requests say (`NetThreads` only counts them); `scan`.
- Server start-up, signals, reloading of the configuration, failing system calls
  other than the end of a connection, the race on the thread pointers at
  shutdown.
- The storage engine and the message queue, which nothing uses; the raft store,
  router and peers, which are declarations; configuration; formatting of
  replies.
- Vendored code (googletest, the lock-free queue, the toml parser, the glob
  matcher) and generated protobuf code. They make up almost all of the lines
  under `src/`, so the definitions in `PROJECT.json` stand for a small share of
  all lines, though for most of those that the project's own authors wrote in
  `src/raftcore/src` and for the stateful part of `src/network/src`.
