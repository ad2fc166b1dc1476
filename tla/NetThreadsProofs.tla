-------------------------- MODULE NetThreadsProofs --------------------------
(***************************************************************************)
(* For any number of connections and requests: the epoll sets hold no      *)
(* pointer to a connection that its thread has let go, and while no client *)
(* is slow the server closes only what the client has closed.              *)
(***************************************************************************)
EXTENDS NetThreads, TLAPS

\* OnlySlowDrops is inductive with two facts: the SendThread polls only when
\* some connection waits for its write event, and a client that has closed its
\* end stays closed.
DropInv ==
  /\ client \in [Conn -> {"none", "open", "closed"}]
  /\ invalid \subseteq Conn
  /\ pollSend \subseteq Conn /\ newSend \subseteq Conn
  /\ nOut = TRUE => epollOut # {}
  /\ OnlySlowDrops
-----------------------------------------------------------------------------
\* No step, of any thread, leaves a raw pointer in an epoll set without the
\* shared_ptr in tasks_ that keeps the connection alive.
LEMMA HeldStep ==
  ASSUME PolledAreHeld, [Next]_vars
  PROVE  PolledAreHeld'
<1> USE DEF PolledAreHeld
<1>1. CASE ClientStep
  BY <1>1 DEF ClientStep, Connect, Request, Drain, Close, recvVars, sendVars
<1>2. CASE RecvStep
  <2>1. CASE RecvAdd
    BY <2>1 DEF RecvAdd, sendVars
  <2>2. CASE RecvSweep
    BY <2>2 DEF RecvSweep, sendVars
  <2>3. ASSUME NEW c \in Conn, Accept(c) \/ RecvData(c) \/ RecvEnd(c)
        PROVE  PolledAreHeld'
    BY <2>3 DEF Accept, RecvData, RecvEnd, recvVars, sendVars
  <2> QED BY <1>2, <2>1, <2>2, <2>3 DEF RecvStep
<1>3. CASE SendStep
  <2>1. CASE SendAdd
    BY <2>1 DEF SendAdd, recvVars
  <2>2. CASE SendPoll
    BY <2>2 DEF SendPoll, recvVars
  <2>3. ASSUME NEW c \in Conn, SendOne(c)
        PROVE  PolledAreHeld'
    <3>1. SendDone(c)
      BY <2>3 DEF SendOne, SendNothing, SendAll, SendPart, SendFails
    <3>2. UNCHANGED <<tasksRecv, pollRecv>>
      BY <3>1 DEF SendDone, recvVars
    <3>3. \/ tasksSend' = tasksSend \ {c} /\ pollSend' = pollSend \ {c}
          \/ UNCHANGED <<tasksSend, pollSend>>
      BY <3>1 DEF SendDone
    <3> QED BY <3>2, <3>3
  <2> QED BY <1>3, <2>1, <2>2, <2>3 DEF SendStep
<1>4. CASE MainStep
  BY <1>4 DEF MainStep, MainAdd, MainHandle, MainBreak, MainMistake, Reply, MainDrop,
              recvVars, sendVars
<1>5. CASE UNCHANGED vars
  BY <1>5 DEF vars, recvVars, sendVars
<1> QED BY <1>1, <1>2, <1>3, <1>4, <1>5 DEF Next

\* Whatever the RecvThread and the SendThread have registered with epoll is
\* kept alive by their own tasks_.
THEOREM PointersAreLive == Spec => []PolledAreHeld
<1>1. Init => PolledAreHeld
  BY DEF Init, PolledAreHeld
<1>2. PolledAreHeld /\ [Next]_vars => PolledAreHeld'
  BY HeldStep
<1> QED BY <1>1, <1>2, PTL DEF Spec
-----------------------------------------------------------------------------
\* What the SendThread does with one connection keeps DropInv.
LEMMA SendOneStep ==
  ASSUME DropInv, NEW c \in Conn, SendOne(c)
  PROVE  DropInv'
<1>1. /\ SendDone(c)
      /\ epollOut' = epollOut \/ epollOut' = epollOut \cup {c}
      /\ \/ invalid' = invalid
         \/ invalid' = invalid \cup {c} /\ client[c] = "closed"
  BY DEF SendOne, SendNothing, SendAll, SendPart, SendFails
<1>2. /\ UNCHANGED <<client, newSend>>
      /\ pollSend' \subseteq pollSend
      /\ nOut' = nOut \/ nOut' = (nOut \/ c \in epollOut')
  BY <1>1 DEF SendDone, clientVars, newVars
<1>3. nOut' = TRUE => epollOut' # {}
  <2>1. nOut = TRUE => epollOut' # {}
    BY <1>1 DEF DropInv
  <2> QED BY <1>2, <2>1, Zenon
<1>4. OnlySlowDrops'
  BY <1>1, <1>2 DEF DropInv, OnlySlowDrops
<1> QED BY <1>1, <1>2, <1>3, <1>4 DEF DropInv

\* Every step of the client and of the three threads keeps DropInv.
LEMMA DropStep ==
  ASSUME DropInv, [Next]_vars
  PROVE  DropInv'
<1>1. CASE ClientStep
  <2>1. UNCHANGED <<invalid, pollSend, newSend, nOut, epollOut>>
    BY <1>1 DEF ClientStep, Connect, Request, Drain, Close, sendVars, newVars
  <2>2. PICK c \in Conn : \/ UNCHANGED client
                          \/ client[c] = "none" /\ client' = [client EXCEPT ![c] = "open"]
                          \/ client[c] = "open" /\ client' = [client EXCEPT ![c] = "closed"]
    BY <1>1 DEF ClientStep, Connect, Request, Drain, Close, clientVars
  <2>3. /\ client' \in [Conn -> {"none", "open", "closed"}]
        /\ \A d \in Conn : client[d] = "closed" => client'[d] = "closed"
    BY <2>2 DEF DropInv
  <2> QED BY <2>1, <2>3 DEF DropInv, OnlySlowDrops
<1>2. CASE RecvStep
  <2>1. UNCHANGED <<client, pollSend, nOut, epollOut>> /\ newSend' \subseteq newSend \cup Conn
    BY <1>2 DEF RecvStep, RecvAdd, RecvSweep, Accept, RecvData, RecvEnd,
                clientVars, sendVars, newVars
  <2>2. \A c \in invalid' \ invalid : c \in Conn /\ client[c] = "closed"
    BY <1>2 DEF RecvStep, RecvAdd, RecvSweep, Accept, RecvData, RecvEnd
  <2> QED BY <2>1, <2>2 DEF DropInv, OnlySlowDrops
<1>3. CASE SendStep
  <2>1. CASE SendAdd
    BY <2>1 DEF SendAdd, DropInv, OnlySlowDrops, clientVars
  <2>2. CASE SendPoll
    <3>1. /\ UNCHANGED <<client, pollSend, newSend, epollOut>>
          /\ nOut' = FALSE /\ invalid' = invalid \cup Writable
      BY <2>2 DEF SendPoll, clientVars, newVars
    <3>2. epollOut # {}
      <4>1. nOut = TRUE
        BY <2>2, Zenon DEF SendPoll
      <4> QED BY <4>1 DEF DropInv
    <3>3. invalid' \subseteq Conn
      BY <3>1 DEF DropInv, Writable
    <3> QED BY <3>1, <3>2, <3>3 DEF DropInv, OnlySlowDrops
  <2> QED BY <1>3, <2>1, <2>2, SendOneStep DEF SendStep
<1>4. CASE MainStep
  BY <1>4 DEF MainStep, MainAdd, MainHandle, MainBreak, MainMistake, Reply, MainDrop,
              clientVars, sendVars, newVars, DropInv, OnlySlowDrops
<1>5. CASE UNCHANGED vars
  BY <1>5 DEF vars, clientVars, sendVars, newVars, DropInv, OnlySlowDrops
<1> QED BY <1>1, <1>2, <1>3, <1>4, <1>5 DEF Next

\* While no reply had to wait for a slow client, the server calls OnError only
\* on connections that their client has closed.
THEOREM OnlySlowClientsDrop == Spec => []OnlySlowDrops
<1>1. Init => DropInv
  BY DEF Init, DropInv, OnlySlowDrops
<1>2. DropInv /\ [Next]_vars => DropInv'
  BY DropStep
<1>3. DropInv => OnlySlowDrops
  BY DEF DropInv
<1> QED BY <1>1, <1>2, <1>3, PTL DEF Spec
=============================================================================
