----------------------------- MODULE NetThreads -----------------------------
(***************************************************************************)
(* The life of connections in the network server: the RecvThread accepts,  *)
(* reads and detects the end of a connection, the SendThread writes, and   *)
(* the main loop (TaskManager) handles requests.  Each holds a             *)
(* shared_ptr<StreamSocket>; the last to let go closes the descriptor.     *)
(* Each of the two network threads has its own epoll set, whose entries    *)
(* are raw pointers.                                                       *)
(*                                                                         *)
(* A step is what a thread does to one connection, or to its own lists:    *)
(* newTasks_ is handed over under a mutex, and everything else but         *)
(* invalid_ and the buffers (RecvBuffer, AsyncBuffer) belongs to one       *)
(* thread.                                                                 *)
(*                                                                         *)
(* A request is a number of pieces, cut where TCP happens to cut it: the   *)
(* model counts the pieces in the socket and in recvBuf_, which has room   *)
(* for Capacity of them, and the replies in sendBuf_.                      *)
(***************************************************************************)
EXTENDS Integers, FiniteSets

CONSTANTS
  Conn,         \* connections
  Slow,         \* those whose client does not always read fast enough
  Silent,       \* bound: those whose client sends no request
  Parts,        \* the pieces of a request
  Capacity,     \* the pieces recvBuf_ can hold
  MaxPieces     \* bound: the pieces a client sends

ASSUME NetAssumption ==
  /\ Slow \subseteq Conn /\ Silent \subseteq Conn
  /\ Parts \in Nat \ {0} /\ Capacity \in Nat \ {0} /\ MaxPieces \in Nat

VARIABLES
  client,                          \* the state of the client's end
  sent,                            \* how many pieces the client has sent
  accepting,                       \* where NewConnection is, for each connection
  newRecv, newSend, newMain,       \* newTasks_ of the threads and of the TaskManager
  tasksRecv, tasksSend, tasksMain, \* tasks_ and tcpSockets_
  pollRecv, pollSend,              \* what the epoll sets contain
  invalid, epollOut,               \* invalid_ and epollOut_
  arrived, inbox,                  \* pieces in the socket, and in recvBuf_
  broken,                          \* parser_ has met something else than a whole request
  outbox,                          \* replies in sendBuf_
  full,                            \* the socket takes no more bytes
  todo, nOut                       \* SendThread::Run: what is left of its pass, and
                                   \* whether some connection waits for its write event

clientVars == <<client, sent>>
recvVars   == <<accepting, tasksRecv, pollRecv>>
sendVars   == <<tasksSend, pollSend, epollOut, todo, nOut>>
newVars    == <<newRecv, newSend, newMain>>
dataVars   == <<arrived, inbox, outbox, full>>
mainVars   == <<tasksMain, broken>>
vars == <<clientVars, recvVars, sendVars, mainVars, newVars, dataVars, invalid>>

Init ==
  /\ client = [c \in Conn |-> "none"] /\ sent = [c \in Conn |-> 0]
  /\ accepting = [c \in Conn |-> "none"]
  /\ newRecv = {} /\ newSend = {} /\ newMain = {}
  /\ tasksRecv = {} /\ tasksSend = {} /\ tasksMain = {}
  /\ pollRecv = {} /\ pollSend = {}
  /\ invalid = {} /\ epollOut = {}
  /\ arrived = [c \in Conn |-> 0] /\ inbox = [c \in Conn |-> 0]
  /\ broken = {}
  /\ outbox = [c \in Conn |-> 0] /\ full = {}
  /\ todo = {} /\ nOut = FALSE

\* No thread holds a reference: the descriptor is closed.
Released(c) ==
  /\ accepting[c] = "done"
  /\ c \notin newRecv \cup newSend \cup newMain \cup tasksRecv \cup tasksSend \cup tasksMain
-----------------------------------------------------------------------------
(* The client *)

Connect(c) ==
  /\ client[c] = "none"
  /\ client' = [client EXCEPT ![c] = "open"]
  /\ UNCHANGED <<sent, recvVars, sendVars, mainVars, newVars, dataVars, invalid>>

\* The next piece of a request.
Request(c) ==
  /\ client[c] = "open"
  /\ c \notin Silent
  /\ sent[c] < MaxPieces
  /\ sent' = [sent EXCEPT ![c] = @ + 1]
  /\ arrived' = [arrived EXCEPT ![c] = @ + 1]
  /\ UNCHANGED <<client, recvVars, sendVars, mainVars, newVars, inbox, outbox, full, invalid>>

\* The client reads what has piled up.
Drain(c) ==
  /\ c \in full
  /\ client[c] = "open"
  /\ full' = full \ {c}
  /\ UNCHANGED <<clientVars, recvVars, sendVars, mainVars, newVars, arrived, inbox, outbox, invalid>>

Close(c) ==
  /\ client[c] = "open"
  /\ client' = [client EXCEPT ![c] = "closed"]
  /\ UNCHANGED <<sent, recvVars, sendVars, mainVars, newVars, dataVars, invalid>>
-----------------------------------------------------------------------------
(* RecvThread *)

\* The RecvThread does nothing else before NewConnection is done.
RecvFree == \A c \in Conn : accepting[c] \in {"none", "done"}

\* ListenSocket::OnReadable and Server::NewConnection: the connection is
\* handed to the RecvThread, to the SendThread and to the main loop in turn.
Accept(c) ==
  /\ accepting[c] # "done"
  /\ client[c] # "none"
  /\ \/ /\ accepting[c] = "none" /\ RecvFree
        /\ newRecv' = newRecv \cup {c}
        /\ accepting' = [accepting EXCEPT ![c] = "recv"]
        /\ UNCHANGED <<newSend, newMain>>
     \/ /\ accepting[c] = "recv"
        /\ newSend' = newSend \cup {c}
        /\ accepting' = [accepting EXCEPT ![c] = "send"]
        /\ UNCHANGED <<newRecv, newMain>>
     \/ /\ accepting[c] = "send"
        /\ newMain' = newMain \cup {c}
        /\ accepting' = [accepting EXCEPT ![c] = "done"]
        /\ UNCHANGED <<newRecv, newSend>>
  /\ UNCHANGED <<clientVars, tasksRecv, pollRecv, sendVars, mainVars, dataVars, invalid>>

RecvAdd ==
  /\ RecvFree
  /\ newRecv # {}
  /\ tasksRecv' = tasksRecv \cup newRecv
  /\ pollRecv' = pollRecv \cup newRecv
  /\ newRecv' = {}
  /\ UNCHANGED <<clientVars, accepting, sendVars, mainVars, newSend, newMain, dataVars, invalid>>

\* StreamSocket::OnReadable with something to read, and room for it.  Without
\* room Recv returns 0 before it reads: nothing happens.
RecvData(c) ==
  LET n == IF arrived[c] <= Capacity - inbox[c] THEN arrived[c] ELSE Capacity - inbox[c]
  IN /\ RecvFree
     /\ c \in pollRecv
     /\ n > 0
     /\ inbox' = [inbox EXCEPT ![c] = @ + n]
     /\ arrived' = [arrived EXCEPT ![c] = @ - n]
     /\ UNCHANGED <<clientVars, recvVars, sendVars, mainVars, newVars, outbox, full, invalid>>

\* Mutant: a failed OnReadable is not followed by OnError.
RecvEndIgnored(c) ==
  /\ RecvFree
  /\ c \in pollRecv
  /\ client[c] = "closed" /\ arrived[c] = 0 /\ inbox[c] < Capacity
  /\ pollRecv' = pollRecv \ {c}
  /\ UNCHANGED <<clientVars, accepting, tasksRecv, sendVars, mainVars, newVars, dataVars, invalid>>

\* There is room, and readv returns 0: StreamSocket::OnReadable calls DisableRead and fails, and
\* OnError follows.
RecvEnd(c) ==
  /\ RecvFree
  /\ c \in pollRecv
  /\ client[c] = "closed" /\ arrived[c] = 0 /\ inbox[c] < Capacity
  /\ pollRecv' = pollRecv \ {c}
  /\ invalid' = invalid \cup {c}
  /\ UNCHANGED <<clientVars, accepting, tasksRecv, sendVars, mainVars, newVars, dataVars>>

\* Mutant: invalid connections stay in the epoll set.
RecvSweepPolled ==
  /\ RecvFree
  /\ tasksRecv \cap invalid # {}
  /\ tasksRecv' = tasksRecv \ invalid
  /\ UNCHANGED <<clientVars, accepting, pollRecv, sendVars, mainVars, newVars, dataVars, invalid>>

\* Every 100000th turn (fewer, when there is nothing to read) the RecvThread
\* drops the invalid connections.
RecvSweep ==
  /\ RecvFree
  /\ tasksRecv \cap invalid # {}
  /\ tasksRecv' = tasksRecv \ invalid
  /\ pollRecv' = pollRecv \ invalid
  /\ UNCHANGED <<clientVars, accepting, sendVars, mainVars, newVars, dataVars, invalid>>
-----------------------------------------------------------------------------
(* SendThread *)

\* Mutant: new connections wait until there are no others.
SendAddLater ==
  LET new == IF tasksSend = {} THEN newSend ELSE {}
  IN /\ todo = {} /\ ~nOut
     /\ newSend \cup tasksSend # {}
     /\ tasksSend' = tasksSend \cup new
     /\ pollSend' = pollSend \cup new
     /\ newSend' = newSend \ new
     /\ todo' = tasksSend'
     /\ UNCHANGED <<clientVars, recvVars, epollOut, nOut, mainVars, newRecv, newMain, dataVars, invalid>>

\* The start of a pass: _TryAddNewTasks, then all of tasks_.
SendAdd ==
  /\ todo = {} /\ ~nOut
  /\ newSend \cup tasksSend # {}
  /\ tasksSend' = tasksSend \cup newSend
  /\ pollSend' = pollSend \cup newSend
  /\ newSend' = {}
  /\ todo' = tasksSend'
  /\ UNCHANGED <<clientVars, recvVars, epollOut, nOut, mainVars, newRecv, newMain, dataVars, invalid>>

\* What SendThread::Run does with a connection after Send().
SendDone(c) ==
  /\ todo' = todo \ {c}
  /\ IF c \in invalid'
     THEN tasksSend' = tasksSend \ {c} /\ pollSend' = pollSend \ {c} /\ UNCHANGED nOut
     ELSE nOut' = (nOut \/ c \in epollOut') /\ UNCHANGED <<tasksSend, pollSend>>
  /\ UNCHANGED <<clientVars, recvVars, mainVars, newVars, arrived, inbox>>

\* Send() finds nothing to send, or waits for the write event.
SendNothing(c) ==
  /\ c \in todo
  /\ c \in epollOut \/ outbox[c] = 0
  /\ UNCHANGED <<invalid, epollOut, outbox, full>>
  /\ SendDone(c)

SendAll(c) ==
  /\ c \in todo \ epollOut
  /\ outbox[c] > 0
  /\ c \notin full
  /\ outbox' = [outbox EXCEPT ![c] = 0]
  /\ UNCHANGED <<invalid, epollOut, full>>
  /\ SendDone(c)

\* The socket takes a part, or nothing: epollOut_ is set, and EnableWrite
\* finds the connection registered already (AddSocket did it).
SendPart(c) ==
  /\ c \in todo \ epollOut
  /\ outbox[c] > 0
  /\ client[c] # "closed"
  /\ c \in Slow
  /\ full' = full \cup {c}
  /\ epollOut' = epollOut \cup {c}
  /\ UNCHANGED <<invalid, outbox>>
  /\ SendDone(c)

\* writev fails.
SendFails(c) ==
  /\ c \in todo \ epollOut
  /\ outbox[c] > 0
  /\ client[c] = "closed"
  /\ invalid' = invalid \cup {c}
  /\ UNCHANGED <<epollOut, outbox, full>>
  /\ SendDone(c)

\* Those Poll reports: every registered connection that can be written to.
Writable == {c \in pollSend : c \notin full \/ client[c] = "closed"}

\* Mutant: Poll is called after every pass.
SendPollAlways ==
  /\ todo = {} /\ tasksSend # {}
  /\ nOut' = FALSE
  /\ invalid' = invalid \cup Writable
  /\ UNCHANGED <<clientVars, recvVars, tasksSend, pollSend, epollOut, todo, mainVars, newVars, dataVars>>

\* After a pass in which some connection waits for its write event, Poll.
\* The OnWritable it calls is Socket's, since StreamSocket's is spelled
\* OnWriteable: it returns false, and OnError follows.
SendPoll ==
  /\ todo = {} /\ nOut
  /\ nOut' = FALSE
  /\ invalid' = invalid \cup Writable
  /\ UNCHANGED <<clientVars, recvVars, tasksSend, pollSend, epollOut, todo, mainVars, newVars, dataVars>>
-----------------------------------------------------------------------------
(* The main loop: TaskManager::DoMsgParse *)

MainAdd ==
  /\ newMain # {}
  /\ tasksMain' = tasksMain \cup newMain
  /\ newMain' = {}
  /\ UNCHANGED <<clientVars, recvVars, sendVars, broken, newRecv, newSend, dataVars, invalid>>

\* What is in recvBuf_ begins where a request begins; it begins with a whole one.
InStep(c) == (sent[c] - arrived[c] - inbox[c]) % Parts = 0
Whole(c)  == InStep(c) /\ inbox[c] >= Parts

\* _HandlePacket replies to a request, and all of recvBuf_ is taken.
Reply(c) ==
  /\ inbox' = [inbox EXCEPT ![c] = 0]
  /\ outbox' = [outbox EXCEPT ![c] = @ + 1]
  /\ UNCHANGED <<clientVars, recvVars, sendVars, tasksMain, newVars, arrived, full, invalid>>

\* _HandlePacket finds a whole request.  What came behind it is lost.
MainHandle(c) ==
  /\ c \in tasksMain \ (invalid \cup broken)
  /\ Whole(c)
  /\ Reply(c)
  /\ UNCHANGED broken

\* _HandlePacket finds something else and takes nothing, but parser_ may
\* remember a part of it, which it will be given again.
MainBreak(c) ==
  /\ c \in tasksMain \ (invalid \cup broken)
  /\ inbox[c] > 0
  /\ ~Whole(c)
  /\ broken' = broken \cup {c}
  /\ UNCHANGED <<clientVars, recvVars, sendVars, tasksMain, newVars, dataVars, invalid>>

\* What follows that part may happen to look like the rest of a request.
MainMistake(c) ==
  /\ c \in tasksMain \ invalid
  /\ c \in broken
  /\ inbox[c] > 0
  /\ Reply(c)
  /\ broken' = broken \ {c}

MainDrop(c) ==
  /\ c \in tasksMain \cap invalid
  /\ tasksMain' = tasksMain \ {c}
  /\ UNCHANGED <<clientVars, recvVars, sendVars, broken, newVars, dataVars, invalid>>
-----------------------------------------------------------------------------
ClientStep == \E c \in Conn : Connect(c) \/ Request(c) \/ Drain(c) \/ Close(c)

RecvStep == RecvAdd \/ RecvSweep \/ \E c \in Conn : Accept(c) \/ RecvData(c) \/ RecvEnd(c)

SendOne(c) == SendNothing(c) \/ SendAll(c) \/ SendPart(c) \/ SendFails(c)

SendStep == SendAdd \/ SendPoll \/ \E c \in Conn : SendOne(c)

MainStep ==
  MainAdd \/ \E c \in Conn : MainHandle(c) \/ MainBreak(c) \/ MainMistake(c) \/ MainDrop(c)

Next == ClientStep \/ RecvStep \/ SendStep \/ MainStep

Spec == Init /\ [][Next]_vars

\* Every thread goes on for ever, and in its loop turns to every connection;
\* a client that reads slowly reads in the end.  What parser_ remembers depends
\* on where a request is cut: nothing says that it breaks.
FairSpec ==
  /\ Spec
  /\ WF_vars(RecvAdd) /\ WF_vars(RecvSweep)
  /\ \A c \in Conn : WF_vars(Accept(c)) /\ WF_vars(RecvData(c)) /\ WF_vars(RecvEnd(c))
  /\ WF_vars(SendAdd) /\ WF_vars(SendPoll)
  /\ \A c \in Conn : WF_vars(SendOne(c)) /\ WF_vars(Drain(c))
  /\ WF_vars(MainAdd)
  /\ \A c \in Conn : WF_vars(MainHandle(c)) /\ WF_vars(MainDrop(c))
-----------------------------------------------------------------------------
(* Properties *)

\* The epoll sets hold raw pointers: whatever is registered is kept alive by
\* tasks_ of the same thread.
PolledAreHeld == pollRecv \subseteq tasksRecv /\ pollSend \subseteq tasksSend

\* While every client has read its replies in time, the server ends a
\* connection (OnError) only after the client has.
OnlySlowDrops == epollOut = {} => \A c \in invalid : client[c] = "closed"

\* recvBuf_ is full, and _HandlePacket takes nothing of it.
Clogged(c) == inbox[c] = Capacity /\ (c \in broken \/ ~Whole(c))

\* When a client closes its connection, each of the three threads lets go of
\* it in the end, so that the descriptor is closed (~Socket); unless recvBuf_
\* is clogged, where Recv does not see the end of the stream.
ClosedIsReleased == \A c \in Conn : client[c] = "closed" ~> Released(c) \/ Clogged(c)

\* When a client closes its connection, its descriptor is closed in the end.
AlwaysReleased == \A c \in Conn : client[c] = "closed" ~> Released(c)

\* A whole request that fits recvBuf_, with nothing behind it, is answered and
\* the reply is sent; unless the client goes on sending before that or leaves,
\* some client reads too slowly, or the main loop has met a part of the request
\* before.
RequestsAreAnswered ==
  \A c \in Conn \ Silent : \A n \in {k * Parts : k \in 1..(MaxPieces \div Parts)} :
    sent[c] = n /\ InStep(c) /\ arrived[c] + inbox[c] = Parts
      ~> \/ arrived[c] + inbox[c] + outbox[c] = 0
         \/ sent[c] > n \/ client[c] = "closed"
         \/ epollOut # {}
         \/ c \in broken

\* A reply the socket did not take is sent on the write event, once the client
\* has read (StreamSocket::OnWriteable: "send to client").
WriteEventSends ==
  \A c \in Conn : c \in epollOut ~> outbox[c] = 0 \/ client[c] = "closed"
=============================================================================
