------------------------------ MODULE TcpServer ------------------------------
(***************************************************************************)
(* src/network/TcpServer, Acceptor and TcpConnection, over event loops     *)
(* that keep what module FunctorQueue promises: the base loop accepts and  *)
(* keeps the map of connections, an io loop (the base loop itself without  *)
(* threads) handles each connection.  The connection and message callbacks *)
(* are those of the demo (src/demo/trans_server.cpp), which give ids to    *)
(* clients and answer messages; a message callback may also shut down.     *)
(*                                                                         *)
(* A step is one event handler of a channel, or one functor.  A loop runs  *)
(* all functors that were queued when it last returned from poll before it *)
(* polls again.  Kernel sockets are external: what a client does to its    *)
(* end, and how much of a write the kernel takes.  A write after a reset   *)
(* fails (or kills the process by SIGPIPE, which nothing ignores).         *)
(***************************************************************************)
EXTENDS Integers, Sequences, SequencesExt, Buffer, PeerMgr, Channel

NoPeer == 0  \* the address of no client

CONSTANTS
  MaxConns,       \* bound: connections accepted
  MaxData,        \* bound: messages of a client waiting to be read
  MaxSends,       \* bound: answers sent, on all connections
  ThreadCounts,   \* values given to setThreadNum()
  Refuses         \* whether a write may find no room (EWOULDBLOCK)

ASSUME ServerAssumption ==
  /\ Peers \subseteq Nat \ {NoPeer}
  /\ {MaxConns, MaxData, MaxSends} \subseteq Nat
  /\ ThreadCounts \subseteq Nat
  /\ Refuses \in BOOLEAN

Conn == 1..MaxConns   \* m_nextConnId numbers connections from 1
Base == 0             \* the base loop; io loops are 1, 2, ...

getAllLoops(numThreads) == IF numThreads = 0 THEN {Base} ELSE 1..numThreads

Loop == {Base} \cup UNION {getAllLoops(n) : n \in ThreadCounts}

VARIABLES
  server,         \* "made", "started" or "destroyed"
  acceptor,       \* m_acceptChannel
  m_numThreads, m_next,
  m_nextConnId,
  m_connections,  \* the connections in the map of the server
  queue,          \* the functors queued in each loop
  batch,          \* how many of them doPendingFunctors() has yet to run
  conn,           \* the fields of each TcpConnection and of its channel
  sock,           \* the kernel's end of each connection
  calls           \* history: callbacks of each connection

serverVars == <<server, acceptor, m_numThreads, m_next, m_nextConnId, m_connections>>
loopVars   == <<queue, batch>>
connVars   == <<conn, sock, calls>>
vars       == <<serverVars, loopVars, connVars, peerVars>>

MsgLen  == 3
Garbage == 0    \* the byte that lies before a message in memory

\* sent counts the messages of the application, owed is what it handed over
\* and the kernel has not taken yet.
NewConn(l, p) == [loop |-> l, peer |-> p, state |-> "kConnecting", ch |-> NewChannel,
                  input |-> EmptyBuffer, output |-> EmptyBuffer, sent |-> 0, owed |-> <<>>]

NoConn == [NewConn(Base, NoPeer) EXCEPT !.state = "none"]

\* ~TcpConnection() closes the socket; what it was is of no account then.
Gone(r) == [NewConn(r.loop, r.peer) EXCEPT !.state = "gone", !.ch = r.ch, !.sent = r.sent]

State == {"none", "kConnecting", "kConnected", "kDisconnecting", "kDisconnected", "gone"}

Functor == {"connectEstablished", "connectDestoryed", "removeConnectionInLoop"} \X Conn

\* A TcpConnection lives while the map or a functor, of queues q, has a pointer
\* to it.
Held(q, c) == \E l \in Loop : \E i \in DOMAIN q[l] : q[l][i][2] = c
Alive(c)   == c \in m_connections \/ Held(queue, c)

\* Loops whose thread is in its handlers, and loops that run at all: the base
\* loop of the demo has been left when the server is destroyed.
Runs(l)    == l = Base => server # "destroyed"
Handles(l) == Runs(l) /\ batch[l] = 0

-----------------------------------------------------------------------------
(* The kernel's side of a connection.                                      *)

NewSock == [data |-> 0, fin |-> FALSE, rst |-> FALSE, wshut |-> FALSE]

\* read() returns 0, at the end of a stream and of a connection that was reset:
\* EPOLLERR comes with EPOLLIN, and handleError() takes the error from the
\* socket before handleRead() could meet it.
AtEnd(s) == s.data = 0 /\ (s.fin \/ s.rst)

\* What a write of len bytes may return: one byte taken, or all, or -1.
WriteReturns(s, len) ==
  IF s.rst THEN {-1} ELSE {1, len} \cup (IF Refuses THEN {-1} ELSE {})

\* Buffer::writeFd() offers all that is readable, and returns the -1 as a size_t.
writeFd(b, s) == WriteReturns(s, readableBytes(b))

\* Both directions are closed: the client may connect from the address again.
Closed(s) == s.rst \/ (s.fin /\ s.wshut)

-----------------------------------------------------------------------------
(* TcpConnection: what its functions make of its record r (and of whether  *)
(* its socket is shut down for writing).                                   *)

Outcome(r, wshut) == [r |-> r, wshut |-> wshut]

\* Socket::shutdownWrite().
shutdownWrite(o) == [o EXCEPT !.wshut = TRUE]

\* What sendInLoop() puts into the buffer after write() returned n.  nwrote is
\* unsigned, so that n = -1 is taken for success: remaining is one more than
\* the length, and the bytes begin one before the message.
LeftToSend(msg, n) == IF n < 0 THEN <<Garbage>> \o msg ELSE SubSeq(msg, n + 1, Len(msg))

\* sendInLoop() of the next message.
sendInLoop(r, s) ==
  LET m      == r.sent + 1
      msg    == [i \in 1..MsgLen |-> m]
      direct == ~isWriting(r.ch) /\ readableBytes(r.output) = 0
  IN {LET left  == LeftToSend(msg, n)
          taken == IF n < 0 THEN 0 ELSE n
          r1    == [r EXCEPT !.sent = m, !.owed = @ \o SubSeq(msg, taken + 1, MsgLen)]
      IN IF left = <<>>
         THEN Outcome(r1, s.wshut)
         ELSE Outcome([r1 EXCEPT !.output = append(@, left),
                                 !.ch = IF isWriting(@) THEN @ ELSE enableWriting(@)],
                      s.wshut)
      : n \in IF direct THEN WriteReturns(s, MsgLen) ELSE {0}}

\* send() by the loop's own thread: nothing unless connected.
send(r, s) ==
  IF r.state = "kConnected" /\ FoldFunction(+, 0, [d \in Conn |-> conn[d].sent]) < MaxSends
  THEN sendInLoop(r, s)
  ELSE {Outcome(r, s.wshut)}

\* Mutant: the socket is shut down at once.
shutdownInLoop_AtOnce(o) == shutdownWrite(o)

shutdownInLoop(o) == IF isWriting(o.r.ch) THEN o ELSE shutdownWrite(o)

\* shutdown() by the loop's own thread.
shutdown(o) ==
  IF o.r.state = "kConnected"
  THEN shutdownInLoop([o EXCEPT !.r.state = "kDisconnecting"])
  ELSE o

\* m_messageCallback, which consumes the input: it may answer and shut down.
messageCallback(r, s) ==
  LET read    == [r EXCEPT !.input = retrieveAllAsString(@)]
      replies == {Outcome(read, s.wshut)} \cup send(read, s)
  IN replies \cup {shutdown(o) : o \in replies}

\* The end of handleWrite() when the kernel took n bytes (or refused: the
\* size_t -1 is larger than what is there, and all of it is dropped).
afterWrite(r, s, n) ==
  LET len == readableBytes(r.output)
      r1  == [r EXCEPT !.output = retrieve(@, IF n < 0 THEN len ELSE n),
                       !.owed = IF n < 0 THEN @ ELSE SubSeq(@, n + 1, Len(@))]
      o   == Outcome([r1 EXCEPT !.ch = disableWriting(@)], s.wshut)
  IN IF readableBytes(r1.output) > 0 THEN Outcome(r1, s.wshut)
     ELSE IF r.state = "kDisconnecting" THEN shutdownInLoop(o)
     ELSE o

-----------------------------------------------------------------------------
(* The demo's callbacks.                                                   *)

\* conn->shutdown() of a connection that is not connected does nothing.
OnConnection(p, connected) == IF connected THEN add_peer(p) ELSE remove_peer(p)

\* OnMessage gives an id to a client that has none.
OnMessage(p) == IF get_peer_id(p) = 0 THEN add_peer(p) ELSE UNCHANGED peerVars

-----------------------------------------------------------------------------
(* What the loops call. *)

Push(q, l, f) == [q EXCEPT ![l] = Append(@, f)]

connectEstablished(c, r) ==
  /\ conn' = [conn EXCEPT ![c] = [r EXCEPT !.state = "kConnected", !.ch = enableReading(@)]]
  /\ calls' = [calls EXCEPT ![c].up = @ + 1]
  /\ OnConnection(r.peer, TRUE)

\* Mutant: the channel leaves the poller only if the peer closed.
connectDestoryed_Unclosed(c, r, rest) ==
  LET down == r.state = "kDisconnected"
  IN /\ calls' = [calls EXCEPT ![c].destroyed = @ + 1,
                               ![c].down = IF down THEN @ + 1 ELSE @]
     /\ conn' = [conn EXCEPT ![c].ch = IF down THEN removeChannel(disableAll(@)) ELSE @]
     /\ sock' = [sock EXCEPT ![c] = NewSock]
     /\ IF down THEN OnConnection(r.peer, FALSE) ELSE UNCHANGED peerVars

\* connectDestoryed() tests for kDisconnected: after a handleClose() it calls
\* the connection callback again.  Its functor has the last pointer to the
\* connection, unless the base loop of a destroyed server still holds one: rest
\* is the queues without that functor.
connectDestoryed(c, r, rest) ==
  LET down    == r.state = "kDisconnected"
      removed == [r EXCEPT !.ch = removeChannel(IF down THEN disableAll(@) ELSE @)]
      last    == c \notin m_connections /\ ~Held(rest, c)
  IN /\ calls' = [calls EXCEPT ![c].destroyed = @ + 1,
                               ![c].down = IF down THEN @ + 1 ELSE @]
     /\ conn' = [conn EXCEPT ![c] = IF last THEN Gone(removed) ELSE removed]
     /\ sock' = IF last THEN [sock EXCEPT ![c] = NewSock] ELSE sock
     /\ IF down THEN OnConnection(r.peer, FALSE) ELSE UNCHANGED peerVars

\* Mutant: the connection is only erased.
removeConnectionInLoop_Erases(c, q) ==
  /\ m_connections' = m_connections \ {c}
  /\ queue' = q

\* removeConnectionInLoop(), by the base loop's thread: q is the queues.
removeConnectionInLoop(c, q) ==
  /\ m_connections' = m_connections \ {c}
  /\ queue' = Push(q, conn[c].loop, <<"connectDestoryed", c>>)

\* The close callback: runInLoop() of the base loop.
removeConnection(c) ==
  IF conn[c].loop = Base
  THEN removeConnectionInLoop(c, queue)
  ELSE /\ queue' = Push(queue, Base, <<"removeConnectionInLoop", c>>)
       /\ UNCHANGED m_connections

handleClose(c) ==
  LET r == conn[c]
  IN /\ conn' = [conn EXCEPT ![c] = [r EXCEPT !.state = "kDisconnected", !.ch = disableAll(@)]]
     /\ calls' = [calls EXCEPT ![c].down = @ + 1]
     /\ OnConnection(r.peer, FALSE)
     /\ removeConnection(c)

-----------------------------------------------------------------------------
(* The base loop: start(), the acceptor, the destructor.                   *)

\* Acceptor(), listen() and ~Acceptor(), as the acceptor's channel sees them.
NewAcceptor   == NewChannel
listen(ch)    == enableReading(ch)
Unlisten(ch)  == removeChannel(disableAll(ch))

\* EventLoopThreadPool::start() of as many io loops as setThreadNum() said:
\* startLoop() has returned each of them before the next one is started, so
\* that none is without its thread when connections come.
StartLoops(n) == m_numThreads' = n

\* TcpServer::start().
Start(n) ==
  /\ server = "made" /\ server' = "started"
  /\ StartLoops(n)
  /\ acceptor' = listen(acceptor)
  /\ UNCHANGED <<m_next, m_nextConnId, m_connections, loopVars, connVars, peerVars>>

\* Mutant: m_next is counted up before it is used.
getNextLoop_CountsFirst == IF m_numThreads = 0 THEN Base ELSE m_next + 2

getNextLoop == IF m_numThreads = 0 THEN Base ELSE m_next + 1

\* What accept() may return: a client that connects.  Addresses are numbered
\* in the order in which they first connect; one connects again when its
\* connection before is closed.
accept(p) ==
  /\ \A q \in Peers : q < p => \E d \in Conn : conn[d].peer = q
  /\ \A d \in Conn : conn[d].peer = p => Closed(sock[d]) \/ ~Alive(d)

newConnection(p) ==
  LET c == m_nextConnId
      l == getNextLoop
      r == NewConn(l, p)
  IN /\ c \in Conn
     /\ m_nextConnId' = c + 1
     /\ m_next' = IF m_numThreads = 0 THEN m_next ELSE (m_next + 1) % m_numThreads
     /\ m_connections' = m_connections \cup {c}
     /\ sock' = [sock EXCEPT ![c] = NewSock]
     /\ IF l = Base
        THEN connectEstablished(c, r) /\ UNCHANGED queue
        ELSE /\ conn' = [conn EXCEPT ![c] = r]
             /\ queue' = Push(queue, l, <<"connectEstablished", c>>)
             /\ UNCHANGED <<calls, peerVars>>
     /\ UNCHANGED <<server, acceptor, m_numThreads, batch>>

\* Acceptor::handleRead(), by the base loop, which calls newConnection().
Accept(p) ==
  /\ acceptor.watched /\ Handles(Base)
  /\ accept(p)
  /\ newConnection(p)

\* The connections of a loop, in the map.
OfLoop(l) == {c \in m_connections : conn[c].loop = l}

\* ~TcpServer(), by the base loop's thread after its loop was left, and then
\* ~Acceptor().  It goes over an unordered map.
Destroy ==
  /\ server = "started" /\ Handles(Base)
  /\ server' = "destroyed"
  /\ acceptor' = Unlisten(acceptor)
  /\ m_connections' = {}
  /\ \E order \in [Loop -> UNION {SetToSeqs(OfLoop(l)) : l \in Loop}] :
       /\ \A l \in Loop : order[l] \in SetToSeqs(OfLoop(l))
       /\ queue' = [l \in Loop |->
                      queue[l] \o [i \in DOMAIN order[l] |-> <<"connectDestoryed", order[l][i]>>]]
  /\ UNCHANGED <<m_numThreads, m_next, m_nextConnId, batch, connVars, peerVars>>

-----------------------------------------------------------------------------
(* Channel::handelEventWithGuard() of a connection's channel, by its loop. *)

Polled(c) == conn[c].ch.watched /\ Handles(conn[c].loop)

TakeOutcome(c, o) ==
  /\ conn' = [conn EXCEPT ![c] = o.r]
  /\ sock' = [sock EXCEPT ![c].wshut = o.wshut, ![c].data = 0]

\* handleRead() with data: it is read to the end, and the application called.
HandleRead(c) ==
  LET r == conn[c]
      n == MsgLen * sock[c].data
  IN /\ Polled(c) /\ "read" \in r.ch.events
     /\ sock[c].data > 0
     /\ \E o \in messageCallback([r EXCEPT !.input = readFd(@, [i \in 1..n |-> Garbage])],
                                 sock[c]) : TakeOutcome(c, o)
     /\ OnMessage(r.peer)
     /\ UNCHANGED <<serverVars, loopVars, calls>>

\* The connection has ended: EPOLLIN and a read of nothing, or EPOLLHUP alone.
HandleClose(c) ==
  /\ Polled(c)
  /\ sock[c].data = 0
  /\ IF "read" \in conn[c].ch.events THEN AtEnd(sock[c]) ELSE Closed(sock[c])
  /\ handleClose(c)
  /\ UNCHANGED <<server, acceptor, m_numThreads, m_next, m_nextConnId, batch, sock>>

\* EPOLLOUT.
HandleWrite(c) ==
  LET r == conn[c]
  IN /\ Polled(c) /\ isWriting(r.ch)
     /\ \E n \in writeFd(r.output, sock[c]) :
          LET o == afterWrite(r, sock[c], n)
          IN /\ conn' = [conn EXCEPT ![c] = o.r]
             /\ sock' = [sock EXCEPT ![c].wshut = o.wshut]
     /\ UNCHANGED <<serverVars, loopVars, calls, peerVars>>

-----------------------------------------------------------------------------
(* doPendingFunctors() of a loop.                                          *)

BeginPending(l) ==
  /\ Handles(l) /\ queue[l] # <<>>
  /\ batch' = [batch EXCEPT ![l] = Len(queue[l])]
  /\ UNCHANGED <<serverVars, queue, connVars, peerVars>>

RunFunctor(l) ==
  /\ Runs(l) /\ batch[l] > 0
  /\ batch' = [batch EXCEPT ![l] = @ - 1]
  /\ LET c    == Head(queue[l])[2]
         rest == [queue EXCEPT ![l] = Tail(@)]
         f    == Head(queue[l])[1]
     IN \/ /\ f = "connectEstablished"
           /\ connectEstablished(c, conn[c])
           /\ queue' = rest
           /\ UNCHANGED <<m_connections, sock>>
        \/ /\ f = "connectDestoryed"
           /\ connectDestoryed(c, conn[c], rest)
           /\ queue' = rest
           /\ UNCHANGED m_connections
        \/ /\ f = "removeConnectionInLoop"
           /\ removeConnectionInLoop(c, rest)
           /\ UNCHANGED <<conn, sock, calls, peerVars>>
  /\ UNCHANGED <<server, acceptor, m_numThreads, m_next, m_nextConnId>>

-----------------------------------------------------------------------------
(* The clients, as long as the server looks at what they do.               *)

ClientActs(c, s) ==
  /\ Alive(c) /\ Runs(conn[c].loop) /\ conn[c].state # "kDisconnected"
  /\ sock' = [sock EXCEPT ![c] = s]
  /\ UNCHANGED <<serverVars, loopVars, conn, calls, peerVars>>

ClientSends(c)  == /\ sock[c].data < MaxData /\ ~sock[c].fin /\ ~sock[c].rst
                   /\ ClientActs(c, [sock[c] EXCEPT !.data = @ + 1])
ClientCloses(c) == /\ ~sock[c].fin /\ ~sock[c].rst
                   /\ ClientActs(c, [sock[c] EXCEPT !.fin = TRUE])
ClientResets(c) == /\ ~sock[c].fin /\ ~sock[c].rst
                   /\ ClientActs(c, [sock[c] EXCEPT !.rst = TRUE])

-----------------------------------------------------------------------------
\* TcpServer().
ServerInit ==
  /\ server = "made" /\ acceptor = NewAcceptor /\ m_numThreads = 0 /\ m_next = 0
  /\ m_nextConnId = 1 /\ m_connections = {}

\* The demo makes a loop and a server, without a client.
Init ==
  /\ ServerInit
  /\ queue = [l \in Loop |-> <<>>] /\ batch = [l \in Loop |-> 0]
  /\ conn = [c \in Conn |-> NoConn]
  /\ sock = [c \in Conn |-> NewSock]
  /\ calls = [c \in Conn |-> [up |-> 0, down |-> 0, destroyed |-> 0]]
  /\ PeerInit

LoopStep(l) == BeginPending(l) \/ RunFunctor(l)
ReadStep(c) == HandleRead(c) \/ HandleClose(c)

Next == \/ \E n \in ThreadCounts : Start(n)
        \/ \E p \in Peers : Accept(p)
        \/ Destroy
        \/ \E l \in Loop : LoopStep(l)
        \/ \E c \in Conn : \/ ReadStep(c) \/ HandleWrite(c)
                           \/ ClientSends(c) \/ ClientCloses(c) \/ ClientResets(c)

\* The loops go round: a queued functor is run (module EventLoop), and epoll,
\* which is level-triggered, reports a channel again and again while it is
\* ready to be read, or to be written.
Fairness == /\ \A l \in Loop : WF_vars(LoopStep(l))
            /\ \A c \in Conn : WF_vars(ReadStep(c)) /\ WF_vars(HandleWrite(c))

Spec == Init /\ [][Next]_vars /\ Fairness

-----------------------------------------------------------------------------
(* Properties.                                                             *)

TypeOK ==
  /\ server \in {"made", "started", "destroyed"} /\ acceptor \in Channel
  /\ m_numThreads \in ThreadCounts \cup {0} /\ m_next \in Nat
  /\ m_nextConnId \in 1..(MaxConns + 1) /\ m_connections \subseteq Conn
  /\ queue \in [Loop -> Seq(Functor)]
  /\ \A l \in Loop : batch[l] \in 0..Len(queue[l])
  /\ \A c \in Conn :
       /\ conn[c].state \in State /\ conn[c].loop \in Loop
       /\ conn[c].ch \in Channel
       /\ conn[c].input \in Buffer(Nat) /\ conn[c].output \in Buffer(Nat)
  /\ \A c \in Conn : sock[c].data \in 0..MaxData
  /\ DOMAIN peer_map \subseteq Peers

\* The poller never meets a dead connection: a channel on the kernel's list,
\* or in m_channels, belongs to a TcpConnection that the map or a functor
\* keeps alive, or to the acceptor of a server; and index and list agree, so
\* that no EPOLL_CTL_ADD or _MOD is fatal.
PollerMeetsLiveConnections ==
  /\ IndexMatchesKernel(acceptor)
  /\ server = "destroyed" => ~hasChannel(acceptor)
  /\ \A c \in Conn :
       /\ IndexMatchesKernel(conn[c].ch)
       /\ conn[c].state \in {"none", "gone"} <=> ~Alive(c)
       /\ hasChannel(conn[c].ch) => Alive(c)

\* connectEstablished and connectDestoryed are called once ("only call once",
\* TcpConnection.h:62, 64), whichever of handleClose() and the destructor of
\* the server comes first, and the channel is out of the poller after that.
EstablishedAndDestroyedOnce ==
  \A c \in Conn :
    /\ calls[c].up <= 1 /\ calls[c].destroyed <= 1
    /\ calls[c].destroyed <= calls[c].up
    /\ calls[c].destroyed = 1 => conn[c].ch.index = "kNew"

\* While the connection stands, the output buffer holds just what the
\* application handed over and the kernel has not taken, in order, and both
\* buffers stay within their vectors however they wrap and grow.
OutputIsOwed ==
  \A c \in Conn :
    /\ conn[c].state \in {"kConnected", "kDisconnecting"} /\ ~sock[c].rst =>
         conn[c].output.content = conn[c].owed
    /\ IndicesOrdered(conn[c].output) /\ IndicesOrdered(conn[c].input)

\* shutdown() closes the socket for writing only after all that was sent
\* before it has gone out ("data may still be going out when shutdown is
\* called", TcpConnection.cpp:145).
ShutdownAfterOutput ==
  \A c \in Conn : sock[c].wshut /\ ~sock[c].rst => conn[c].owed = <<>>

\* Ids identify clients: no two share one, and a client whose connection has
\* come up and not gone down has one.  Excepted is a client that came back to
\* the same address: handleClose() of its old connection, and the second call
\* by connectDestoryed(), may come after it and remove the id, which is the
\* address's.
IdsIdentifyClients ==
  /\ PeerIdsDistinct
  /\ \A c \in Conn : calls[c].up = 1 /\ calls[c].down = 0 =>
       \/ conn[c].peer \in DOMAIN peer_map
       \/ \E d \in Conn \ {c} : d # c /\ conn[d].peer = conn[c].peer /\ calls[d].down > 0

\* A connection that has closed is taken off the map and out of the poller in
\* the end, and what the application sends on one that stands goes out, unless
\* the client resets it or the server is destroyed.
Forgotten(c)  == conn[c].state = "gone" /\ calls[c].destroyed = 1
Standing(c)   == conn[c].state \in {"kConnected", "kDisconnecting"}

ConnectionsSettle ==
  \A c \in Conn :
    (conn[c].state = "kDisconnected" \/ conn[c].owed # <<>>) ~>
      \/ Forgotten(c)
      \/ Standing(c) /\ (conn[c].owed = <<>> \/ sock[c].rst)
      \/ server = "destroyed"
=============================================================================
