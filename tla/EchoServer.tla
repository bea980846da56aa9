----------------------------- MODULE EchoServer -----------------------------
(***************************************************************************)
(* The echo server of src/src/boost/IoServicePool: main accepts            *)
(* connections on its own io_context, each Session lives on one of the     *)
(* io_contexts of the pool, and the worker of logicSystem answers requests *)
(* through Session::send.  boost/LogicServer is the same program with one  *)
(* io_context for everything: Pool = <<Acceptor>>.                         *)
(*                                                                         *)
(* A completion handler runs on the thread of its io_context and is cut    *)
(* where another thread can see it half done: between start() and the      *)
(* insertion into the map, between close() and clearSession, between       *)
(* postMsgToQue and the next async_read.  What is done under smutex,       *)
(* _mutex or lmutex is one step.  The queue of logicSystem is the sequence *)
(* that LogicSystem.tla shows it to be.                                    *)
(***************************************************************************)
EXTENDS Naturals, Sequences, FiniteSets

CONSTANTS
    Sessions,     \* the sessions that are ever created (bounds the model)
    Pool,         \* the threads of the pool, in the order of IoServices
    Acceptor,     \* the thread that runs main
    MaxSendQue,   \* MAX_SENDQUE
    MaxRequests,  \* requests that a client sends at most (bounds the model)
    NoSession

Threads == {Acceptor} \cup {Pool[i] : i \in DOMAIN Pool}

ASSUME PoolAssumption == Pool \in Seq(Threads) /\ Pool # <<>>
ASSUME BoundsAssumption == MaxSendQue \in Nat /\ MaxRequests \in Nat
ASSUME NoSessionAssumption == NoSession \notin Sessions

\* What the head of a request says: an id with a callback, an id without one,
\* or an id or a length that is too large.
Kinds == {"hello", "other", "invalid"}

VARIABLES
    \* the clients and the network
    peer,      \* the client of each session: none yet, up or gone
    sent,      \* how many requests it has sent
    inbox,     \* [id, req] of its requests that have not been read
    \* Session
    sock,      \* the state of the socket
    rd,        \* the read that is outstanding
    node,      \* [id, req] of the recvNodes; the last one is recvMsgNode
    sendQue,   \* the requests whose reply is in the queue
    writes,    \* the async_writes that are outstanding, in order
    written,   \* history: the requests whose reply was written
    \* Server, logicSystem
    sessions,  \* _sessions
    msgQue,    \* <<session, index of its recvNode>>
    \* IoServicePool
    next,      \* nextIoService, from 1
    home,      \* the thread of each session's io_context
    stopped,   \* the threads whose io_context is stopped
    pc, cur    \* where each thread is, and in a handler of which session

clientVars == <<peer, sent, inbox>>
replyVars == <<sendQue, writes, written>>
poolVars == <<next, home, stopped>>
threadVars == <<pc, cur>>
vars == <<clientVars, sock, rd, node, replyVars, sessions, msgQue, poolVars, threadVars>>
-----------------------------------------------------------------------------
\* getIoService hands out the io_contexts in turn.
AfterNext == IF next = Len(Pool) THEN 1 ELSE next + 1

\* startAccept: a Session on the next io_context, for the next async_accept;
\* "socks" is sock after the handler that calls it.
StartAccept(socks) ==
    LET fresh == {s \in Sessions : socks[s] = "unused"} IN
    IF fresh = {}
    THEN sock' = socks /\ UNCHANGED <<next, home>>
    ELSE \E s \in fresh :
            /\ sock' = [socks EXCEPT ![s] = "accepting"]
            /\ home' = [home EXCEPT ![s] = Pool[next]]
            /\ next' = AfterNext

\* The pool's threads run and the constructor of Server has started to accept.
Init ==
    /\ peer = [s \in Sessions |-> "none"]
    /\ sent = [s \in Sessions |-> 0]
    /\ inbox = [s \in Sessions |-> <<>>]
    /\ \E s \in Sessions :
          sock = [x \in Sessions |-> IF x = s THEN "accepting" ELSE "unused"]
    /\ home = [s \in Sessions |-> Pool[1]]
    /\ next = IF Len(Pool) = 1 THEN 1 ELSE 2
    /\ rd = [s \in Sessions |-> "none"]
    /\ node = [s \in Sessions |-> <<>>]
    /\ sendQue = [s \in Sessions |-> <<>>]
    /\ writes = [s \in Sessions |-> <<>>]
    /\ written = [s \in Sessions |-> <<>>]
    /\ sessions = {}
    /\ msgQue = <<>>
    /\ stopped = {}
    /\ pc = [t \in Threads |-> "run"]
    /\ cur = [t \in Threads |-> NoSession]

\* A thread inside io_context::run that is free to call a handler.
Free(t) == pc[t] = "run" /\ t \notin stopped

\* The rest of a handler, after a point where other threads may run.
Continue(t, at, s) ==
    /\ pc' = [pc EXCEPT ![t] = at]
    /\ cur' = [cur EXCEPT ![t] = s]

Return(t) == Continue(t, "run", NoSession)
-----------------------------------------------------------------------------
(***************************************************************************)
(* The clients: connect, write requests without waiting for the replies,   *)
(* and leave whenever they like.                                           *)
(***************************************************************************)
Connect(s) ==
    /\ sock[s] = "accepting"
    /\ peer[s] = "none"
    /\ peer' = [peer EXCEPT ![s] = "up"]
    /\ UNCHANGED <<sent, inbox, sock, rd, node, replyVars, sessions, msgQue, poolVars, threadVars>>

Request(s, kind) ==
    /\ peer[s] = "up"
    /\ sent[s] < MaxRequests
    /\ sent' = [sent EXCEPT ![s] = @ + 1]
    /\ inbox' = [inbox EXCEPT ![s] = Append(@, [id |-> kind, req |-> sent[s] + 1])]
    /\ UNCHANGED <<peer, sock, rd, node, replyVars, sessions, msgQue, poolVars, threadVars>>

Leave(s) ==
    /\ peer[s] = "up"
    /\ peer' = [peer EXCEPT ![s] = "gone"]
    /\ UNCHANGED <<sent, inbox, sock, rd, node, replyVars, sessions, msgQue, poolVars, threadVars>>
-----------------------------------------------------------------------------
(***************************************************************************)
(* Server::handleAccept.                                                   *)
(***************************************************************************)

\* nsession->start(): the session can be read from here on.
AcceptStart(s) ==
    /\ Free(Acceptor)
    /\ sock[s] = "accepting"
    /\ peer[s] # "none"
    /\ sock' = [sock EXCEPT ![s] = "open"]
    /\ rd' = [rd EXCEPT ![s] = "head"]
    /\ Continue(Acceptor, "insert", s)
    /\ UNCHANGED <<clientVars, node, replyVars, sessions, msgQue, poolVars>>

\* _sessions.insert under _mutex, then startAccept.
AcceptInsert ==
    /\ pc[Acceptor] = "insert"
    /\ sessions' = sessions \cup {cur[Acceptor]}
    /\ StartAccept(sock)
    /\ Return(Acceptor)
    /\ UNCHANGED <<clientVars, rd, node, replyVars, msgQue, stopped>>

\* The accept failed: the session is dropped.
AcceptError(s) ==
    /\ Free(Acceptor)
    /\ sock[s] = "accepting"
    /\ StartAccept([sock EXCEPT ![s] = "refused"])
    /\ peer' = [peer EXCEPT ![s] = "gone"]
    /\ UNCHANGED <<sent, inbox, rd, node, replyVars, sessions, msgQue, stopped, threadVars>>
-----------------------------------------------------------------------------
(***************************************************************************)
(* The read cycle of a Session.                                            *)
(***************************************************************************)
Reading(t, s, part) == t = home[s] /\ Free(t) /\ rd[s] = part

\* Faulty: one recvNode for all requests of a session.
HeadRead_OneNode(t, s) ==
    /\ Reading(t, s, "head")
    /\ inbox[s] # <<>>
    /\ Head(inbox[s]).id # "invalid"
    /\ rd' = [rd EXCEPT ![s] = "body"]
    /\ node' = [node EXCEPT ![s] = <<[id |-> Head(inbox[s]).id, req |-> 0]>>]
    /\ UNCHANGED <<clientVars, sock, replyVars, sessions, msgQue, poolVars, threadVars>>

\* handleHeadRead without an error.  async_read has filled the head, the test of
\* bytesTransfreed finds nothing.  A head that is not valid ends the session
\* without close(): nothing is outstanding, the last reference closes it.
HeadRead(t, s) ==
    /\ Reading(t, s, "head")
    /\ inbox[s] # <<>>
    /\ IF Head(inbox[s]).id = "invalid"
       THEN /\ rd' = [rd EXCEPT ![s] = "none"]
            /\ sessions' = sessions \ {s}
            /\ UNCHANGED node
       ELSE /\ rd' = [rd EXCEPT ![s] = "body"]
            /\ node' = [node EXCEPT ![s] = Append(@, [id |-> Head(inbox[s]).id, req |-> 0])]
            /\ UNCHANGED sessions
    /\ UNCHANGED <<clientVars, sock, replyVars, msgQue, poolVars, threadVars>>

\* handleMsgRead without an error, up to postMsgToQue.
MsgRead(t, s) ==
    /\ Reading(t, s, "body")
    /\ inbox[s] # <<>>
    /\ node' = [node EXCEPT ![s][Len(node[s])] = [id |-> @.id, req |-> Head(inbox[s]).req]]
    /\ inbox' = [inbox EXCEPT ![s] = Tail(@)]
    /\ msgQue' = Append(msgQue, <<s, Len(node[s])>>)
    /\ rd' = [rd EXCEPT ![s] = "none"]
    /\ Continue(t, "rearm", s)
    /\ UNCHANGED <<peer, sent, sock, replyVars, sessions, poolVars>>

\* The rest of handleMsgRead: recvHeadNode->clear() and the next async_read.
ReadHeadAgain(t) ==
    /\ pc[t] = "rearm"
    /\ rd' = [rd EXCEPT ![cur[t]] = "head"]
    /\ Return(t)
    /\ UNCHANGED <<clientVars, sock, node, replyVars, sessions, msgQue, poolVars>>

Close(s) == sock' = [sock EXCEPT ![s] = "closed"]

\* Faulty: no clearSession after close().
ReadError_NoClear(t, s) ==
    /\ Reading(t, s, "head") \/ Reading(t, s, "body")
    /\ peer[s] = "gone"
    /\ Close(s)
    /\ rd' = [rd EXCEPT ![s] = "none"]
    /\ UNCHANGED <<clientVars, node, replyVars, sessions, msgQue, poolVars, threadVars>>

\* Faulty: starts the next read after an error.
ReadError_ReadsAgain(t, s) ==
    /\ Reading(t, s, "head") \/ Reading(t, s, "body")
    /\ peer[s] = "gone"
    /\ rd' = [rd EXCEPT ![s] = "head"]
    /\ UNCHANGED <<clientVars, sock, node, replyVars, sessions, msgQue, poolVars, threadVars>>

\* Either read fails when the client is gone, what it had sent last may be lost:
\* close().
ReadError(t, s) ==
    /\ Reading(t, s, "head") \/ Reading(t, s, "body")
    /\ peer[s] = "gone"
    /\ Close(s)
    /\ rd' = [rd EXCEPT ![s] = "none"]
    /\ Continue(t, "clear", s)
    /\ UNCHANGED <<clientVars, node, replyVars, sessions, msgQue, poolVars>>

\* server->clearSession(uuid) under _mutex.
ClearSession(t) ==
    /\ pc[t] = "clear"
    /\ sessions' = sessions \ {cur[t]}
    /\ Return(t)
    /\ UNCHANGED <<clientVars, sock, rd, node, replyVars, msgQue, poolVars>>
-----------------------------------------------------------------------------
(***************************************************************************)
(* Replies: Session::send on the logic worker, handleWrite on the session's *)
(* thread, both under smutex.                                              *)
(***************************************************************************)

\* async_write; on a closed socket it completes with an error.
StartWrite(s, outstanding) ==
    Append(outstanding, IF sock[s] = "closed" THEN "failing" ELSE "started")

\* Faulty: starts a write although one is outstanding.
Send_AlwaysWrites(s, r) ==
    IF Len(sendQue[s]) > MaxSendQue
    THEN UNCHANGED replyVars
    ELSE /\ sendQue' = [sendQue EXCEPT ![s] = Append(@, r)]
         /\ writes' = [writes EXCEPT ![s] = StartWrite(s, @)]
         /\ UNCHANGED written

\* Faulty: finds the queue full one reply too early.
Send_FullEarly(s, r) ==
    IF Len(sendQue[s]) >= MaxSendQue
    THEN UNCHANGED replyVars
    ELSE /\ sendQue' = [sendQue EXCEPT ![s] = Append(@, r)]
         /\ writes' = IF sendQue[s] = <<>>
                      THEN [writes EXCEPT ![s] = StartWrite(s, @)]
                      ELSE writes
         /\ UNCHANGED written

\* send: drops the reply of a full queue, writes it when the queue was empty.
Send(s, r) ==
    IF Len(sendQue[s]) > MaxSendQue
    THEN UNCHANGED replyVars
    ELSE /\ sendQue' = [sendQue EXCEPT ![s] = Append(@, r)]
         /\ writes' = IF sendQue[s] = <<>>
                      THEN [writes EXCEPT ![s] = StartWrite(s, @)]
                      ELSE writes
         /\ UNCHANGED written

\* dealMsg for the message at the front, with helloWoldCallBack.
Dispatch ==
    /\ msgQue # <<>>
    /\ LET s == Head(msgQue)[1]
           n == node[s][Head(msgQue)[2]]
       IN IF n.id = "hello" THEN Send(s, n.req) ELSE UNCHANGED replyVars
    /\ msgQue' = Tail(msgQue)
    /\ UNCHANGED <<clientVars, sock, rd, node, sessions, poolVars, threadVars>>

\* Faulty: leaves the next reply to whoever sends one.
WriteDone_NoNext(t, s) ==
    /\ t = home[s] /\ Free(t)
    /\ writes[s] # <<>>
    /\ Head(writes[s]) = "started"
    /\ written' = [written EXCEPT ![s] = Append(@, Head(sendQue[s]))]
    /\ sendQue' = [sendQue EXCEPT ![s] = Tail(@)]
    /\ writes' = [writes EXCEPT ![s] = Tail(@)]
    /\ UNCHANGED <<clientVars, sock, rd, node, sessions, msgQue, poolVars, threadVars>>

\* handleWrite without an error: writes the next reply if there is one.
WriteDone(t, s) ==
    /\ t = home[s] /\ Free(t)
    /\ writes[s] # <<>>
    /\ Head(writes[s]) = "started"
    /\ written' = [written EXCEPT ![s] = Append(@, Head(sendQue[s]))]
    /\ sendQue' = [sendQue EXCEPT ![s] = Tail(@)]
    /\ writes' = [writes EXCEPT ![s] = IF Len(sendQue[s]) > 1 THEN StartWrite(s, Tail(@)) ELSE Tail(@)]
    /\ UNCHANGED <<clientVars, sock, rd, node, sessions, msgQue, poolVars, threadVars>>

\* handleWrite with an error: the queue keeps what it has.
WriteError(t, s) ==
    /\ t = home[s] /\ Free(t)
    /\ writes[s] # <<>>
    /\ peer[s] = "gone" \/ Head(writes[s]) = "failing"
    /\ writes' = [writes EXCEPT ![s] = Tail(@)]
    /\ sessions' = sessions \ {s}
    /\ UNCHANGED <<clientVars, sock, rd, node, sendQue, written, msgQue, poolVars, threadVars>>
-----------------------------------------------------------------------------
(***************************************************************************)
(* SIGINT and SIGTERM: the handler that main registers stops main's        *)
(* io_context, then IoServicePool::stop the others, one after the other,   *)
(* and joins their threads.                                                *)
(***************************************************************************)
Signal ==
    /\ Free(Acceptor)
    /\ stopped' = {Acceptor}
    /\ Continue(Acceptor, "stop", NoSession)
    /\ UNCHANGED <<clientVars, sock, rd, node, replyVars, sessions, msgQue, next, home>>

\* Faulty: forgets the last io_context.
StopNext_NotLast(i) ==
    /\ pc[Acceptor] = "stop"
    /\ i < Len(Pool)
    /\ Pool[i] \notin stopped
    /\ \A j \in 1 .. i - 1 : Pool[j] \in stopped
    /\ stopped' = stopped \cup {Pool[i]}
    /\ UNCHANGED <<clientVars, sock, rd, node, replyVars, sessions, msgQue, next, home, threadVars>>

StopNext(i) ==
    /\ pc[Acceptor] = "stop"
    /\ Pool[i] \notin stopped
    /\ \A j \in 1 .. i - 1 : Pool[j] \in stopped
    /\ stopped' = stopped \cup {Pool[i]}
    /\ UNCHANGED <<clientVars, sock, rd, node, replyVars, sessions, msgQue, next, home, threadVars>>

\* A thread of the pool leaves io_context::run between two handlers.
RunReturns(t) ==
    /\ t # Acceptor
    /\ pc[t] = "run"
    /\ t \in stopped
    /\ Continue(t, "returned", NoSession)
    /\ UNCHANGED <<clientVars, sock, rd, node, replyVars, sessions, msgQue, poolVars>>

\* The joins, then run() of main's io_context returns and main with it.
Join ==
    /\ pc[Acceptor] = "stop"
    /\ Threads \subseteq stopped
    /\ \A t \in Threads \ {Acceptor} : pc[t] = "returned"
    /\ Continue(Acceptor, "returned", NoSession)
    /\ UNCHANGED <<clientVars, sock, rd, node, replyVars, sessions, msgQue, poolVars>>
-----------------------------------------------------------------------------
Client(s) == Connect(s) \/ Leave(s) \/ \E k \in Kinds : Request(s, k)
Accept == AcceptInsert \/ \E s \in Sessions : AcceptStart(s) \/ AcceptError(s)
Read(t, s) == HeadRead(t, s) \/ MsgRead(t, s) \/ ReadError(t, s)
Write(t, s) == WriteDone(t, s) \/ WriteError(t, s)
Finish(t) == ReadHeadAgain(t) \/ ClearSession(t) \/ RunReturns(t)
Exit == Join \/ \E i \in DOMAIN Pool : StopNext(i)

Next ==
    \/ \E s \in Sessions : Client(s)
    \/ Accept
    \/ \E t \in Threads : Finish(t) \/ \E s \in Sessions : Read(t, s) \/ Write(t, s)
    \/ Dispatch
    \/ Signal \/ Exit

Spec == Init /\ [][Next]_vars

-----------------------------------------------------------------------------
Requests == 1 .. MaxRequests
PCs == {"run", "insert", "rearm", "clear", "stop", "returned"}

TypeOK ==
    /\ peer \in [Sessions -> {"none", "up", "gone"}]
    /\ sent \in [Sessions -> 0 .. MaxRequests]
    /\ inbox \in [Sessions -> Seq([id : Kinds, req : Requests])]
    /\ sock \in [Sessions -> {"unused", "accepting", "open", "closed", "refused"}]
    /\ rd \in [Sessions -> {"none", "head", "body"}]
    /\ node \in [Sessions -> Seq([id : Kinds, req : 0 .. MaxRequests])]
    /\ sendQue \in [Sessions -> Seq(Requests)]
    /\ writes \in [Sessions -> Seq({"started", "failing"})]
    /\ written \in [Sessions -> Seq(Requests)]
    /\ sessions \subseteq Sessions
    /\ msgQue \in Seq(Sessions \X (Nat \ {0}))
    /\ next \in 1 .. Len(Pool)
    /\ home \in [Sessions -> Threads]
    /\ stopped \subseteq Threads
    /\ pc \in [Threads -> PCs]
    /\ cur \in [Threads -> Sessions \cup {NoSession}]

\* async_write writes in pieces: two of them on one socket would mix their
\* replies.  The logic worker and the io thread both start writes, and never
\* while one is outstanding; what is being written is still in the queue.
OneWriteOutstanding ==
    \A s \in Sessions : Len(writes[s]) <= 1 /\ (writes[s] # <<>> => sendQue[s] # <<>>)

\* A reply in the queue is being written or behind one that is: nobody leaves the
\* queue to the other.  Only a client that has gone stops the queue.
NoReplyStuck ==
    \A s \in Sessions : sendQue[s] # <<>> /\ writes[s] = <<>> => peer[s] = "gone"

\* A client gets replies to its own requests only, to those with a callback, in
\* the order it sent them and each once, although the node of a request waits in
\* msgQue while its session reads the next ones.
RepliesInOrder ==
    \A s \in Sessions :
        LET replies == written[s] \o sendQue[s] IN
        /\ \A i, j \in DOMAIN replies : i < j => replies[i] < replies[j]
        /\ \A i \in DOMAIN replies :
              \E n \in DOMAIN node[s] : node[s][n] = [id |-> "hello", req |-> replies[i]]

\* In the map, and it no longer reads: once its replies are written nothing can
\* remove it.
Leaked(s) ==
    /\ s \in sessions
    /\ rd[s] = "none"
    /\ \A t \in Threads : cur[t] # s

\* With one io thread handleAccept and the handlers of the new session cannot
\* overlap: every session in the map still has a way out of it.
NothingLeaks == \A s \in Sessions : ~Leaked(s)

\* The shared_ptrs to a session.
Referenced(s) ==
    \/ s \in sessions \/ sock[s] = "accepting"
    \/ rd[s] # "none" \/ writes[s] # <<>>
    \/ \E t \in Threads : cur[t] = s
    \/ \E i \in DOMAIN msgQue : msgQue[i][1] = s

\* A request with a callback before which no invalid head came, with at most
\* MAX_SENDQUE replies missing before it.
Asked(s, r) ==
    /\ sock[s] = "open"
    /\ r <= Len(written[s]) + MaxSendQue + 1
    /\ \E i \in DOMAIN inbox[s] :
          /\ inbox[s][i] = [id |-> "hello", req |-> r]
          /\ \A j \in 1 .. i : inbox[s][j].id # "invalid"

\* The requests of s that wait in msgQue for their callback.
WaitingFor(s) ==
    LET mine == SelectSeq(msgQue, LAMBDA m : m[1] = s /\ node[s][m[2]].id = "hello")
    IN [i \in DOMAIN mine |-> node[s][mine[i][2]].req]
=============================================================================
