-------------------------- MODULE EchoServerProofs --------------------------
(***************************************************************************)
(* Proofs about EchoServer, for any sessions, any pool of threads and any  *)
(* bounds: the types, one part of the state at a time, then the invariant  *)
(* of the send queue that the logic worker and the io threads share.       *)
(***************************************************************************)
EXTENDS EchoServer, TLAPS

Message == [id : Kinds, req : Requests]
Node == [id : Kinds, req : 0 .. MaxRequests]
Entry == Sessions \X (Nat \ {0})
SockStates == {"unused", "accepting", "open", "closed", "refused"}
WriteStates == {"started", "failing"}

(***************************************************************************)
(* TypeOK in parts, so that a step is looked at only where it matters, with *)
(* what is needed to make it inductive: a session that reads a body has a  *)
(* node for it, and what waits in msgQue is a node that was read.          *)
(***************************************************************************)
ClientTypes ==
    /\ peer \in [Sessions -> {"none", "up", "gone"}]
    /\ sent \in [Sessions -> 0 .. MaxRequests]
    /\ inbox \in [Sessions -> Seq(Message)]

SocketTypes == sock \in [Sessions -> SockStates]

NodeTypes ==
    /\ rd \in [Sessions -> {"none", "head", "body"}]
    /\ node \in [Sessions -> Seq(Node)]
    /\ \A s \in Sessions : rd[s] = "body" => node[s] # <<>>

ReplyTypes ==
    /\ sendQue \in [Sessions -> Seq(Requests)]
    /\ writes \in [Sessions -> Seq(WriteStates)]
    /\ written \in [Sessions -> Seq(Requests)]

QueueTypes ==
    /\ sessions \subseteq Sessions
    /\ msgQue \in Seq(Entry)

QueuedAreRead ==
    \A i \in DOMAIN msgQue :
        /\ msgQue[i][2] \in DOMAIN node[msgQue[i][1]]
        /\ node[msgQue[i][1]][msgQue[i][2]].req \in Requests

PoolTypes ==
    /\ next \in 1 .. Len(Pool)
    /\ home \in [Sessions -> Threads]
    /\ stopped \subseteq Threads

ThreadTypes ==
    /\ pc \in [Threads -> PCs]
    /\ cur \in [Threads -> Sessions \cup {NoSession}]
    /\ \A t \in Threads : pc[t] \in {"insert", "rearm", "clear"} => cur[t] \in Sessions

TypeInv ==
    /\ ClientTypes /\ SocketTypes /\ NodeTypes /\ ReplyTypes
    /\ QueueTypes /\ QueuedAreRead /\ PoolTypes /\ ThreadTypes

\* A write that is outstanding is for the reply at the front of the queue, and
\* only a client that has gone makes one fail or has its socket closed.
WriteInv ==
    \A s \in Sessions :
        /\ Len(writes[s]) <= 1
        /\ writes[s] # <<>> => sendQue[s] # <<>>
        /\ sendQue[s] # <<>> /\ writes[s] = <<>> => peer[s] = "gone"
        /\ writes[s] # <<>> /\ writes[s][1] = "failing" => peer[s] = "gone"
        /\ sock[s] = "closed" => peer[s] = "gone"
-----------------------------------------------------------------------------
\* Facts about sequences, for any set of elements.
LEMMA Appended ==
    ASSUME NEW S, NEW q \in Seq(S), NEW e \in S
    PROVE  /\ Append(q, e) \in Seq(S)
           /\ Len(q) \in Nat
           /\ Len(Append(q, e)) = Len(q) + 1
           /\ Append(q, e) # <<>>
           /\ \A i \in 1 .. Len(q) : Append(q, e)[i] = q[i]
           /\ Append(q, e)[Len(q) + 1] = e
OBVIOUS

LEMMA HeadAndTail ==
    ASSUME NEW S, NEW q \in Seq(S), q # <<>>
    PROVE  /\ Head(q) \in S
           /\ Head(q) = q[1]
           /\ Len(q) \in Nat \ {0}
           /\ Tail(q) \in Seq(S)
           /\ Len(Tail(q)) = Len(q) - 1
           /\ \A i \in 1 .. Len(q) - 1 : Tail(q)[i] = q[i + 1]
OBVIOUS

LEMMA TailOfShort ==
    ASSUME NEW S, NEW q \in Seq(S), q # <<>>
    PROVE  /\ Len(q) <= 1 => Tail(q) = <<>>
           /\ Len(q) > 1 <=> Tail(q) # <<>>
<1>1. PICK tail \in Seq(S) : tail = Tail(q) /\ Len(tail) = Len(q) - 1
    BY HeadAndTail, Zenon
<1>2. Len(q) \in Nat \ {0}
    OBVIOUS
<1>3. /\ Len(q) <= 1 => tail = <<>>
      /\ Len(q) > 1 <=> tail # <<>>
    <2>1. Len(tail) = Len(q) - 1
        BY <1>1
    <2>2. tail = <<>> <=> Len(tail) = 0
        OBVIOUS
    <2>3. QED
        BY <1>2, <2>1, <2>2
<1>4. QED
    BY <1>1, <1>3

LEMMA Threading ==
    /\ Acceptor \in Threads
    /\ Len(Pool) \in Nat \ {0}
    /\ \A i \in 1 .. Len(Pool) : Pool[i] \in Threads
    /\ DOMAIN Pool = 1 .. Len(Pool)
BY PoolAssumption DEF Threads

\* The parts are TypeOK.
LEMMA TypeInvImpliesTypeOK == TypeInv => TypeOK
BY DEF TypeInv, TypeOK, ClientTypes, SocketTypes, NodeTypes, ReplyTypes, QueueTypes, PoolTypes,
       ThreadTypes, Message, Node, Entry, SockStates, WriteStates

LEMMA TypeInit == Init => TypeInv
<1> SUFFICES ASSUME Init
             PROVE  TypeInv
    OBVIOUS
<1> USE Threading, BoundsAssumption
<1>1. ClientTypes
    BY DEF Init, ClientTypes
<1>2. SocketTypes
    BY DEF Init, SocketTypes, SockStates
<1>3. NodeTypes
    BY DEF Init, NodeTypes
<1>4. ReplyTypes
    BY DEF Init, ReplyTypes
<1>5. QueueTypes /\ QueuedAreRead
    BY DEF Init, QueueTypes, QueuedAreRead
<1>6. PoolTypes
    BY DEF Init, PoolTypes
<1>7. ThreadTypes
    BY DEF Init, ThreadTypes, PCs
<1>8. QED
    BY <1>1, <1>2, <1>3, <1>4, <1>5, <1>6, <1>7 DEF TypeInv
-----------------------------------------------------------------------------
(***************************************************************************)
(* What a step does to each part.                                          *)
(***************************************************************************)
LEMMA ClientStep == TypeInv /\ [Next]_vars => ClientTypes'
<1> SUFFICES ASSUME ClientTypes, [Next]_vars
             PROVE  ClientTypes'
    BY DEF TypeInv
<1> USE DEF ClientTypes, clientVars
<1>1. ASSUME NEW s \in Sessions, Connect(s) \/ Leave(s) \/ AcceptError(s)
      PROVE  ClientTypes'
    BY <1>1 DEF Connect, Leave, AcceptError
<1>2. ASSUME NEW s \in Sessions, NEW k \in Kinds, Request(s, k)
      PROVE  ClientTypes'
    <2> DEFINE m == [id |-> k, req |-> sent[s] + 1]
    <2>1. m \in Message /\ sent[s] + 1 \in 0 .. MaxRequests
        BY <1>2, BoundsAssumption DEF Request, Requests, Message
    <2>2. Append(inbox[s], m) \in Seq(Message)
        BY <2>1, Appended
    <2>3. sent' = [sent EXCEPT ![s] = sent[s] + 1] /\ inbox' = [inbox EXCEPT ![s] = Append(inbox[s], m)]
        BY <1>2 DEF Request
    <2>4. QED
        BY <1>2, <2>1, <2>2, <2>3 DEF Request
<1>3. ASSUME NEW t \in Threads, NEW s \in Sessions, MsgRead(t, s)
      PROVE  ClientTypes'
    <2>1. Tail(inbox[s]) \in Seq(Message)
        BY <1>3, HeadAndTail DEF MsgRead
    <2>2. QED
        BY <1>3, <2>1 DEF MsgRead
<1>4. CASE UNCHANGED clientVars
    BY <1>4
<1> HIDE DEF ClientTypes
<1>5. ASSUME NEW t \in Threads, NEW s \in Sessions,
             AcceptStart(s) \/ HeadRead(t, s) \/ ReadError(t, s) \/ Write(t, s)
      PROVE  UNCHANGED clientVars
    BY <1>5 DEF AcceptStart, HeadRead, ReadError, Write, WriteDone, WriteError
<1>6. ASSUME NEW t \in Threads, Finish(t)
      PROVE  UNCHANGED clientVars
    BY <1>6 DEF Finish, ReadHeadAgain, ClearSession, RunReturns
<1>7. CASE AcceptInsert \/ Dispatch \/ Signal \/ Exit
    BY <1>4, <1>7 DEF AcceptInsert, Dispatch, Signal, Exit, Join, StopNext
<1> HIDE DEF clientVars
<1>8. QED
    BY <1>1, <1>2, <1>3, <1>4, <1>5, <1>6, <1>7, Threading DEF Next, Client, Accept, Read, vars

\* startAccept hands out a session and an io_context that exist.
LEMMA StartAcceptTypes ==
    ASSUME PoolTypes, NEW socks \in [Sessions -> SockStates], StartAccept(socks)
    PROVE  /\ sock' \in [Sessions -> SockStates]
           /\ \A s \in Sessions : sock'[s] = "closed" <=> socks[s] = "closed"
           /\ next' \in 1 .. Len(Pool)
           /\ home' \in [Sessions -> Threads]
<1> DEFINE fresh == {s \in Sessions : socks[s] = "unused"}
<1> USE DEF PoolTypes, SockStates
<1>1. CASE fresh = {}
    BY <1>1 DEF StartAccept
<1>2. CASE fresh # {}
    <2>1. PICK s \in fresh : /\ sock' = [socks EXCEPT ![s] = "accepting"]
                             /\ home' = [home EXCEPT ![s] = Pool[next]]
                             /\ next' = AfterNext
        BY <1>2 DEF StartAccept
    <2>2. next \in 1 .. Len(Pool) /\ Len(Pool) \in Nat \ {0}
        BY Threading
    <2>3. Pool[next] \in Threads
        BY <2>2, Threading
    <2>4. AfterNext \in 1 .. Len(Pool)
        <3>1. CASE next = Len(Pool)
            BY <2>2, <3>1 DEF AfterNext
        <3>2. CASE next # Len(Pool)
            BY <2>2, <3>2 DEF AfterNext
        <3>3. QED
            BY <3>1, <3>2
    <2>5. QED
        BY <2>1, <2>3, <2>4
<1>3. QED
    BY <1>1, <1>2

LEMMA SocketAndPoolStep == TypeInv /\ [Next]_vars => SocketTypes' /\ PoolTypes'
<1> SUFFICES ASSUME SocketTypes, PoolTypes, [Next]_vars
             PROVE  SocketTypes' /\ PoolTypes'
    BY DEF TypeInv
<1> USE DEF SocketTypes, PoolTypes, poolVars
<1>1. ASSUME NEW s \in Sessions, AcceptStart(s)
      PROVE  SocketTypes' /\ PoolTypes'
    BY <1>1 DEF AcceptStart, SockStates
<1>2. CASE AcceptInsert
    BY <1>2, StartAcceptTypes DEF AcceptInsert
<1>3. ASSUME NEW s \in Sessions, AcceptError(s)
      PROVE  SocketTypes' /\ PoolTypes'
    <2>1. [sock EXCEPT ![s] = "refused"] \in [Sessions -> SockStates]
        BY <1>3 DEF SockStates
    <2>2. QED
        BY <1>3, <2>1, StartAcceptTypes DEF AcceptError
<1>4. ASSUME NEW t \in Threads, NEW s \in Sessions, ReadError(t, s)
      PROVE  SocketTypes' /\ PoolTypes'
    BY <1>4 DEF ReadError, Close, SockStates
<1>5. ASSUME NEW i \in DOMAIN Pool, StopNext(i)
      PROVE  SocketTypes' /\ PoolTypes'
    BY <1>5, Threading DEF StopNext
<1>6. CASE Signal
    BY <1>6, Threading DEF Signal
<1>7. CASE UNCHANGED <<sock, poolVars>>
    BY <1>7
<1> HIDE DEF SocketTypes, PoolTypes
<1>8. ASSUME NEW t \in Threads, NEW s \in Sessions,
             Client(s) \/ HeadRead(t, s) \/ MsgRead(t, s) \/ Write(t, s)
      PROVE  UNCHANGED <<sock, poolVars>>
    BY <1>8 DEF Client, Connect, Leave, Request, HeadRead, MsgRead, Write, WriteDone, WriteError
<1>9. ASSUME NEW t \in Threads, Finish(t)
      PROVE  UNCHANGED <<sock, poolVars>>
    BY <1>9 DEF Finish, ReadHeadAgain, ClearSession, RunReturns
<1>10. CASE Dispatch \/ Join
    BY <1>7, <1>10 DEF Dispatch, Join
<1> HIDE DEF poolVars
<1>11. QED
    BY <1>1, <1>2, <1>3, <1>4, <1>5, <1>6, <1>7, <1>8, <1>9, <1>10, Threading DEF Next, Accept, Read, Exit, vars

LEMMA ThreadStep == TypeInv /\ [Next]_vars => ThreadTypes'
<1> SUFFICES ASSUME ThreadTypes, [Next]_vars
             PROVE  ThreadTypes'
    BY DEF TypeInv
<1> USE DEF ThreadTypes, threadVars
<1>1. ASSUME NEW t \in Threads, NEW s \in Sessions, NEW at \in PCs, Continue(t, at, s)
      PROVE  ThreadTypes'
    BY <1>1 DEF Continue
<1>2. ASSUME NEW t \in Threads, NEW at \in {"run", "stop", "returned"}, Continue(t, at, NoSession)
      PROVE  ThreadTypes'
    BY <1>2 DEF Continue, PCs
<1>3. CASE UNCHANGED threadVars
    BY <1>3
<1> HIDE DEF ThreadTypes
<1>4. ASSUME NEW t \in Threads, NEW s \in Sessions, MsgRead(t, s) \/ ReadError(t, s) \/ AcceptStart(s)
      PROVE  ThreadTypes'
    BY <1>1, <1>4, Threading DEF MsgRead, ReadError, AcceptStart, PCs
<1>5. ASSUME NEW t \in Threads, AcceptInsert \/ Finish(t) \/ Signal \/ Join
      PROVE  ThreadTypes'
    BY <1>2, <1>5, Threading
       DEF AcceptInsert, Finish, ReadHeadAgain, ClearSession, RunReturns, Return, Signal, Join
<1>6. QED
    BY <1>3, <1>4, <1>5, Threading
       DEF Next, Client, Accept, Read, Write, Exit, vars, Connect, Leave, Request, AcceptError,
           HeadRead, WriteDone, WriteError, Dispatch, StopNext

\* What HeadRead does to the nodes of a session.
LEMMA HeadReadNodes ==
    ASSUME NodeTypes, ClientTypes, NEW t \in Threads, NEW s \in Sessions, HeadRead(t, s)
    PROVE  \/ rd' = [rd EXCEPT ![s] = "none"] /\ node' = node
           \/ /\ rd' = [rd EXCEPT ![s] = "body"]
              /\ \E n \in Node : node' = [node EXCEPT ![s] = Append(node[s], n)]
<1>1. CASE Head(inbox[s]).id = "invalid"
    BY <1>1 DEF HeadRead
<1>2. CASE Head(inbox[s]).id # "invalid"
    <2> DEFINE n == [id |-> Head(inbox[s]).id, req |-> 0]
    <2>1. Head(inbox[s]) \in Message
        BY HeadAndTail DEF HeadRead, ClientTypes
    <2>2. n \in Node
        BY <2>1, BoundsAssumption DEF Message, Node
    <2>3. rd' = [rd EXCEPT ![s] = "body"] /\ node' = [node EXCEPT ![s] = Append(node[s], n)]
        BY <1>2 DEF HeadRead
    <2>4. QED
        BY <2>2, <2>3
<1>3. QED
    BY <1>1, <1>2

\* What MsgRead does: the last node gets its request and is queued.
LEMMA MsgReadNodes ==
    ASSUME NodeTypes, ClientTypes, NEW t \in Threads, NEW s \in Sessions, MsgRead(t, s)
    PROVE  LET last == Len(node[s]) IN
           /\ last \in 1 .. Len(node[s])
           /\ rd' = [rd EXCEPT ![s] = "none"]
           /\ node' \in [Sessions -> Seq(Node)]
           /\ \A x \in Sessions \ {s} : node'[x] = node[x]
           /\ Len(node'[s]) = Len(node[s])
           /\ \A i \in 1 .. Len(node[s]) : i # last => node'[s][i] = node[s][i]
           /\ node'[s][last].req \in Requests
           /\ msgQue' = Append(msgQue, <<s, last>>)
<1> DEFINE last == Len(node[s])
<1> DEFINE n == [id |-> node[s][last].id, req |-> Head(inbox[s]).req]
<1>1. node[s] \in Seq(Node) /\ node[s] # <<>>
    BY DEF MsgRead, Reading, NodeTypes
<1>2. last \in 1 .. Len(node[s]) /\ node[s][last] \in Node
    BY <1>1
<1>3. Head(inbox[s]) \in Message
    BY HeadAndTail DEF MsgRead, ClientTypes
<1>4. n \in Node /\ n.req \in Requests
    BY <1>2, <1>3, BoundsAssumption DEF Message, Node, Requests
<1>5. node' = [node EXCEPT ![s] = [node[s] EXCEPT ![last] = n]]
    BY DEF MsgRead
<1>6. [node[s] EXCEPT ![last] = n] \in Seq(Node) /\ Len([node[s] EXCEPT ![last] = n]) = Len(node[s])
    BY <1>1, <1>2, <1>4
<1>7. \A i \in 1 .. Len(node[s]) : [node[s] EXCEPT ![last] = n][i] = IF i = last THEN n ELSE node[s][i]
    BY <1>1, <1>2
<1>8. node'[s] = [node[s] EXCEPT ![last] = n]
    BY <1>5 DEF NodeTypes
<1>9. node' \in [Sessions -> Seq(Node)] /\ \A x \in Sessions \ {s} : node'[x] = node[x]
    BY <1>5, <1>6 DEF NodeTypes
<1>10. rd' = [rd EXCEPT ![s] = "none"] /\ msgQue' = Append(msgQue, <<s, last>>)
    BY DEF MsgRead
<1>11. QED
    BY <1>2, <1>4, <1>6, <1>7, <1>8, <1>9, <1>10

LEMMA NodeStep == TypeInv /\ [Next]_vars => NodeTypes'
<1> SUFFICES ASSUME NodeTypes, ClientTypes, ThreadTypes, [Next]_vars
             PROVE  NodeTypes'
    BY DEF TypeInv
<1> USE DEF NodeTypes
<1>1. ASSUME NEW s \in Sessions, NEW r \in {"none", "head"}, rd' = [rd EXCEPT ![s] = r], node' = node
      PROVE  NodeTypes'
    BY <1>1
<1>2. ASSUME NEW t \in Threads, NEW s \in Sessions, HeadRead(t, s)
      PROVE  NodeTypes'
    <2>1. CASE node' = node
        BY <1>1, <1>2, <2>1, HeadReadNodes
    <2>2. ASSUME rd' = [rd EXCEPT ![s] = "body"], 
                 NEW n \in Node, node' = [node EXCEPT ![s] = Append(node[s], n)]
          PROVE  NodeTypes'
        <3>1. Append(node[s], n) \in Seq(Node) /\ Append(node[s], n) # <<>>
            BY Appended
        <3>2. QED
            BY <2>2, <3>1
    <2>3. QED
        BY <1>1, <1>2, <2>2, HeadReadNodes
<1>3. ASSUME NEW t \in Threads, NEW s \in Sessions, MsgRead(t, s)
      PROVE  NodeTypes'
    <2>1. /\ rd' = [rd EXCEPT ![s] = "none"]
          /\ node' \in [Sessions -> Seq(Node)]
          /\ \A x \in Sessions \ {s} : node'[x] = node[x]
        BY <1>3, MsgReadNodes
    <2>2. QED
        BY <2>1
<1>4. ASSUME NEW t \in Threads, ReadHeadAgain(t)
      PROVE  NodeTypes'
    <2>1. cur[t] \in Sessions
        BY <1>4 DEF ReadHeadAgain, ThreadTypes
    <2>2. rd' = [rd EXCEPT ![cur[t]] = "head"] /\ node' = node
        BY <1>4 DEF ReadHeadAgain
    <2>3. QED
        BY <1>1, <2>1, <2>2
<1>5. QED
    BY <1>1, <1>2, <1>3, <1>4
       DEF Next, Client, Accept, Read, Write, Finish, Exit, vars, Connect, Leave, Request, AcceptStart,
           AcceptInsert, AcceptError, ReadError, ClearSession, RunReturns, WriteDone, WriteError,
           Dispatch, Signal, Join, StopNext

\* What a reply is added to, and what send writes.
LEMMA SendReplies ==
    ASSUME ReplyTypes, NEW s \in Sessions, NEW r \in Requests, Send(s, r)
    PROVE  /\ written' = written
           /\ \/ sendQue' = sendQue /\ writes' = writes
              \/ /\ sendQue' = [sendQue EXCEPT ![s] = Append(sendQue[s], r)]
                 /\ \/ sendQue[s] # <<>> /\ writes' = writes
                    \/ /\ sendQue[s] = <<>>
                       /\ writes' = [writes EXCEPT ![s] = StartWrite(s, writes[s])]
<1>1. CASE Len(sendQue[s]) > MaxSendQue
    BY <1>1 DEF Send, replyVars
<1>2. CASE ~(Len(sendQue[s]) > MaxSendQue)
    BY <1>2 DEF Send
<1>3. QED
    BY <1>1, <1>2

\* What the logic worker does to the queues, whoever else runs.
Dispatched ==
    /\ msgQue # <<>>
    /\ LET s == Head(msgQue)[1]
           n == node[s][Head(msgQue)[2]]
       IN IF n.id = "hello" THEN Send(s, n.req) ELSE UNCHANGED replyVars
    /\ msgQue' = Tail(msgQue)

\* Dispatch takes the message at the front, and may send its reply.
LEMMA DispatchReplies ==
    ASSUME QueueTypes, QueuedAreRead, Dispatched
    PROVE  /\ msgQue # <<>> /\ msgQue' = Tail(msgQue)
           /\ \/ UNCHANGED replyVars
              \/ \E s \in Sessions, r \in Requests : Send(s, r)
<1> DEFINE s == Head(msgQue)[1]
<1> DEFINE n == node[s][Head(msgQue)[2]]
<1>1. msgQue # <<>> /\ msgQue' = Tail(msgQue)
    BY DEF Dispatched
<1>2. Head(msgQue) \in Entry /\ Head(msgQue) = msgQue[1] /\ 1 \in DOMAIN msgQue
    BY <1>1, HeadAndTail DEF QueueTypes
<1>3. s \in Sessions
    BY <1>2 DEF Entry
<1>4. n.req \in Requests
    BY <1>2 DEF QueuedAreRead
<1>5. CASE n.id = "hello"
    <2>1. Send(s, n.req)
        BY <1>5 DEF Dispatched
    <2>2. QED
        BY <1>1, <1>3, <1>4, <2>1
<1>6. CASE n.id # "hello"
    BY <1>1, <1>6 DEF Dispatched
<1>7. QED
    BY <1>5, <1>6

LEMMA StartedWrites ==
    ASSUME NEW s \in Sessions, NEW q \in Seq(WriteStates)
    PROVE  /\ StartWrite(s, q) \in Seq(WriteStates)
           /\ Len(StartWrite(s, q)) = Len(q) + 1
           /\ StartWrite(s, q)[Len(q) + 1] = IF sock[s] = "closed" THEN "failing" ELSE "started"
<1> DEFINE w == IF sock[s] = "closed" THEN "failing" ELSE "started"
<1>1. w \in WriteStates
    BY DEF WriteStates
<1>2. StartWrite(s, q) = Append(q, w)
    BY DEF StartWrite
<1> HIDE DEF w
<1>3. Append(q, w) \in Seq(WriteStates) /\ Len(Append(q, w)) = Len(q) + 1 /\ Append(q, w)[Len(q) + 1] = w
    BY <1>1, Appended
<1>4. QED
    BY <1>2, <1>3 DEF w


LEMMA FirstWrite ==
    ASSUME NEW s \in Sessions
    PROVE  \E w \in WriteStates :
              /\ StartWrite(s, <<>>) = <<w>>
              /\ w = "failing" <=> sock[s] = "closed"
<1>1. CASE sock[s] = "closed"
    BY <1>1 DEF StartWrite, WriteStates
<1>2. CASE sock[s] # "closed"
    BY <1>2 DEF StartWrite, WriteStates
<1>3. QED
    BY <1>1, <1>2

\* What handleWrite does without an error, on whichever thread.
ReplyWritten(s) ==
    /\ writes[s] # <<>>
    /\ written' = [written EXCEPT ![s] = Append(@, Head(sendQue[s]))]
    /\ sendQue' = [sendQue EXCEPT ![s] = Tail(@)]
    /\ writes' = [writes EXCEPT ![s] = IF Len(sendQue[s]) > 1 THEN StartWrite(s, Tail(@)) ELSE Tail(@)]

\* The reply is taken from the queue, and the next one is being written if there is
\* one.
LEMMA WriteDoneReplies ==
    ASSUME ReplyTypes, WriteInv, NEW s \in Sessions, ReplyWritten(s)
    PROVE  /\ sendQue[s] # <<>>
           /\ sendQue' = [sendQue EXCEPT ![s] = Tail(sendQue[s])]
           /\ written' = [written EXCEPT ![s] = Append(written[s], Head(sendQue[s]))]
           /\ \E w \in Seq(WriteStates) :
                 /\ writes' = [writes EXCEPT ![s] = w]
                 /\ Len(w) <= 1
                 /\ w # <<>> <=> Tail(sendQue[s]) # <<>>
                 /\ w # <<>> /\ w[1] = "failing" => sock[s] = "closed"
<1>1. writes[s] # <<>> /\ writes[s] \in Seq(WriteStates) /\ sendQue[s] \in Seq(Requests)
    BY DEF ReplyWritten, ReplyTypes
<1>2. sendQue[s] # <<>> /\ Len(writes[s]) <= 1
    BY <1>1 DEF WriteInv
<1>3. Tail(writes[s]) = <<>> /\ <<>> \in Seq(WriteStates) /\ Len(<<>>) = 0
    BY <1>1, <1>2, TailOfShort
<1>4. Len(sendQue[s]) > 1 <=> Tail(sendQue[s]) # <<>>
    BY <1>1, <1>2, TailOfShort
<1>5. /\ sendQue' = [sendQue EXCEPT ![s] = Tail(sendQue[s])]
      /\ written' = [written EXCEPT ![s] = Append(written[s], Head(sendQue[s]))]
      /\ writes' = [writes EXCEPT ![s] = IF Len(sendQue[s]) > 1
                                         THEN StartWrite(s, Tail(writes[s]))
                                         ELSE Tail(writes[s])]
    BY DEF ReplyWritten
<1> DEFINE Follows(w) ==
        /\ Len(w) <= 1
        /\ w # <<>> <=> Tail(sendQue[s]) # <<>>
        /\ w # <<>> /\ w[1] = "failing" => sock[s] = "closed"
<1>6. \E w \in Seq(WriteStates) : writes' = [writes EXCEPT ![s] = w] /\ Follows(w)
    <2>1. CASE Len(sendQue[s]) > 1
        <3>1. PICK w \in WriteStates : /\ StartWrite(s, <<>>) = <<w>>
                                       /\ w = "failing" <=> sock[s] = "closed"
            BY FirstWrite
        <3>2. writes' = [writes EXCEPT ![s] = <<w>>]
            BY <1>3, <1>5, <2>1, <3>1
        <3>3. <<w>> \in Seq(WriteStates) /\ Len(<<w>>) = 1 /\ <<w>> # <<>> /\ <<w>>[1] = w
            OBVIOUS
        <3>4. Follows(<<w>>)
            BY <1>4, <2>1, <3>1, <3>3
        <3> HIDE DEF Follows
        <3>5. QED
            BY <3>2, <3>3, <3>4
    <2>2. CASE ~(Len(sendQue[s]) > 1)
        <3>1. writes' = [writes EXCEPT ![s] = <<>>]
            BY <1>3, <1>5, <2>2
        <3>2. Follows(<<>>)
            BY <1>3, <1>4, <2>2
        <3> HIDE DEF Follows
        <3>3. QED
            BY <1>3, <3>1, <3>2
    <2>3. QED
        BY <2>1, <2>2
<1>7. QED
    BY <1>2, <1>5, <1>6

\* The client of a session stays gone, and a socket is closed only when it is.
ClientsKept ==
    \A x \in Sessions :
        /\ peer[x] = "gone" => peer'[x] = "gone"
        /\ sock'[x] = "closed" => peer'[x] = "gone"

\* What send, handleWrite and a write that fails do to the invariant of the queue.
LEMMA SendKeeps ==
    ASSUME ReplyTypes, WriteInv, ClientsKept, NEW s \in Sessions, NEW r \in Requests, Send(s, r)
    PROVE  ReplyTypes' /\ WriteInv'
<1> USE DEF ReplyTypes, WriteInv, ClientsKept
<1>1. CASE UNCHANGED <<sendQue, writes>>
    BY <1>1, SendReplies
<1>2. CASE ~ UNCHANGED <<sendQue, writes>>
    <2> DEFINE q == Append(sendQue[s], r)
    <2>1. /\ sendQue' = [sendQue EXCEPT ![s] = q] /\ written' = written
          /\ \/ sendQue[s] # <<>> /\ writes' = writes
             \/ sendQue[s] = <<>> /\ writes' = [writes EXCEPT ![s] = StartWrite(s, writes[s])]
        BY <1>2, SendReplies
    <2>2. q \in Seq(Requests) /\ q # <<>>
        <3>1. sendQue[s] \in Seq(Requests)
            OBVIOUS
        <3>2. QED
            BY <3>1, Appended, ZenonT(40)
    <2> HIDE DEF q
    <2>3. sendQue'[s] # <<>> /\ \A x \in Sessions \ {s} : sendQue'[x] = sendQue[x]
        BY <2>1, <2>2
    <2>4. CASE sendQue[s] # <<>> /\ writes' = writes
        BY <2>1, <2>2, <2>3, <2>4
    <2>5. CASE sendQue[s] = <<>> /\ writes' = [writes EXCEPT ![s] = StartWrite(s, writes[s])]
        <3>1. PICK w \in WriteStates : /\ StartWrite(s, <<>>) = <<w>>
                                       /\ w = "failing" <=> sock[s] = "closed"
            BY FirstWrite
        <3>2. writes[s] = <<>>
            BY <2>5
        <3>3. writes'[s] = <<w>> /\ \A x \in Sessions \ {s} : writes'[x] = writes[x]
            BY <2>5, <3>1, <3>2
        <3>4. <<w>> \in Seq(WriteStates) /\ Len(<<w>>) <= 1 /\ <<w>> # <<>> /\ <<w>>[1] = w
            OBVIOUS
        <3>5. ReplyTypes'
            <4>1. writes' = [writes EXCEPT ![s] = <<w>>]
                BY <2>5, <3>1, <3>2
            <4>2. QED
                BY <2>1, <2>2, <3>4, <4>1
        <3>6. ASSUME NEW x \in Sessions, x # s
              PROVE  WriteInv!(x)'
            BY <2>3, <3>3, <3>6
        <3>7. WriteInv!(s)'
            BY <2>3, <3>1, <3>3, <3>4
        <3>8. QED
            BY <3>5, <3>6, <3>7
    <2>6. QED
        BY <2>1, <2>4, <2>5
<1>3. QED
    BY <1>1, <1>2

LEMMA WrittenKeeps ==
    ASSUME ReplyTypes, WriteInv, ClientsKept, NEW s \in Sessions, ReplyWritten(s)
    PROVE  ReplyTypes' /\ WriteInv'
<1> USE DEF ReplyTypes, WriteInv, ClientsKept
<1>1. /\ sendQue[s] # <<>>
      /\ sendQue' = [sendQue EXCEPT ![s] = Tail(sendQue[s])]
      /\ written' = [written EXCEPT ![s] = Append(written[s], Head(sendQue[s]))]
    BY WriteDoneReplies
<1>2. PICK w \in Seq(WriteStates) :
          /\ writes' = [writes EXCEPT ![s] = w]
          /\ Len(w) <= 1
          /\ w # <<>> <=> Tail(sendQue[s]) # <<>>
          /\ w # <<>> /\ w[1] = "failing" => sock[s] = "closed"
    BY WriteDoneReplies
<1>3. Tail(sendQue[s]) \in Seq(Requests) /\ Append(written[s], Head(sendQue[s])) \in Seq(Requests)
    BY <1>1, HeadAndTail, Appended
<1>4. writes'[s] = w /\ sendQue'[s] = Tail(sendQue[s])
    BY <1>1, <1>2
<1>5. \A x \in Sessions \ {s} : writes'[x] = writes[x] /\ sendQue'[x] = sendQue[x]
    BY <1>1, <1>2
<1>6. ReplyTypes'
    BY <1>1, <1>2, <1>3
<1>7. WriteInv'
    BY <1>2, <1>4, <1>5
<1>8. QED
    BY <1>6, <1>7

\* A write that is outstanding is over and took nothing from the queue.
WriteFailed(s) ==
    /\ writes[s] # <<>>
    /\ peer[s] = "gone" \/ Head(writes[s]) = "failing"
    /\ writes' = [writes EXCEPT ![s] = Tail(@)]
    /\ UNCHANGED <<sendQue, written>>

LEMMA FailedKeeps ==
    ASSUME ReplyTypes, WriteInv, ClientsKept, NEW s \in Sessions, WriteFailed(s)
    PROVE  ReplyTypes' /\ WriteInv'
<1> USE DEF ReplyTypes, WriteInv, ClientsKept, WriteFailed
<1>1. Head(writes[s]) = writes[s][1] /\ Tail(writes[s]) \in Seq(WriteStates) /\ Tail(writes[s]) = <<>>
    BY HeadAndTail, TailOfShort
<1>2. peer[s] = "gone"
    BY <1>1
<1>3. writes'[s] = <<>> /\ \A x \in Sessions \ {s} : writes'[x] = writes[x]
    BY <1>1
<1>4. QED
    BY <1>1, <1>2, <1>3

LEMMA ReplyStep == TypeInv /\ WriteInv /\ ClientsKept /\ [Next]_vars => ReplyTypes'
<1> SUFFICES ASSUME ReplyTypes, QueueTypes, QueuedAreRead, WriteInv, ClientsKept, [Next]_vars
             PROVE  ReplyTypes'
    BY DEF TypeInv
<1>1. CASE UNCHANGED replyVars
    BY <1>1 DEF ReplyTypes, replyVars
<1>2. CASE Dispatch
    BY <1>1, <1>2, SendKeeps, DispatchReplies DEF Dispatch, Dispatched
<1>3. ASSUME NEW t \in Threads, NEW s \in Sessions, WriteDone(t, s)
      PROVE  ReplyTypes'
    BY <1>3, WrittenKeeps DEF WriteDone, ReplyWritten
<1>4. ASSUME NEW t \in Threads, NEW s \in Sessions, WriteError(t, s)
      PROVE  ReplyTypes'
    BY <1>4, FailedKeeps DEF WriteError, WriteFailed
<1>5. QED
    BY <1>1, <1>2, <1>3, <1>4
       DEF Next, Client, Accept, Read, Write, Finish, Exit, vars, Connect, Leave, Request, AcceptStart,
           AcceptInsert, AcceptError, HeadRead, MsgRead, ReadError, ReadHeadAgain, ClearSession,
           RunReturns, Signal, Join, StopNext

LEMMA QueueStep == TypeInv /\ [Next]_vars => QueueTypes'
<1> SUFFICES ASSUME QueueTypes, QueuedAreRead, ThreadTypes, NodeTypes, ClientTypes, [Next]_vars
             PROVE  QueueTypes'
    BY DEF TypeInv
<1> USE DEF QueueTypes
<1>1. CASE AcceptInsert
    BY <1>1, Threading DEF AcceptInsert, ThreadTypes
<1>2. ASSUME NEW t \in Threads, NEW s \in Sessions, HeadRead(t, s) \/ WriteError(t, s) \/ ClearSession(t)
      PROVE  QueueTypes'
    <2>1. msgQue' = msgQue
        BY <1>2 DEF HeadRead, WriteError, ClearSession
    <2>2. sessions' \subseteq sessions
        BY <1>2 DEF HeadRead, WriteError, ClearSession
    <2>3. QED
        BY <2>1, <2>2
<1>3. ASSUME NEW t \in Threads, NEW s \in Sessions, MsgRead(t, s)
      PROVE  QueueTypes'
    <2> DEFINE last == Len(node[s])
    <2>1. last \in 1 .. Len(node[s]) /\ msgQue' = Append(msgQue, <<s, last>>)
        BY <1>3, MsgReadNodes
    <2>2. Len(node[s]) \in Nat
        BY DEF NodeTypes
    <2>3. <<s, last>> \in Entry
        BY <2>1, <2>2 DEF Entry
    <2>4. QED
        BY <1>3, <2>1, <2>3, Appended DEF MsgRead
<1>4. CASE Dispatch
    <2>1. Tail(msgQue) \in Seq(Entry)
        BY <1>4, DispatchReplies, HeadAndTail DEF Dispatch, Dispatched
    <2>2. QED
        BY <1>4, <2>1 DEF Dispatch
<1>5. QED
    BY <1>1, <1>2, <1>3, <1>4
       DEF Next, Client, Accept, Read, Write, Finish, Exit, vars, Connect, Leave, Request, AcceptStart,
           AcceptError, ReadError, ReadHeadAgain, ClearSession, RunReturns, WriteDone, Signal, Join, StopNext

\* Nodes are only added and filled: what was queued as read stays read.
LEMMA QueuedStep == TypeInv /\ [Next]_vars => QueuedAreRead'
<1> SUFFICES ASSUME QueueTypes, QueuedAreRead, NodeTypes, ClientTypes, [Next]_vars
             PROVE  QueuedAreRead'
    BY DEF TypeInv
<1> DEFINE IsRead(m, nodes) == m[2] \in DOMAIN nodes[m[1]] /\ nodes[m[1]][m[2]].req \in Requests
<1>1. \A i \in DOMAIN msgQue : IsRead(msgQue[i], node)
    BY DEF QueuedAreRead
<1>2. /\ DOMAIN msgQue = 1 .. Len(msgQue) /\ Len(msgQue) \in Nat
      /\ \A i \in DOMAIN msgQue : msgQue[i] \in Entry /\ msgQue[i][1] \in Sessions
    BY DEF QueueTypes, Entry
<1>3. SUFFICES \A i \in DOMAIN msgQue' : IsRead(msgQue'[i], node')
    BY DEF QueuedAreRead
<1>4. ASSUME NEW t \in Threads, NEW s \in Sessions, HeadRead(t, s)
      PROVE  \A i \in DOMAIN msgQue' : IsRead(msgQue'[i], node')
    <2>1. msgQue' = msgQue
        BY <1>4 DEF HeadRead
    <2>2. CASE node' = node
        BY <1>1, <2>1, <2>2
    <2>3. ASSUME NEW n \in Node, node' = [node EXCEPT ![s] = Append(node[s], n)]
          PROVE  \A i \in DOMAIN msgQue' : IsRead(msgQue'[i], node')
        <3>1. node[s] \in Seq(Node) /\ node'[s] = Append(node[s], n)
            BY <2>3 DEF NodeTypes
        <3>2. \A j \in DOMAIN node[s] : j \in DOMAIN node'[s] /\ node'[s][j] = node[s][j]
            BY <3>1, Appended
        <3>3. \A x \in Sessions \ {s} : node'[x] = node[x]
            BY <2>3 DEF NodeTypes
        <3>4. \A m \in Entry : m[1] \in Sessions /\ IsRead(m, node) => IsRead(m, node')
            BY <3>2, <3>3
        <3>5. QED
            BY <1>1, <1>2, <2>1, <3>4
    <2>4. QED
        BY <1>4, <2>2, <2>3, HeadReadNodes
<1>5. ASSUME NEW t \in Threads, NEW s \in Sessions, MsgRead(t, s)
      PROVE  \A i \in DOMAIN msgQue' : IsRead(msgQue'[i], node')
    <2> DEFINE last == Len(node[s])
    <2>1. /\ last \in 1 .. Len(node[s])
          /\ node' \in [Sessions -> Seq(Node)]
          /\ \A x \in Sessions \ {s} : node'[x] = node[x]
          /\ Len(node'[s]) = Len(node[s])
          /\ \A i \in 1 .. Len(node[s]) : i # last => node'[s][i] = node[s][i]
          /\ node'[s][last].req \in Requests
          /\ msgQue' = Append(msgQue, <<s, last>>)
        BY <1>5, MsgReadNodes
    <2>2. /\ DOMAIN node[s] = 1 .. Len(node[s])
          /\ DOMAIN node'[s] = DOMAIN node[s]
        BY <2>1 DEF NodeTypes
    <2>3. IsRead(<<s, last>>, node')
        BY <2>1, <2>2
    <2>4. ASSUME NEW m \in Entry, m[1] \in Sessions, IsRead(m, node)
          PROVE  IsRead(m, node')
        <3>1. CASE m[1] # s
            BY <2>1, <2>4, <3>1
        <3>2. CASE m[1] = s /\ m[2] = last
            BY <2>1, <2>2, <3>2
        <3>3. CASE m[1] = s /\ m[2] # last
            BY <2>1, <2>2, <2>4, <3>3
        <3>4. QED
            BY <3>1, <3>2, <3>3
    <2>5. <<s, last>> \in Entry
        <3>1. last \in Nat \ {0}
            BY <2>1 DEF NodeTypes
        <3>2. QED
            BY <3>1 DEF Entry
    <2> HIDE DEF IsRead, last
    <2>6. /\ DOMAIN msgQue' = 1 .. Len(msgQue) + 1
          /\ \A i \in DOMAIN msgQue : msgQue'[i] = msgQue[i]
          /\ msgQue'[Len(msgQue) + 1] = <<s, last>>
        BY <2>1, <2>5, Appended DEF QueueTypes
    <2>7. QED
        BY <1>1, <1>2, <2>3, <2>4, <2>6
<1>6. CASE Dispatch
    <2>1. node' = node /\ msgQue # <<>> /\ msgQue' = Tail(msgQue)
        BY <1>6 DEF Dispatch
    <2>2. \A i \in DOMAIN Tail(msgQue) : i + 1 \in DOMAIN msgQue /\ Tail(msgQue)[i] = msgQue[i + 1]
        BY <2>1 DEF QueueTypes
    <2> HIDE DEF IsRead
    <2>3. QED
        BY <1>1, <2>1, <2>2
<1>7. CASE UNCHANGED <<node, msgQue>>
    BY <1>1, <1>7
<1>8. QED
    BY <1>4, <1>5, <1>6, <1>7
       DEF Next, Client, Accept, Read, Write, Finish, Exit, vars, Connect, Leave, Request, AcceptStart,
           AcceptInsert, AcceptError, ReadError, ReadHeadAgain, ClearSession, RunReturns, WriteDone,
           WriteError, Signal, Join, StopNext
-----------------------------------------------------------------------------
(***************************************************************************)
(* The invariant of the send queue.                                        *)
(***************************************************************************)
LEMMA WriteInit == Init => WriteInv
<1> SUFFICES ASSUME Init, NEW s \in Sessions
             PROVE  writes[s] = <<>> /\ sendQue[s] = <<>> /\ sock[s] # "closed"
    BY DEF WriteInv
<1> QED
    BY DEF Init

LEMMA ClientsKeptByStep == TypeInv /\ WriteInv /\ [Next]_vars => ClientsKept
<1> SUFFICES ASSUME TypeInv, WriteInv, [Next]_vars
             PROVE  ClientsKept
    OBVIOUS
<1>1. /\ SocketTypes /\ PoolTypes
      /\ peer \in [Sessions -> {"none", "up", "gone"}]
      /\ \A x \in Sessions : sock[x] = "closed" => peer[x] = "gone"
    BY DEF TypeInv, ClientTypes, WriteInv
<1> USE DEF ClientsKept
<1>2. CASE UNCHANGED <<peer, sock>>
    BY <1>1, <1>2
<1>3. ASSUME NEW s \in Sessions, Connect(s) \/ Leave(s)
      PROVE  ClientsKept
    BY <1>1, <1>3 DEF Connect, Leave
<1>4. ASSUME NEW s \in Sessions, AcceptStart(s)
      PROVE  ClientsKept
    BY <1>1, <1>4 DEF AcceptStart, SocketTypes, clientVars
<1>5. CASE AcceptInsert
    BY <1>1, <1>5, StartAcceptTypes DEF AcceptInsert, SocketTypes, clientVars
<1>6. ASSUME NEW s \in Sessions, AcceptError(s)
      PROVE  ClientsKept
    <2> DEFINE socks == [sock EXCEPT ![s] = "refused"]
    <2>1. socks \in [Sessions -> SockStates] /\ \A x \in Sessions : socks[x] = "closed" => sock[x] = "closed"
        BY <1>1, <1>6 DEF SocketTypes, SockStates
    <2>2. StartAccept(socks)
        BY <1>6 DEF AcceptError
    <2> HIDE DEF socks
    <2>3. \A x \in Sessions : sock'[x] = "closed" => sock[x] = "closed"
        BY <1>1, <2>1, <2>2, StartAcceptTypes
    <2>4. \A x \in Sessions : peer[x] = "gone" => peer'[x] = "gone"
        BY <1>1, <1>6 DEF AcceptError
    <2>5. QED
        BY <1>1, <2>3, <2>4
<1>7. ASSUME NEW t \in Threads, NEW s \in Sessions, ReadError(t, s)
      PROVE  ClientsKept
    BY <1>1, <1>7 DEF ReadError, Close, SocketTypes, clientVars
<1> HIDE DEF ClientsKept
<1>8. QED
    BY <1>2, <1>3, <1>4, <1>5, <1>6, <1>7, ZenonT(40)
       DEF Next, Client, Accept, Read, Write, Finish, Exit, vars, clientVars, Request, HeadRead, MsgRead,
           ReadHeadAgain, ClearSession, RunReturns, WriteDone, WriteError, Dispatch, Signal, Join, StopNext

LEMMA WriteStep == TypeInv /\ WriteInv /\ [Next]_vars => WriteInv'
<1> SUFFICES ASSUME TypeInv, WriteInv, [Next]_vars
             PROVE  WriteInv'
    OBVIOUS
<1>1. ReplyTypes /\ QueueTypes /\ QueuedAreRead /\ ClientsKept
    BY ClientsKeptByStep DEF TypeInv
<1>2. CASE Dispatch
    <2>1. CASE UNCHANGED replyVars
        BY <1>1, <2>1 DEF replyVars, WriteInv, ClientsKept
    <2>2. QED
        BY <1>1, <1>2, <2>1, SendKeeps, DispatchReplies DEF Dispatch, Dispatched
<1>3. ASSUME NEW t \in Threads, NEW s \in Sessions, WriteDone(t, s)
      PROVE  WriteInv'
    BY <1>1, <1>3, WrittenKeeps DEF WriteDone, ReplyWritten
<1>4. ASSUME NEW t \in Threads, NEW s \in Sessions, WriteError(t, s)
      PROVE  WriteInv'
    BY <1>1, <1>4, FailedKeeps DEF WriteError, WriteFailed
<1>5. CASE UNCHANGED <<sendQue, writes>>
    BY <1>1, <1>5 DEF WriteInv, ClientsKept
<1>6. QED
    BY <1>2, <1>3, <1>4, <1>5
       DEF Next, Client, Accept, Read, Write, Finish, Exit, vars, replyVars, Connect, Leave, Request,
           AcceptStart, AcceptInsert, AcceptError, HeadRead, MsgRead, ReadError, ReadHeadAgain,
           ClearSession, RunReturns, Signal, Join, StopNext
-----------------------------------------------------------------------------
IInv == TypeInv /\ WriteInv

LEMMA Invariant == Spec => []IInv
<1>1. Init => IInv
    BY TypeInit, WriteInit DEF IInv
<1>2. IInv /\ [Next]_vars => IInv'
    <2> SUFFICES ASSUME IInv, [Next]_vars
                 PROVE  IInv'
        OBVIOUS
    <2>1. TypeInv /\ WriteInv
        BY DEF IInv
    <2>2. TypeInv'
        BY <2>1, ClientStep, SocketAndPoolStep, NodeStep, ClientsKeptByStep, ReplyStep, QueueStep,
           QueuedStep, ThreadStep DEF TypeInv
    <2>3. WriteInv'
        BY <2>1, WriteStep
    <2>4. QED
        BY <2>2, <2>3 DEF IInv
<1>3. QED
    BY <1>1, <1>2, PTL DEF Spec

\* Every variable of the server keeps its type: handlers find the session, the node
\* and the queued request that they take for granted.
THEOREM TypeCorrect == Spec => []TypeOK
<1>1. IInv => TypeOK
    BY TypeInvImpliesTypeOK DEF IInv
<1>2. QED
    BY <1>1, Invariant, PTL

\* Session::send and Session::handleWrite, on two threads, never have two
\* async_writes on one socket, and what is being written is in the queue.
THEOREM OneWriteAtATime == Spec => []OneWriteOutstanding
<1>1. IInv => OneWriteOutstanding
    BY DEF IInv, WriteInv, OneWriteOutstanding
<1>2. QED
    BY <1>1, Invariant, PTL

\* Neither of them leaves a reply in the queue without a write that will come to it,
\* unless the client has gone.
THEOREM NoReplyLeftBehind == Spec => []NoReplyStuck
<1>1. IInv => NoReplyStuck
    BY DEF IInv, WriteInv, NoReplyStuck
<1>2. QED
    BY <1>1, Invariant, PTL
-----------------------------------------------------------------------------
(***************************************************************************)
(* boost/LogicServer: one thread runs the handlers of the acceptor and of  *)
(* all sessions.                                                           *)
(***************************************************************************)
OneContext == Threads = {Acceptor}

\* A session in the map is being read, or its handler is at a point after which it
\* will be read again or leave the map.
MapInv ==
    /\ pc[Acceptor] \in {"run", "stop", "returned"} => cur[Acceptor] = NoSession
    /\ pc[Acceptor] = "insert" => rd[cur[Acceptor]] = "head"
    /\ \A s \in sessions :
          rd[s] = "none" => cur[Acceptor] = s /\ pc[Acceptor] \in {"rearm", "clear"}

LEMMA MapInit == Init => MapInv
BY Threading DEF Init, MapInv

LEMMA MapStep == OneContext /\ TypeInv /\ MapInv /\ [Next]_vars => MapInv'
<1> SUFFICES ASSUME OneContext, TypeInv, MapInv, [Next]_vars
             PROVE  MapInv'
    OBVIOUS
<1> USE DEF MapInv
<1>1. /\ Threads = {Acceptor}
      /\ pc \in [Threads -> PCs] /\ cur \in [Threads -> Sessions \cup {NoSession}]
      /\ pc[Acceptor] \in {"insert", "rearm", "clear"} => cur[Acceptor] \in Sessions
      /\ rd \in [Sessions -> {"none", "head", "body"}]
      /\ sessions \subseteq Sessions
    BY DEF OneContext, TypeInv, ThreadTypes, NodeTypes, QueueTypes
<1>2. ASSUME NEW s \in Sessions, AcceptStart(s)
      PROVE  MapInv'
    BY <1>1, <1>2 DEF AcceptStart, Free, Continue
<1>3. CASE AcceptInsert
    BY <1>1, <1>3 DEF AcceptInsert, Return, Continue
<1>4. ASSUME NEW t \in Threads, NEW s \in Sessions, HeadRead(t, s)
      PROVE  MapInv'
    <2>1. pc[Acceptor] = "run" /\ UNCHANGED <<pc, cur>>
        BY <1>1, <1>4 DEF HeadRead, Reading, Free, threadVars
    <2>2. \/ rd' = [rd EXCEPT ![s] = "none"] /\ sessions' = sessions \ {s}
          \/ rd' = [rd EXCEPT ![s] = "body"] /\ sessions' = sessions
        BY <1>4 DEF HeadRead
    <2>3. QED
        BY <1>1, <2>1, <2>2
<1>5. ASSUME NEW t \in Threads, NEW s \in Sessions, NEW at \in {"rearm", "clear"},
             Free(t), rd' = [rd EXCEPT ![s] = "none"], Continue(t, at, s), sessions' = sessions
      PROVE  MapInv'
    BY <1>1, <1>5 DEF Free, Continue
<1>6. ASSUME NEW t \in Threads, NEW s \in Sessions, MsgRead(t, s) \/ ReadError(t, s)
      PROVE  MapInv'
    BY <1>5, <1>6 DEF MsgRead, ReadError, Reading
<1>7. ASSUME NEW t \in Threads, ReadHeadAgain(t)
      PROVE  MapInv'
    BY <1>1, <1>7 DEF ReadHeadAgain, Return, Continue
<1>8. ASSUME NEW t \in Threads, ClearSession(t)
      PROVE  MapInv'
    BY <1>1, <1>8 DEF ClearSession, Return, Continue
<1>9. ASSUME NEW t \in Threads, RunReturns(t)
      PROVE  MapInv'
    BY <1>1, <1>9 DEF RunReturns
<1>10. ASSUME NEW t \in Threads, NEW s \in Sessions, WriteError(t, s)
       PROVE  MapInv'
    BY <1>1, <1>10 DEF WriteError, threadVars
<1>11. CASE Signal \/ Join
    BY <1>1, <1>11 DEF Signal, Join, Free, Continue
<1>12. CASE UNCHANGED <<rd, sessions, threadVars>>
    BY <1>12 DEF threadVars
<1> HIDE DEF MapInv
<1>13. QED
    BY <1>2, <1>3, <1>4, <1>6, <1>7, <1>8, <1>9, <1>10, <1>11, <1>12
       DEF Next, Client, Accept, Read, Write, Finish, Exit, vars, Connect, Leave, Request, AcceptError,
           WriteDone, Dispatch, StopNext

\* A server with one io_context leaves no session in its map: every entry belongs to
\* a session that is read or whose handler is about to read or remove it.
THEOREM OneContextLeaksNothing ==
    ASSUME OneContext
    PROVE  Spec => []NothingLeaks
<1>1. Init => MapInv
    BY MapInit
<1>2. IInv /\ MapInv /\ [Next]_vars => MapInv'
    BY MapStep DEF IInv
<1>3. IInv /\ MapInv => NothingLeaks
    BY Threading DEF MapInv, NothingLeaks, Leaked
<1>4. QED
    BY <1>1, <1>2, <1>3, Invariant, PTL DEF Spec
=============================================================================
