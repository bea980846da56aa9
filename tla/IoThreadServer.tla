--------------------------- MODULE IoThreadServer ---------------------------
(***************************************************************************)
(* src/src/boost/IoThreadPool: the threads of the pool run one io_context, *)
(* so that any of them calls any handler; main waits for a signal.  The    *)
(* handlers of a session go through its strand and are never two at a      *)
(* time, handleAccept is not in a strand, and the server's map, which has  *)
(* no mutex here, is changed by all threads.                               *)
(***************************************************************************)
EXTENDS EchoServer

\* On(t)!H is the handler H of EchoServer when thread t calls it.
On(t) == INSTANCE EchoServer WITH
    Pool <- <<t>>,
    Acceptor <- t,
    next <- 1,
    home <- [s \in Sessions |-> t]

PoolThreads == Threads \ {Acceptor}

\* The pool has one io_context, nothing is handed out.
OneService == UNCHANGED <<next, home>>

\* A thread is inside a handler that is bound to the strand of s.
InStrand(s) == \E t \in PoolThreads : cur[t] = s /\ pc[t] \in {"rearm", "clear"}

\* Two threads are about to change the map of sessions: what the map is then has
\* no definition, the model ends.
MapRace ==
    \E t, u \in PoolThreads : t # u /\ pc[t] \in {"insert", "clear"} /\ pc[u] \in {"insert", "clear"}
-----------------------------------------------------------------------------
StartSession(t, s) == On(t)!AcceptStart(s) /\ OneService

HandleAccept(t) == On(t)!AcceptInsert /\ OneService

AcceptFails(t, s) == On(t)!AcceptError(s) /\ OneService

\* A head that is not valid: clearSession without close().
InvalidHead(t, s) ==
    /\ On(t)!Reading(t, s, "head")
    /\ inbox[s] # <<>>
    /\ Head(inbox[s]).id = "invalid"
    /\ rd' = [rd EXCEPT ![s] = "none"]
    /\ Continue(t, "clear", s)
    /\ UNCHANGED <<clientVars, sock, node, replyVars, sessions, msgQue, poolVars>>

ValidHead(t, s) ==
    /\ inbox[s] # <<>>
    /\ Head(inbox[s]).id # "invalid"
    /\ On(t)!HeadRead(t, s)
    /\ OneService

ReadFails(t, s) == On(t)!ReadError(t, s) /\ OneService

HandleHeadRead(t, s) ==
    /\ ~InStrand(s)
    /\ \/ ValidHead(t, s)
       \/ InvalidHead(t, s)
       \/ rd[s] = "head" /\ ReadFails(t, s)

HandleMsgRead(t, s) ==
    /\ ~InStrand(s)
    /\ \/ On(t)!MsgRead(t, s) /\ OneService
       \/ rd[s] = "body" /\ ReadFails(t, s)

ReadNextHead(t) == On(t)!ReadHeadAgain(t) /\ OneService

\* clearSession, without a mutex.
EraseSession(t) == On(t)!ClearSession(t) /\ OneService

WriteFails(t, s) ==
    /\ Free(t)
    /\ writes[s] # <<>>
    /\ peer[s] = "gone" \/ Head(writes[s]) = "failing"
    /\ writes' = [writes EXCEPT ![s] = Tail(@)]
    /\ Continue(t, "clear", s)
    /\ UNCHANGED <<clientVars, sock, rd, node, sendQue, written, sessions, msgQue, poolVars>>

\* Faulty: handleWrite is not bound to the strand.
HandleWrite_NoStrand(t, s) == WriteFails(t, s) \/ (On(t)!WriteDone(t, s) /\ OneService)

HandleWrite(t, s) ==
    /\ ~InStrand(s)
    /\ WriteFails(t, s) \/ (On(t)!WriteDone(t, s) /\ OneService)

\* The logic worker calls Session::send through the callback.
SendReply == Dispatch
-----------------------------------------------------------------------------
\* The signal handler stops main's io_context, then pool->stop() the service and
\* joins the threads.
StopService ==
    /\ pc[Acceptor] = "stop"
    /\ stopped # Threads
    /\ stopped' = Threads
    /\ UNCHANGED <<clientVars, sock, rd, node, replyVars, sessions, msgQue, next, home, threadVars>>

\* Faulty: stop() does not join the threads.
JoinThreads_Detached ==
    /\ pc[Acceptor] = "stop"
    /\ stopped = Threads
    /\ Continue(Acceptor, "returned", NoSession)
    /\ UNCHANGED <<clientVars, sock, rd, node, replyVars, sessions, msgQue, poolVars>>

JoinThreads == Join

\* Two threads that erase a session erase different ones.
EveryErasureInItsStrand ==
    \A t, u \in PoolThreads : t # u /\ pc[t] = "clear" /\ pc[u] = "clear" => cur[t] # cur[u]
=============================================================================
