-------------------------- MODULE EchoProgramsProofs --------------------------
(***************************************************************************)
(* Proofs about the seven echo servers of EchoPrograms, for any sessions,  *)
(* threads and bounds.  IT!On(t)!H is the handler H of EchoServer when     *)
(* thread t calls it: every program's steps are handlers of this form or   *)
(* the program's own, which is shown once (Steps); the invariants are then *)
(* proved handler by handler for all programs together.                    *)
(***************************************************************************)
EXTENDS EchoPrograms, EchoServerProofs

Logic == {"IoServicePool", "IoThreadPool", "LogicServer"}
Pools == {"IoServicePool", "IoThreadPool"}
ByteServers == {"async", "demo"}

dataVars == <<clientVars, sock, rd, node, replyVars, sessions, msgQue>>

\* What startAccept does to the sockets, whatever io_context it hands out.
NextAccept(socks) ==
    \/ sock' = socks
    \/ \E x \in Sessions : socks[x] = "unused" /\ sock' = [socks EXCEPT ![x] = "accepting"]

\* The steps that involve the acceptor, without the io_contexts.
Inserted(t) ==
    /\ pc[t] = "insert"
    /\ sessions' = sessions \cup {cur[t]}
    /\ NextAccept(sock)
    /\ Return(t)
    /\ UNCHANGED <<clientVars, rd, node, replyVars, msgQue, stopped>>

Refused(s) ==
    /\ sock[s] = "accepting"
    /\ NextAccept([sock EXCEPT ![s] = "refused"])
    /\ peer' = [peer EXCEPT ![s] = "gone"]
    /\ UNCHANGED <<sent, inbox, rd, node, replyVars, sessions, msgQue, stopped, threadVars>>

OpenedAndNext(s) ==
    /\ sock[s] = "accepting"
    /\ NextAccept([sock EXCEPT ![s] = "open"])
    /\ rd' = [rd EXCEPT ![s] = "head"]
    /\ UNCHANGED <<clientVars, node, replyVars, sessions, msgQue, stopped, threadVars>>

\* A thread leaves its io_context, or the process goes on towards its end.
Ended(t) ==
    /\ UNCHANGED dataVars
    /\ stopped' \subseteq stopped \cup Threads
    /\ \/ UNCHANGED threadVars
       \/ pc[t] = "run" /\ t # Acceptor /\ Continue(t, "returned", NoSession)
       \/ pc[Acceptor] = "run" /\ Continue(Acceptor, "stop", NoSession)
       \/ /\ pc[Acceptor] = "stop"
          /\ program \in Pools => \A u \in Threads \ {Acceptor} : pc[u] = "returned"
          /\ Continue(Acceptor, "returned", NoSession)
       \/ /\ program = "demo" /\ pc[Acceptor] = "run"
          /\ \E at \in {"returned", "terminated"} : Continue(Acceptor, at, NoSession)

\* A program without a pool runs its handlers on one thread; IoThreadPool runs those
\* of a session in its strand.
OnItsThread(t) == program \notin Pools => t = Acceptor
InItsStrand(t, s) == program = "IoThreadPool" => t # Acceptor /\ ~IT!InStrand(s)

\* The handlers on thread t that the servers with messages share, those of the
\* servers with a logic worker, and what each program has of its own.
Handled(t, s) ==
    \/ IT!On(t)!AcceptStart(s)
    \/ /\ InItsStrand(t, s)
       /\ \/ IT!On(t)!HeadRead(t, s) \/ IT!On(t)!ReadError(t, s)
          \/ IT!On(t)!WriteDone(t, s) \/ IT!On(t)!WriteError(t, s)

Rest(t) == IT!On(t)!ReadHeadAgain(t) \/ IT!On(t)!ClearSession(t) \/ Inserted(t)

ThreadHandled(t, s) == InItsStrand(t, s) /\ (IT!InvalidHead(t, s) \/ IT!WriteFails(t, s))

HandHandled(s) ==
    \/ program = "readAtLeastServer" /\ RL!MsgComplete(s)
    \/ program = "asyncServer" /\ (AS!TakeMessage(s) \/ AS!InvalidLength(s))

HandRest ==
    \/ program = "readAtLeastServer" /\ RL!SendReply
    \/ program = "asyncServer" /\ (AS!SendReply \/ AS!ReadSome)

ByteHandled(s) ==
    \/ RE!ReadThenWrite(s) \/ RE!WriteGoesOn(s) \/ RE!WriteThenRead(s)
    \/ RE!ReadFails(s) \/ RE!WriteFails(s) \/ OpenedAndNext(s)

\* Every step of a program, as a step that its invariants need to be shown for.
Step ==
    \/ \E s \in Sessions : ClientOf(s) \/ Refused(s)
    \/ \E t \in Threads :
          /\ OnItsThread(t)
          /\ \/ program \notin ByteServers /\ Rest(t)
             \/ program \in Logic /\ IT!On(t)!Dispatch
             \/ \E s \in Sessions :
                   \/ program \notin ByteServers /\ Handled(t, s)
                   \/ program \in Logic /\ IT!On(t)!MsgRead(t, s)
                   \/ program = "IoThreadPool" /\ ThreadHandled(t, s)
    \/ \E s \in Sessions : HandHandled(s) \/ (program \in ByteServers /\ ByteHandled(s))
    \/ HandRest
    \/ \E t \in Threads : Ended(t)
-----------------------------------------------------------------------------
\* The handlers of each program are those of IT!On: of a session, and the others.
LEMMA ServicePoolIsOn ==
    ASSUME NEW s \in Sessions, NEW t \in Threads
    PROVE  /\ HeadRead(t, s) => IT!On(t)!HeadRead(t, s)
           /\ MsgRead(t, s) => IT!On(t)!MsgRead(t, s)
           /\ ReadError(t, s) => IT!On(t)!ReadError(t, s)
           /\ WriteDone(t, s) => IT!On(t)!WriteDone(t, s)
           /\ WriteError(t, s) => IT!On(t)!WriteError(t, s)
<1> USE DEF clientVars, IT!On!clientVars,
        replyVars, IT!On!replyVars,
        poolVars, IT!On!poolVars,
        threadVars, IT!On!threadVars,
        Reading, IT!On!Reading,
        Free, IT!On!Free,
        Continue, IT!On!Continue,
        Return, IT!On!Return
<1>1. HeadRead(t, s) => IT!On(t)!HeadRead(t, s)
    BY DEF HeadRead, IT!On!HeadRead
<1>2. MsgRead(t, s) => IT!On(t)!MsgRead(t, s)
    BY DEF MsgRead, IT!On!MsgRead
<1>3. ReadError(t, s) => IT!On(t)!ReadError(t, s)
    BY DEF ReadError, IT!On!ReadError, Close, IT!On!Close
<1>4. WriteDone(t, s) => IT!On(t)!WriteDone(t, s)
    BY DEF WriteDone, IT!On!WriteDone, StartWrite, IT!On!StartWrite
<1>5. WriteError(t, s) => IT!On(t)!WriteError(t, s)
    BY DEF WriteError, IT!On!WriteError
<1>6. QED
    BY <1>1, <1>2, <1>3, <1>4, <1>5

LEMMA ServicePoolMainIsOn ==
    ASSUME NEW s \in Sessions
    PROVE  /\ AcceptStart(s) => IT!On(Acceptor)!AcceptStart(s)
<1> USE DEF clientVars, IT!On!clientVars,
        replyVars, IT!On!replyVars,
        poolVars, IT!On!poolVars,
        threadVars, IT!On!threadVars,
        Reading, IT!On!Reading,
        Free, IT!On!Free,
        Continue, IT!On!Continue,
        Return, IT!On!Return
<1>1. AcceptStart(s) => IT!On(Acceptor)!AcceptStart(s)
    BY DEF AcceptStart, IT!On!AcceptStart
<1>2. QED
    BY <1>1

LEMMA LogicServerIsOn ==
    ASSUME NEW s \in Sessions
    PROVE  /\ LS!Io!AcceptStart(s) => IT!On(Acceptor)!AcceptStart(s)
           /\ LS!Io!HeadRead(Acceptor, s) => IT!On(Acceptor)!HeadRead(Acceptor, s)
           /\ LS!Io!MsgRead(Acceptor, s) => IT!On(Acceptor)!MsgRead(Acceptor, s)
           /\ LS!Io!ReadError(Acceptor, s) => IT!On(Acceptor)!ReadError(Acceptor, s)
           /\ LS!Io!WriteDone(Acceptor, s) => IT!On(Acceptor)!WriteDone(Acceptor, s)
           /\ LS!Io!WriteError(Acceptor, s) => IT!On(Acceptor)!WriteError(Acceptor, s)
<1> USE DEF LS!Io!clientVars, IT!On!clientVars,
        LS!Io!replyVars, IT!On!replyVars,
        LS!Io!poolVars, IT!On!poolVars,
        LS!Io!threadVars, IT!On!threadVars,
        LS!Io!Reading, IT!On!Reading,
        LS!Io!Free, IT!On!Free,
        LS!Io!Continue, IT!On!Continue,
        LS!Io!Return, IT!On!Return
<1>1. LS!Io!AcceptStart(s) => IT!On(Acceptor)!AcceptStart(s)
    BY DEF LS!Io!AcceptStart, IT!On!AcceptStart
<1>2. LS!Io!HeadRead(Acceptor, s) => IT!On(Acceptor)!HeadRead(Acceptor, s)
    BY DEF LS!Io!HeadRead, IT!On!HeadRead
<1>3. LS!Io!MsgRead(Acceptor, s) => IT!On(Acceptor)!MsgRead(Acceptor, s)
    BY DEF LS!Io!MsgRead, IT!On!MsgRead
<1>4. LS!Io!ReadError(Acceptor, s) => IT!On(Acceptor)!ReadError(Acceptor, s)
    BY DEF LS!Io!ReadError, IT!On!ReadError, LS!Io!Close, IT!On!Close
<1>5. LS!Io!WriteDone(Acceptor, s) => IT!On(Acceptor)!WriteDone(Acceptor, s)
    BY DEF LS!Io!WriteDone, IT!On!WriteDone, LS!Io!StartWrite, IT!On!StartWrite
<1>6. LS!Io!WriteError(Acceptor, s) => IT!On(Acceptor)!WriteError(Acceptor, s)
    BY DEF LS!Io!WriteError, IT!On!WriteError
<1>7. QED
    BY <1>1, <1>2, <1>3, <1>4, <1>5, <1>6

LEMMA ReadAtLeastIsOn ==
    ASSUME NEW s \in Sessions
    PROVE  /\ RL!Io!AcceptStart(s) => IT!On(Acceptor)!AcceptStart(s)
           /\ RL!Io!HeadRead(Acceptor, s) => IT!On(Acceptor)!HeadRead(Acceptor, s)
           /\ RL!Io!ReadError(Acceptor, s) => IT!On(Acceptor)!ReadError(Acceptor, s)
           /\ RL!Io!WriteDone(Acceptor, s) => IT!On(Acceptor)!WriteDone(Acceptor, s)
           /\ RL!Io!WriteError(Acceptor, s) => IT!On(Acceptor)!WriteError(Acceptor, s)
<1> USE DEF RL!Io!clientVars, IT!On!clientVars,
        RL!Io!replyVars, IT!On!replyVars,
        RL!Io!poolVars, IT!On!poolVars,
        RL!Io!threadVars, IT!On!threadVars,
        RL!Io!Reading, IT!On!Reading,
        RL!Io!Free, IT!On!Free,
        RL!Io!Continue, IT!On!Continue,
        RL!Io!Return, IT!On!Return
<1>1. RL!Io!AcceptStart(s) => IT!On(Acceptor)!AcceptStart(s)
    BY DEF RL!Io!AcceptStart, IT!On!AcceptStart
<1>2. RL!Io!HeadRead(Acceptor, s) => IT!On(Acceptor)!HeadRead(Acceptor, s)
    BY DEF RL!Io!HeadRead, IT!On!HeadRead
<1>3. RL!Io!ReadError(Acceptor, s) => IT!On(Acceptor)!ReadError(Acceptor, s)
    BY DEF RL!Io!ReadError, IT!On!ReadError, RL!Io!Close, IT!On!Close
<1>4. RL!Io!WriteDone(Acceptor, s) => IT!On(Acceptor)!WriteDone(Acceptor, s)
    BY DEF RL!Io!WriteDone, IT!On!WriteDone, RL!Io!StartWrite, IT!On!StartWrite
<1>5. RL!Io!WriteError(Acceptor, s) => IT!On(Acceptor)!WriteError(Acceptor, s)
    BY DEF RL!Io!WriteError, IT!On!WriteError
<1>6. QED
    BY <1>1, <1>2, <1>3, <1>4, <1>5

LEMMA AsyncIsOn ==
    ASSUME NEW s \in Sessions
    PROVE  /\ AS!Io!AcceptStart(s) => IT!On(Acceptor)!AcceptStart(s)
           /\ AS!Io!ReadError(Acceptor, s) => IT!On(Acceptor)!ReadError(Acceptor, s)
           /\ AS!Io!WriteDone(Acceptor, s) => IT!On(Acceptor)!WriteDone(Acceptor, s)
           /\ AS!Io!WriteError(Acceptor, s) => IT!On(Acceptor)!WriteError(Acceptor, s)
<1> USE DEF AS!Io!clientVars, IT!On!clientVars,
        AS!Io!replyVars, IT!On!replyVars,
        AS!Io!poolVars, IT!On!poolVars,
        AS!Io!threadVars, IT!On!threadVars,
        AS!Io!Reading, IT!On!Reading,
        AS!Io!Free, IT!On!Free,
        AS!Io!Continue, IT!On!Continue,
        AS!Io!Return, IT!On!Return
<1>1. AS!Io!AcceptStart(s) => IT!On(Acceptor)!AcceptStart(s)
    BY DEF AS!Io!AcceptStart, IT!On!AcceptStart
<1>2. AS!Io!ReadError(Acceptor, s) => IT!On(Acceptor)!ReadError(Acceptor, s)
    BY DEF AS!Io!ReadError, IT!On!ReadError, AS!Io!Close, IT!On!Close
<1>3. AS!Io!WriteDone(Acceptor, s) => IT!On(Acceptor)!WriteDone(Acceptor, s)
    BY DEF AS!Io!WriteDone, IT!On!WriteDone, AS!Io!StartWrite, IT!On!StartWrite
<1>4. AS!Io!WriteError(Acceptor, s) => IT!On(Acceptor)!WriteError(Acceptor, s)
    BY DEF AS!Io!WriteError, IT!On!WriteError
<1>5. QED
    BY <1>1, <1>2, <1>3, <1>4

LEMMA RestIsOn ==
    ASSUME NEW t \in Threads
    PROVE  /\ ReadHeadAgain(t) => IT!On(t)!ReadHeadAgain(t)
           /\ ClearSession(t) => IT!On(t)!ClearSession(t)
           /\ LS!Io!ReadHeadAgain(Acceptor) => IT!On(Acceptor)!ReadHeadAgain(Acceptor)
           /\ LS!Io!ClearSession(Acceptor) => IT!On(Acceptor)!ClearSession(Acceptor)
           /\ RL!Io!ClearSession(Acceptor) => IT!On(Acceptor)!ClearSession(Acceptor)
           /\ AS!Io!ClearSession(Acceptor) => IT!On(Acceptor)!ClearSession(Acceptor)
<1> USE DEF IT!On!clientVars, IT!On!replyVars, IT!On!poolVars, IT!On!Continue, IT!On!Return
<1>1. /\ ReadHeadAgain(t) => IT!On(t)!ReadHeadAgain(t)
      /\ ClearSession(t) => IT!On(t)!ClearSession(t)
    BY DEF ReadHeadAgain, ClearSession, IT!On!ReadHeadAgain, IT!On!ClearSession,
           clientVars, replyVars, poolVars, Continue, Return
<1>2. /\ LS!Io!ReadHeadAgain(Acceptor) => IT!On(Acceptor)!ReadHeadAgain(Acceptor)
      /\ LS!Io!ClearSession(Acceptor) => IT!On(Acceptor)!ClearSession(Acceptor)
    BY DEF LS!Io!ReadHeadAgain, LS!Io!ClearSession, IT!On!ReadHeadAgain, IT!On!ClearSession,
           LS!Io!clientVars, LS!Io!replyVars, LS!Io!poolVars, LS!Io!Continue, LS!Io!Return
<1>3. RL!Io!ClearSession(Acceptor) => IT!On(Acceptor)!ClearSession(Acceptor)
    BY DEF RL!Io!ClearSession, IT!On!ClearSession,
           RL!Io!clientVars, RL!Io!replyVars, RL!Io!poolVars, RL!Io!Continue, RL!Io!Return
<1>4. AS!Io!ClearSession(Acceptor) => IT!On(Acceptor)!ClearSession(Acceptor)
    BY DEF AS!Io!ClearSession, IT!On!ClearSession,
           AS!Io!clientVars, AS!Io!replyVars, AS!Io!poolVars, AS!Io!Continue, AS!Io!Return
<1>5. QED
    BY <1>1, <1>2, <1>3, <1>4

LEMMA DispatchIsOn ==
    Dispatch \/ IT!Dispatch \/ LS!Io!Dispatch => IT!On(Acceptor)!Dispatch
<1> USE DEF IT!On!Dispatch, IT!On!Send, IT!On!StartWrite, IT!On!clientVars, IT!On!replyVars,
            IT!On!poolVars, IT!On!threadVars
<1>1. Dispatch => IT!On(Acceptor)!Dispatch
    BY DEF Dispatch, Send, StartWrite, clientVars, replyVars, poolVars, threadVars
<1>2. IT!Dispatch => IT!On(Acceptor)!Dispatch
    BY DEF IT!Dispatch, IT!Send, IT!StartWrite, IT!clientVars, IT!replyVars, IT!poolVars, IT!threadVars
<1>3. LS!Io!Dispatch => IT!On(Acceptor)!Dispatch
    BY DEF LS!Io!Dispatch, LS!Io!Send, LS!Io!StartWrite, LS!Io!clientVars, LS!Io!replyVars,
           LS!Io!poolVars, LS!Io!threadVars
<1>4. QED
    BY <1>1, <1>2, <1>3

\* startAccept of each program is NextAccept.
LEMMA Accepting ==
    ASSUME NEW socks, NEW t \in Threads
    PROVE  /\ StartAccept(socks) => NextAccept(socks)
           /\ LS!Io!StartAccept(socks) => NextAccept(socks)
           /\ RL!Io!StartAccept(socks) => NextAccept(socks)
           /\ AS!Io!StartAccept(socks) => NextAccept(socks)
           /\ RE!Io!StartAccept(socks) => NextAccept(socks)
           /\ SE!Io!StartAccept(socks) => NextAccept(socks)
           /\ IT!On(t)!StartAccept(socks) => NextAccept(socks)
BY DEF NextAccept, StartAccept, LS!Io!StartAccept, RL!Io!StartAccept, AS!Io!StartAccept,
       RE!Io!StartAccept, SE!Io!StartAccept, IT!On!StartAccept

LEMMA Insertions ==
    ASSUME NEW t \in Threads
    PROVE  /\ AcceptInsert => Inserted(Acceptor)
           /\ LS!Io!AcceptInsert => Inserted(Acceptor)
           /\ RL!Io!AcceptInsert => Inserted(Acceptor)
           /\ AS!Io!AcceptInsert => Inserted(Acceptor)
           /\ IT!On(t)!AcceptInsert => Inserted(t)
<1> USE Accepting DEF Inserted, Return, Continue, clientVars, replyVars
<1>1. AcceptInsert => Inserted(Acceptor)
    BY DEF AcceptInsert
<1>2. LS!Io!AcceptInsert => Inserted(Acceptor)
    BY DEF LS!Io!AcceptInsert, LS!Io!Return, LS!Io!Continue, LS!Io!clientVars, LS!Io!replyVars
<1>3. RL!Io!AcceptInsert => Inserted(Acceptor)
    BY DEF RL!Io!AcceptInsert, RL!Io!Return, RL!Io!Continue, RL!Io!clientVars, RL!Io!replyVars
<1>4. AS!Io!AcceptInsert => Inserted(Acceptor)
    BY DEF AS!Io!AcceptInsert, AS!Io!Return, AS!Io!Continue, AS!Io!clientVars, AS!Io!replyVars
<1>5. IT!On(t)!AcceptInsert => Inserted(t)
    BY DEF IT!On!AcceptInsert, IT!On!Return, IT!On!Continue, IT!On!clientVars, IT!On!replyVars
<1>6. QED
    BY <1>1, <1>2, <1>3, <1>4, <1>5

LEMMA Refusals ==
    ASSUME NEW s \in Sessions, NEW t \in Threads
    PROVE  /\ AcceptError(s) => Refused(s)
           /\ LS!Io!AcceptError(s) => Refused(s)
           /\ RL!Io!AcceptError(s) => Refused(s)
           /\ AS!Io!AcceptError(s) => Refused(s)
           /\ RE!Io!AcceptError(s) => Refused(s)
           /\ IT!On(t)!AcceptError(s) => Refused(s)
<1> USE Accepting DEF Refused, threadVars, replyVars
<1>1. AcceptError(s) => Refused(s)
    BY DEF AcceptError
<1>2. LS!Io!AcceptError(s) => Refused(s)
    BY DEF LS!Io!AcceptError, LS!Io!threadVars, LS!Io!replyVars
<1>3. RL!Io!AcceptError(s) => Refused(s)
    BY DEF RL!Io!AcceptError, RL!Io!threadVars, RL!Io!replyVars
<1>4. AS!Io!AcceptError(s) => Refused(s)
    BY DEF AS!Io!AcceptError, AS!Io!threadVars, AS!Io!replyVars
<1>5. RE!Io!AcceptError(s) => Refused(s)
    BY DEF RE!Io!AcceptError, RE!Io!threadVars, RE!Io!replyVars
<1>6. IT!On(t)!AcceptError(s) => Refused(s)
    BY DEF IT!On!AcceptError, IT!On!threadVars, IT!On!replyVars
<1>7. QED
    BY <1>1, <1>2, <1>3, <1>4, <1>5, <1>6

\* The two servers that know no messages have the same handlers.
LEMMA ByteServersAgree ==
    ASSUME NEW s \in Sessions
    PROVE  /\ RE!HandleAccept(s) \/ SE!AcceptAndStart(s) => OpenedAndNext(s)
           /\ SE!ReadSome(s) => RE!ReadThenWrite(s) \/ RE!ReadFails(s)
           /\ SE!WriteAll(s) => RE!WriteGoesOn(s) \/ RE!WriteThenRead(s) \/ RE!WriteFails(s)
<1>1. RE!HandleAccept(s) \/ SE!AcceptAndStart(s) => OpenedAndNext(s)
    BY Accepting, Threading
       DEF OpenedAndNext, RE!HandleAccept, RE!Accepted, SE!AcceptAndStart, SE!Accepted,
           clientVars, replyVars, threadVars, RE!clientVars, RE!replyVars, RE!threadVars,
           SE!clientVars, SE!replyVars, SE!threadVars
<1> USE DEF RE!clientVars, RE!replyVars, RE!threadVars, RE!poolVars,
            SE!clientVars, SE!replyVars, SE!threadVars, SE!poolVars
<1>2. SE!ReadSome(s) => RE!ReadThenWrite(s) \/ RE!ReadFails(s)
    BY DEF SE!ReadSome, SE!ReadThenWrite, SE!ReadFails, RE!ReadThenWrite, RE!ReadFails
<1>3. SE!WriteAll(s) => RE!WriteGoesOn(s) \/ RE!WriteThenRead(s) \/ RE!WriteFails(s)
    BY DEF SE!WriteAll, SE!WriteGoesOn, SE!WriteThenRead, SE!WriteFails, SE!WriteSome,
           RE!WriteGoesOn, RE!WriteThenRead, RE!WriteFails, RE!WriteSome
<1>4. QED
    BY <1>1, <1>2, <1>3

LEMMA StartSteps ==
    ASSUME NEW s \in Sessions, StartOf(s)
    PROVE  Step
<1> USE Threading DEF Is, Step, Handled, OnItsThread, Pools, ByteServers, Logic, ByteHandled
<1>1. CASE program = "IoServicePool"
    BY <1>1, ServicePoolMainIsOn DEF StartOf
<1>2. CASE program = "IoThreadPool"
    BY <1>2 DEF StartOf, IT!StartSession
<1>3. CASE program = "LogicServer"
    BY <1>3, LogicServerIsOn DEF StartOf, LS!StartSession
<1>4. CASE program = "readAtLeastServer"
    BY <1>4, ReadAtLeastIsOn DEF StartOf, RL!StartSession
<1>5. CASE program = "asyncServer"
    BY <1>5, AsyncIsOn DEF StartOf, AS!StartSession
<1>6. CASE program \in ByteServers
    BY <1>6, ByteServersAgree DEF StartOf
<1>7. QED
    BY <1>1, <1>2, <1>3, <1>4, <1>5, <1>6 DEF StartOf

LEMMA RefuseSteps ==
    ASSUME NEW s \in Sessions, RefuseOf(s)
    PROVE  Step
<1> USE Threading, Refusals DEF Is, Step
<1>1. CASE Is("demo") /\ SE!AcceptThrows
    <2>1. Ended(Acceptor)
        BY <1>1 DEF SE!AcceptThrows, SE!Free, SE!Continue, Continue, Ended, dataVars, clientVars,
                replyVars, SE!clientVars, SE!replyVars
    <2>2. QED
        BY <2>1
<1>2. CASE ~(Is("demo") /\ SE!AcceptThrows)
    BY <1>2 DEF RefuseOf, IT!AcceptFails, LS!AcceptFails, RL!AcceptFails, AS!AcceptFails, RE!AcceptFails
<1>3. QED
    BY <1>1, <1>2

LEMMA ReadSteps ==
    ASSUME NEW s \in Sessions, home[s] \in Threads, ReadOf(s)
    PROVE  Step
<1> USE Threading DEF Is, Step, Handled, OnItsThread, InItsStrand, Pools, ByteServers, Logic
<1>1. CASE program = "IoServicePool"
    BY <1>1, ServicePoolIsOn DEF ReadOf, Read
<1>2. CASE program = "IoThreadPool"
    BY <1>2 DEF ReadOf, ThreadHandled, IT!HandleHeadRead, IT!HandleMsgRead, IT!ValidHead, IT!ReadFails
<1>3. CASE program = "LogicServer"
    BY <1>3, LogicServerIsOn DEF ReadOf, LS!HandleHeadRead, LS!HandleMsgRead
<1>4. CASE program = "readAtLeastServer"
    BY <1>4, ReadAtLeastIsOn DEF ReadOf, HandHandled, RL!HandleHeadRead, RL!HandleMsgRead
<1>5. CASE program = "asyncServer"
    BY <1>5, AsyncIsOn DEF ReadOf, HandHandled, AS!HandleRead
<1>6. CASE program \in ByteServers
    BY <1>6, ByteServersAgree DEF ReadOf, ByteHandled, RE!HandleRead
<1>7. QED
    BY <1>1, <1>2, <1>3, <1>4, <1>5, <1>6 DEF ReadOf

LEMMA WriteSteps ==
    ASSUME NEW s \in Sessions, home[s] \in Threads, WriteOf(s)
    PROVE  Step
<1> USE Threading DEF Is, Step, Handled, OnItsThread, InItsStrand, Pools, ByteServers, Logic
<1>1. CASE program = "IoServicePool"
    BY <1>1, ServicePoolIsOn DEF WriteOf, Write
<1>2. CASE program = "IoThreadPool"
    BY <1>2 DEF WriteOf, ThreadHandled, IT!HandleWrite
<1>3. CASE program = "LogicServer"
    BY <1>3, LogicServerIsOn DEF WriteOf, LS!HandleWrite
<1>4. CASE program = "readAtLeastServer"
    BY <1>4, ReadAtLeastIsOn DEF WriteOf, RL!HandleWrite
<1>5. CASE program = "asyncServer"
    BY <1>5, AsyncIsOn DEF WriteOf, AS!HandleWrite
<1>6. CASE program \in ByteServers
    BY <1>6, ByteServersAgree DEF WriteOf, ByteHandled, RE!HandleWrite
<1>7. QED
    BY <1>1, <1>2, <1>3, <1>4, <1>5, <1>6 DEF WriteOf

LEMMA RestSteps ==
    ASSUME NEW t \in Threads, RestOf(t)
    PROVE  Step
<1> USE Threading, Insertions, RestIsOn DEF Is, Step, Rest, OnItsThread, Pools, ByteServers
<1>1. CASE program = "IoServicePool"
    BY <1>1 DEF RestOf
<1>2. CASE program = "IoThreadPool"
    BY <1>2 DEF RestOf, IT!ReadNextHead, IT!EraseSession, IT!HandleAccept
<1>3. CASE program = "LogicServer"
    BY <1>3 DEF RestOf, LS!ReadNextHead, LS!EraseSession, LS!HandleAccept
<1>4. CASE program = "readAtLeastServer"
    BY <1>4 DEF RestOf, HandRest, RL!EraseSession, RL!HandleAccept
<1>5. CASE program = "asyncServer"
    BY <1>5 DEF RestOf, HandRest, AS!EraseSession, AS!HandleAccept
<1>6. QED
    BY <1>1, <1>2, <1>3, <1>4, <1>5 DEF RestOf

LEMMA LogicSteps ==
    ASSUME LogicOf
    PROVE  Step
BY Threading, DispatchIsOn
   DEF LogicOf, Is, Step, OnItsThread, Pools, Logic, IT!SendReply, LS!SendReply

LEMMA EndSteps ==
    ASSUME SignalOf \/ StopOf \/ \E t \in Threads : ReturnOf(t)
    PROVE  Step
<1> USE Threading DEF Is, Ended, Pools, dataVars, Continue, Free,
        LS!Io!Continue, LS!Io!Free, LS!Io!clientVars, LS!Io!replyVars, LS!Io!threadVars,
        clientVars, replyVars, poolVars, threadVars, IT!Continue, IT!clientVars, IT!replyVars,
        IT!poolVars, IT!threadVars
<1>1. CASE SignalOf
    BY <1>1 DEF SignalOf, Signal, LS!StopOnSignal, LS!Io!Signal, Step
<1>2. ASSUME NEW t \in Threads, ReturnOf(t)
      PROVE  Step
    BY <1>2 DEF ReturnOf, RunReturns, Step
<1>3. CASE StopOf
    <2>1. CASE program = "IoServicePool"
        BY <1>3, <2>1 DEF StopOf, StopNext, Join, Step
    <2>2. CASE program = "IoThreadPool"
        BY <1>3, <2>2 DEF StopOf, IT!StopService, IT!JoinThreads, IT!Join, IT!Threads, Threads, Step
    <2>3. CASE program = "LogicServer"
        BY <1>3, <2>3 DEF StopOf, LS!MainReturns, LS!Io!Join, LS!Io!poolVars, Step
    <2>4. QED
        BY <1>3, <2>1, <2>2, <2>3 DEF StopOf
<1>4. QED
    BY <1>1, <1>2, <1>3

\* Every program takes only steps of these kinds, and stays the program that it is.
LEMMA Steps ==
    ASSUME \A s \in Sessions : home[s] \in Threads, ProgramNext
    PROVE  Step /\ program' = program
<1>1. Step
    <2>1. ASSUME NEW s \in Sessions, ClientOf(s)
          PROVE  Step
        BY <2>1 DEF Step
    <2>2. QED
        BY <2>1, StartSteps, RefuseSteps, ReadSteps, WriteSteps, RestSteps, LogicSteps, EndSteps DEF ProgramNext
<1>2. program' = program
    BY DEF ProgramNext, ClientOf, StartOf, RefuseOf, ReadOf, WriteOf, RestOf, LogicOf, SignalOf, StopOf, ReturnOf, Is
<1>3. QED
    BY <1>1, <1>2
-----------------------------------------------------------------------------
\* Only IoServicePool hands out io_contexts, in startAccept.
HomeTypes ==
    /\ next \in 1 .. Len(Pool)
    /\ home \in [Sessions -> Threads]

LEMMA HomeStep ==
    ASSUME HomeTypes, SocketTypes, ProgramNext
    PROVE  HomeTypes'
<1>1. CASE UNCHANGED <<next, home>>
    BY <1>1 DEF HomeTypes
<1>2. ASSUME NEW socks \in [Sessions -> SockStates], StartAccept(socks)
      PROVE  HomeTypes'
    <2> DEFINE fresh == {s \in Sessions : socks[s] = "unused"}
    <2>1. CASE fresh = {}
        BY <1>1, <1>2, <2>1 DEF StartAccept
    <2>2. CASE fresh # {}
        <3>1. PICK s \in fresh : home' = [home EXCEPT ![s] = Pool[next]] /\ next' = AfterNext
            BY <1>2, <2>2 DEF StartAccept
        <3>2. next \in 1 .. Len(Pool) /\ Len(Pool) \in Nat \ {0}
            BY Threading DEF HomeTypes
        <3>3. AfterNext \in 1 .. Len(Pool)
            BY <3>2 DEF AfterNext
        <3>4. Pool[next] \in Threads
            BY <3>2, Threading
        <3>5. QED
            BY <3>1, <3>3, <3>4 DEF HomeTypes
    <2>3. QED
        BY <2>1, <2>2
<1>3. CASE AcceptInsert
    BY <1>2, <1>3 DEF AcceptInsert, SocketTypes
<1>4. ASSUME NEW s \in Sessions, AcceptError(s)
      PROVE  HomeTypes'
    <2>1. [sock EXCEPT ![s] = "refused"] \in [Sessions -> SockStates]
        BY DEF SocketTypes, SockStates
    <2>2. QED
        BY <1>2, <1>4, <2>1 DEF AcceptError
<1> USE DEF Is, NoPool, poolVars
<1>5. ASSUME NEW s \in Sessions, ClientOf(s)
      PROVE  UNCHANGED <<next, home>>
    BY <1>5 DEF ClientOf, Connect, Leave, Request
<1>6. ASSUME NEW s \in Sessions, StartOf(s)
      PROVE  UNCHANGED <<next, home>>
    BY <1>6 DEF StartOf, AcceptStart, IT!StartSession, IT!OneService, RE!HandleAccept, RE!Accepted,
            SE!AcceptAndStart, SE!Accepted, RE!NoPool, SE!NoPool
<1>7. ASSUME NEW s \in Sessions, RefuseOf(s), ~AcceptError(s)
      PROVE  UNCHANGED <<next, home>>
    BY <1>7 DEF RefuseOf, IT!AcceptFails, IT!OneService, RE!AcceptFails, SE!AcceptThrows, RE!NoPool
<1>8. ASSUME NEW s \in Sessions, ReadOf(s)
      PROVE  UNCHANGED <<next, home>>
    <2> USE DEF IT!poolVars, AS!poolVars, RL!poolVars, RE!poolVars, SE!poolVars, IT!OneService
    <2>1. CASE program \in Pools
        BY <1>8, <2>1 DEF Pools, ReadOf, Read, HeadRead, MsgRead, ReadError, IT!HandleHeadRead, IT!HandleMsgRead,
                IT!ValidHead, IT!InvalidHead, IT!ReadFails
    <2>2. CASE program \notin Pools
        BY <1>8, <2>2 DEF Pools, ReadOf, RE!HandleRead, RE!ReadThenWrite, RE!ReadFails,
                SE!ReadSome, SE!ReadThenWrite, SE!ReadFails
    <2>3. QED
        BY <2>1, <2>2
<1>9. ASSUME NEW s \in Sessions, WriteOf(s)
      PROVE  UNCHANGED <<next, home>>
    <2> USE DEF IT!poolVars, RE!poolVars, SE!poolVars, IT!OneService
    <2>1. CASE program \in Pools
        BY <1>9, <2>1 DEF Pools, WriteOf, Write, WriteDone, WriteError, IT!HandleWrite, IT!WriteFails
    <2>2. CASE program \notin Pools
        BY <1>9, <2>2 DEF Pools, WriteOf, RE!HandleWrite, RE!WriteGoesOn, RE!WriteThenRead, RE!WriteFails,
                SE!WriteAll, SE!WriteGoesOn, SE!WriteThenRead, SE!WriteFails
    <2>3. QED
        BY <2>1, <2>2
<1>10. ASSUME NEW t \in Threads, RestOf(t), ~AcceptInsert
       PROVE  UNCHANGED <<next, home>>
    BY <1>10 DEF RestOf, ReadHeadAgain, ClearSession, IT!ReadNextHead, IT!EraseSession, IT!HandleAccept, IT!OneService
<1>11. CASE LogicOf \/ SignalOf \/ StopOf \/ \E t \in Threads : ReturnOf(t)
    BY <1>1, <1>11 DEF LogicOf, SignalOf, StopOf, ReturnOf, Dispatch, IT!SendReply, IT!Dispatch, IT!poolVars, Signal,
            StopNext, Join, IT!StopService, IT!JoinThreads, IT!Join, RunReturns
<1>12. QED
    BY <1>1, <1>3, <1>4, <1>5, <1>6, <1>7, <1>8, <1>9, <1>10, <1>11 DEF ProgramNext
-----------------------------------------------------------------------------
(***************************************************************************)
(* The threads: inside a handler that was cut or not, and in which.        *)
(***************************************************************************)
Busy == {"insert", "rearm", "clear", "send", "loop"}
ProgramPCs == PCs \cup {"send", "loop", "terminated"}

ThreadInv ==
    /\ program \in Programs
    /\ pc \in [Threads -> ProgramPCs]
    /\ cur \in [Threads -> Sessions \cup {NoSession}]
    /\ \A t \in Threads : pc[t] \in Busy <=> cur[t] # NoSession
    /\ program \in ByteServers => \A t \in Threads : pc[t] \notin Busy
    /\ program \in Logic => \A t \in Threads : pc[t] \notin {"send", "loop"}

LEMMA ThreadInit == ProgramInit => ThreadInv
BY DEF ProgramInit, Init, ThreadInv, ProgramPCs, PCs, Busy

LEMMA ThreadsStep ==
    ASSUME ThreadInv, Step, program' = program
    PROVE  ThreadInv'
<1> USE DEF ThreadInv
<1>1. ASSUME NEW t \in Threads, NEW s \in Sessions, NEW at \in {"insert", "rearm", "clear"},
             program \notin ByteServers, Continue(t, at, s)
      PROVE  ThreadInv'
    BY <1>1, NoSessionAssumption DEF Continue, Busy, ProgramPCs, PCs
<1>2. ASSUME NEW s \in Sessions, NEW at \in {"send", "loop"},
             program \notin ByteServers \cup Logic, Continue(Acceptor, at, s)
      PROVE  ThreadInv'
    BY <1>2, NoSessionAssumption, Threading DEF Continue, Busy, ProgramPCs, PCs
<1>3. ASSUME NEW t \in Threads, NEW at \in {"run", "stop", "returned", "terminated"}, Continue(t, at, NoSession)
      PROVE  ThreadInv'
    BY <1>3 DEF Continue, Busy, ProgramPCs, PCs
<1>4. CASE UNCHANGED threadVars
    BY <1>4 DEF threadVars
<1> HIDE DEF ThreadInv
<1>5. ASSUME NEW s \in Sessions, ClientOf(s) \/ Refused(s)
      PROVE  ThreadInv'
    BY <1>4, <1>5 DEF ClientOf, Connect, Leave, Request, Refused
<1>6. ASSUME NEW t \in Threads, Rest(t) \/ IT!On(t)!Dispatch
      PROVE  ThreadInv'
    BY <1>3, <1>4, <1>6
       DEF Rest, IT!On!ReadHeadAgain, IT!On!ClearSession, Inserted, Return, Continue, IT!On!Return,
           IT!On!Continue, IT!On!Dispatch, IT!On!threadVars, threadVars
<1>7. ASSUME NEW t \in Threads, NEW s \in Sessions, program \notin ByteServers,
             Handled(t, s) \/ IT!On(t)!MsgRead(t, s) \/ ThreadHandled(t, s)
      PROVE  ThreadInv'
    <2> USE DEF Continue, threadVars, IT!Continue, IT!On!Continue, IT!On!threadVars
    <2>1. CASE Handled(t, s)
        BY <1>1, <1>4, <1>7, <2>1 DEF Handled, IT!On!AcceptStart, IT!On!HeadRead, IT!On!ReadError,
               IT!On!WriteDone, IT!On!WriteError
    <2>2. CASE IT!On(t)!MsgRead(t, s)
        BY <1>1, <1>7, <2>2 DEF IT!On!MsgRead
    <2>3. CASE ThreadHandled(t, s)
        BY <1>1, <1>7, <2>3 DEF ThreadHandled, IT!InvalidHead, IT!WriteFails
    <2>4. QED
        BY <1>7, <2>1, <2>2, <2>3
<1>8. ASSUME NEW s \in Sessions, HandHandled(s)
      PROVE  ThreadInv'
    BY <1>2, <1>3, <1>8, Threading
       DEF HandHandled, RL!MsgComplete, AS!TakeMessage, AS!InvalidLength, RL!Continue, AS!Continue,
           AS!Return, Continue, Logic, ByteServers
<1>9. CASE HandRest
    <2>1. CASE RL!SendReply \/ AS!ReadSome
        BY <1>3, <2>1, Threading DEF RL!SendReply, AS!ReadSome, RL!Return, AS!Return, RL!Continue, AS!Continue, Continue
    <2>2. CASE program = "asyncServer" /\ AS!SendReply
        <3>1. cur[Acceptor] \in Sessions
            BY <2>2, Threading DEF AS!SendReply, ThreadInv, Busy
        <3>2. QED
            BY <1>2, <2>2, <3>1 DEF AS!SendReply, AS!Continue, Continue, Logic, ByteServers
    <2>3. QED
        BY <1>9, <2>1, <2>2 DEF HandRest
<1>10. ASSUME NEW s \in Sessions, ByteHandled(s)
       PROVE  ThreadInv'
    BY <1>4, <1>10
       DEF ByteHandled, RE!ReadThenWrite, RE!WriteGoesOn, RE!WriteThenRead, RE!ReadFails, RE!WriteFails,
           OpenedAndNext, RE!threadVars, threadVars
<1>11. ASSUME NEW t \in Threads, Ended(t)
       PROVE  ThreadInv'
    BY <1>3, <1>4, <1>11, Threading DEF Ended
<1>12. QED
    BY <1>5, <1>6, <1>7, <1>8, <1>9, <1>10, <1>11 DEF Step, Logic, ByteServers
-----------------------------------------------------------------------------
(***************************************************************************)
(* Clients and sockets.                                                    *)
(***************************************************************************)
LEMMA NextAcceptSockets ==
    ASSUME NEW socks \in [Sessions -> SockStates], NextAccept(socks)
    PROVE  /\ sock' \in [Sessions -> SockStates]
           /\ \A x \in Sessions : sock'[x] = socks[x] \/ (socks[x] = "unused" /\ sock'[x] = "accepting")
BY DEF NextAccept, SockStates

\* No session goes back to where it was before it was started.
Unstarted == {"unused", "accepting", "refused"}

SocketsKept == \A x \in Sessions : sock'[x] \in Unstarted => sock[x] \in Unstarted

LEMMA SocketStep ==
    ASSUME ClientTypes, SocketTypes, WriteInv, Step
    PROVE  SocketTypes' /\ ClientsKept /\ SocketsKept
<1> DEFINE Goal == SocketTypes' /\ ClientsKept /\ SocketsKept
<1> USE DEF SocketsKept, Unstarted
<1>1. /\ peer \in [Sessions -> {"none", "up", "gone"}]
      /\ sock \in [Sessions -> SockStates]
      /\ \A x \in Sessions : sock[x] = "closed" => peer[x] = "gone"
    BY DEF ClientTypes, SocketTypes, WriteInv
<1>2. ASSUME UNCHANGED <<peer, sock>>
      PROVE  Goal
    BY <1>1, <1>2 DEF SocketTypes, ClientsKept
<1>3. ASSUME NEW s \in Sessions, peer[s] = "gone", UNCHANGED peer, sock' = [sock EXCEPT ![s] = "closed"]
      PROVE  Goal
    BY <1>1, <1>3 DEF SocketTypes, ClientsKept, SockStates
<1>4. ASSUME NEW s \in Sessions, ClientOf(s)
      PROVE  Goal
    BY <1>1, <1>4 DEF ClientOf, Connect, Leave, Request, SocketTypes, ClientsKept
<1>5. ASSUME NEW s \in Sessions, Refused(s)
      PROVE  Goal
    <2>1. [sock EXCEPT ![s] = "refused"] \in [Sessions -> SockStates]
        BY <1>1 DEF SockStates
    <2>2. NextAccept([sock EXCEPT ![s] = "refused"]) /\ sock[s] = "accepting"
        BY <1>5 DEF Refused
    <2>3. /\ sock' \in [Sessions -> SockStates]
          /\ \A x \in Sessions : sock'[x] = "closed" => sock[x] = "closed"
          /\ \A x \in Sessions : sock'[x] \in Unstarted => sock[x] \in Unstarted
        BY <1>1, <2>1, <2>2, NextAcceptSockets
    <2>4. \A x \in Sessions : peer[x] = "gone" => peer'[x] = "gone"
        BY <1>1, <1>5 DEF Refused
    <2>5. QED
        BY <1>1, <2>3, <2>4 DEF SocketTypes, ClientsKept
<1>6. ASSUME NEW s \in Sessions, OpenedAndNext(s)
      PROVE  Goal
    <2>1. [sock EXCEPT ![s] = "open"] \in [Sessions -> SockStates]
        BY <1>1 DEF SockStates
    <2>2. NextAccept([sock EXCEPT ![s] = "open"]) /\ peer' = peer
        BY <1>6 DEF OpenedAndNext, clientVars
    <2>3. /\ sock' \in [Sessions -> SockStates]
          /\ \A x \in Sessions : sock'[x] = "closed" => sock[x] = "closed"
          /\ \A x \in Sessions : sock'[x] \in Unstarted => sock[x] \in Unstarted
        BY <1>1, <2>1, <2>2, NextAcceptSockets
    <2>4. QED
        BY <1>1, <2>2, <2>3 DEF SocketTypes, ClientsKept
<1>7. ASSUME NEW t \in Threads, Inserted(t)
      PROVE  Goal
    BY <1>1, <1>7, NextAcceptSockets DEF Inserted, clientVars, SocketTypes, ClientsKept
<1>8. ASSUME NEW t \in Threads, NEW s \in Sessions, IT!On(t)!AcceptStart(s)
      PROVE  Goal
    BY <1>1, <1>8 DEF IT!On!AcceptStart, IT!On!clientVars, SocketTypes, ClientsKept, SockStates
<1> HIDE DEF Goal, SocketsKept, Unstarted
<1>9. ASSUME NEW t \in Threads, Rest(t) \/ IT!On(t)!Dispatch
      PROVE  Goal
    BY <1>2, <1>7, <1>9 DEF Rest, IT!On!ReadHeadAgain, IT!On!ClearSession, IT!On!Dispatch, IT!On!clientVars
<1>10. ASSUME NEW t \in Threads, NEW s \in Sessions,
             Handled(t, s) \/ IT!On(t)!MsgRead(t, s) \/ ThreadHandled(t, s)
       PROVE  Goal
    BY <1>2, <1>3, <1>8, <1>10
       DEF Handled, IT!On!HeadRead, IT!On!MsgRead, IT!On!ReadError, IT!On!Close, IT!On!WriteDone,
           IT!On!WriteError, IT!On!clientVars, ThreadHandled, IT!InvalidHead, IT!WriteFails, IT!clientVars
<1>11. ASSUME NEW s \in Sessions, HandHandled(s)
       PROVE  Goal
    BY <1>2, <1>11
       DEF HandHandled, RL!MsgComplete, AS!TakeMessage, AS!InvalidLength, RL!clientVars, AS!clientVars
<1>12. ASSUME HandRest
       PROVE  Goal
    BY <1>2, <1>12 DEF HandRest, RL!SendReply, AS!SendReply, AS!ReadSome, RL!clientVars, AS!clientVars
<1>13. ASSUME NEW s \in Sessions, ByteHandled(s)
       PROVE  Goal
    BY <1>2, <1>3, <1>6, <1>13
       DEF ByteHandled, RE!ReadThenWrite, RE!WriteGoesOn, RE!WriteThenRead, RE!ReadFails, RE!WriteFails,
           RE!clientVars
<1>14. ASSUME NEW t \in Threads, Ended(t)
       PROVE  Goal
    BY <1>2, <1>14 DEF Ended, dataVars, clientVars
<1>15. QED
    BY <1>4, <1>5, <1>9, <1>10, <1>11, <1>12, <1>13, <1>14 DEF Step, Goal
-----------------------------------------------------------------------------
(***************************************************************************)
(* What a session reads.  The requests are numbered as they are sent; those *)
(* that were taken from the connection are the first ones, and the i-th    *)
(* node holds the i-th request.  A thread that is inside a handler which   *)
(* will read on is the only one, and nothing else is reading meanwhile.    *)
(***************************************************************************)
Taken(s) == sent[s] - Len(inbox[s])

InHandler(t, s) == cur[t] = s /\ pc[t] \in {"rearm", "send", "loop"}

NodesFilled(s) ==
    /\ Len(inbox[s]) <= sent[s]
    /\ \A i \in 1 .. Len(inbox[s]) : inbox[s][i].req = Taken(s) + i
    /\ Taken(s) <= Len(node[s])
    /\ \A i \in 1 .. Taken(s) : node[s][i].req = i

NodesCounted(s) ==
    /\ rd[s] = "head" => Len(node[s]) = Taken(s)
    /\ rd[s] = "body" => Len(node[s]) = Taken(s) + 1
    /\ program \in ByteServers => Len(node[s]) = Taken(s) /\ rd[s] # "body"
    /\ sock[s] \in Unstarted => rd[s] = "none" /\ Len(node[s]) = 0 /\ Taken(s) = 0

OneHandler(s) ==
    /\ \A t \in Threads : InHandler(t, s) =>
          rd[s] = "none" /\ Len(node[s]) = Taken(s) /\ sock[s] \notin Unstarted
    /\ \A t, u \in Threads : InHandler(t, s) /\ InHandler(u, s) => t = u

\* The servers without ids treat every valid request alike.
KindsKnown(s) ==
    /\ program \in ByteServers => \A i \in 1 .. Len(inbox[s]) : inbox[s][i].id = "hello"
    /\ program \notin Logic =>
          /\ \A i \in 1 .. Len(inbox[s]) : inbox[s][i].id # "other"
          /\ \A i \in 1 .. Len(node[s]) : node[s][i].id = "hello"

Reader(s) == NodesFilled(s) /\ NodesCounted(s) /\ OneHandler(s) /\ KindsKnown(s)

ReadInv == \A s \in Sessions : Reader(s)

LEMMA ReadInit == ProgramInit => ReadInv
<1> SUFFICES ASSUME ProgramInit, NEW s \in Sessions
             PROVE  Reader(s)
    BY DEF ReadInv
<1>1. /\ sent[s] = 0 /\ inbox[s] = <<>> /\ node[s] = <<>> /\ rd[s] = "none"
      /\ \A t \in Threads : pc[t] = "run"
    BY DEF ProgramInit, Init
<1>2. Len(inbox[s]) = 0 /\ Len(node[s]) = 0 /\ Taken(s) = 0
    <2>1. Len(inbox[s]) = 0 /\ Len(node[s]) = 0
        BY <1>1
    <2>2. sent[s] - Len(inbox[s]) = 0 - 0
        BY <1>1, <2>1, Zenon
    <2>3. 0 - 0 = 0
        OBVIOUS
    <2>4. QED
        BY <2>1, <2>2, <2>3, Zenon DEF Taken
<1>3. NodesFilled(s)
    BY <1>1, <1>2 DEF NodesFilled
<1>4. NodesCounted(s)
    BY <1>1, <1>2 DEF NodesCounted
<1>5. OneHandler(s)
    BY <1>1 DEF OneHandler, InHandler
<1>6. KindsKnown(s)
    BY <1>1, <1>2 DEF KindsKnown
<1>7. QED
    BY <1>3, <1>4, <1>5, <1>6 DEF Reader

\* A session that a step does not concern, or where it only leaves a handler.
LEMMA ReaderFrame ==
    ASSUME NEW x \in Sessions, Reader(x), program' = program, SocketsKept,
           sent'[x] = sent[x], inbox'[x] = inbox[x], rd'[x] = rd[x], node'[x] = node[x],
           \A t \in Threads : InHandler(t, x)' => InHandler(t, x)
    PROVE  Reader(x)'
<1>1. Taken(x)' = Taken(x)
    BY DEF Taken
<1>2. sock'[x] \in Unstarted => sock[x] \in Unstarted
    BY DEF SocketsKept
<1>3. NodesFilled(x)' /\ NodesCounted(x)' /\ KindsKnown(x)'
    BY <1>1, <1>2 DEF Reader, NodesFilled, NodesCounted, KindsKnown
<1>4. OneHandler(x)'
    BY <1>1, <1>2 DEF Reader, OneHandler
<1>5. QED
    BY <1>3, <1>4 DEF Reader

\* A step for one session.
LEMMA ReaderElse ==
    ASSUME ReadInv, program' = program, SocketsKept, NEW s \in Sessions, Reader(s)',
           \A x \in Sessions \ {s} :
              /\ sent'[x] = sent[x] /\ inbox'[x] = inbox[x] /\ rd'[x] = rd[x] /\ node'[x] = node[x]
              /\ \A t \in Threads : InHandler(t, x)' => InHandler(t, x)
    PROVE  ReadInv'
<1> SUFFICES ASSUME NEW x \in Sessions, x # s
             PROVE  Reader(x)'
    BY DEF ReadInv
<1>1. Reader(x)
    BY DEF ReadInv
<1>2. QED
    BY <1>1, ReaderFrame

\* Where a thread is after it has called a handler or a part of one.
LEMMA HandlerAfter ==
    ASSUME ThreadInv, NEW t \in Threads, NEW at, NEW w, Continue(t, at, w)
    PROVE  \A x \in Sessions, u \in Threads :
              InHandler(u, x)' <=> IF u = t THEN w = x /\ at \in {"rearm", "send", "loop"}
                                            ELSE InHandler(u, x)
BY DEF ThreadInv, Continue, InHandler

\* A thread that is free is in no handler.
LEMMA FreeIsOutside ==
    ASSUME ThreadInv, NEW t \in Threads, pc[t] = "run"
    PROVE  \A x \in Sessions : ~InHandler(t, x)
BY DEF InHandler

\* Taken from the connection: the first k requests of the inbox become the last nodes.
Takes(s, k) ==
    /\ sent[s] \in Nat /\ sent'[s] = sent[s]
    /\ inbox[s] \in Seq(Message) /\ inbox'[s] \in Seq(Message)
    /\ node[s] \in Seq(Node) /\ node'[s] \in Seq(Node)
    /\ Len(inbox'[s]) = Len(inbox[s]) - k
    /\ \A i \in 1 .. Len(inbox'[s]) : inbox'[s][i] = inbox[s][i + k]
    /\ Len(node'[s]) = Taken(s) + k
    /\ \A i \in 1 .. Taken(s) : node'[s][i].req = node[s][i].req
    /\ \A i \in 1 .. k : node'[s][Taken(s) + i].req = inbox[s][i].req
    /\ program \notin Logic => \A i \in 1 .. Len(node'[s]) : node'[s][i].id = "hello"

LEMMA ReaderTakes ==
    ASSUME NEW s \in Sessions, NEW k \in Nat \ {0}, Reader(s), program' = program, Takes(s, k),
           rd'[s] = "none", sock'[s] \notin Unstarted,
           \A t, u \in Threads : InHandler(t, s)' /\ InHandler(u, s)' => t = u
    PROVE  Reader(s)' /\ Taken(s)' = Taken(s) + k
<1>0. /\ sent[s] \in Nat /\ sent'[s] = sent[s]
      /\ inbox[s] \in Seq(Message) /\ inbox'[s] \in Seq(Message)
      /\ node[s] \in Seq(Node) /\ node'[s] \in Seq(Node)
      /\ Len(inbox'[s]) = Len(inbox[s]) - k
      /\ \A i \in 1 .. Len(inbox'[s]) : inbox'[s][i] = inbox[s][i + k]
      /\ Len(node'[s]) = Taken(s) + k
      /\ \A i \in 1 .. Taken(s) : node'[s][i].req = node[s][i].req
      /\ \A i \in 1 .. k : node'[s][Taken(s) + i].req = inbox[s][i].req
      /\ program \notin Logic => \A i \in 1 .. Len(node'[s]) : node'[s][i].id = "hello"
    BY DEF Takes
<1>1. /\ Len(inbox[s]) \in Nat /\ Len(inbox'[s]) \in Nat
      /\ Len(node[s]) \in Nat /\ Len(node'[s]) \in Nat
    BY <1>0
<1>2. Taken(s) \in Nat /\ Taken(s)' = Taken(s) + k
    BY <1>0, <1>1 DEF Taken, Reader, NodesFilled
<1>3. Len(inbox'[s]) <= sent'[s]
    BY <1>0, <1>1 DEF Reader, NodesFilled
<1>4. ASSUME NEW i \in 1 .. Len(inbox'[s])
      PROVE  inbox'[s][i].req = Taken(s)' + i
    <2>1. i + k \in 1 .. Len(inbox[s])
        BY <1>0, <1>1, <1>4
    <2>2. inbox[s][i + k].req = Taken(s) + (i + k)
        BY <2>1 DEF Reader, NodesFilled
    <2>3. inbox'[s][i] = inbox[s][i + k] /\ i \in Nat
        BY <1>0, <1>1, <1>4
    <2>4. QED
        BY <1>2, <2>2, <2>3
<1>5. ASSUME NEW i \in 1 .. Taken(s)'
      PROVE  node'[s][i].req = i
    <2>1. CASE i <= Taken(s)
        <3>1. i \in 1 .. Taken(s)
            BY <1>2, <2>1
        <3>2. QED
            BY <1>0, <3>1 DEF Reader, NodesFilled
    <2>2. CASE ~(i <= Taken(s))
        <3>1. i - Taken(s) \in 1 .. k /\ i = Taken(s) + (i - Taken(s))
            BY <1>2, <2>2
        <3>2. node'[s][i].req = inbox[s][i - Taken(s)].req
            BY <1>0, <3>1
        <3>3. i - Taken(s) \in 1 .. Len(inbox[s])
            BY <1>0, <1>1, <3>1
        <3>4. inbox[s][i - Taken(s)].req = i
            BY <3>1, <3>3 DEF Reader, NodesFilled
        <3>5. QED
            BY <3>2, <3>4
    <2>3. QED
        BY <2>1, <2>2
<1>6. NodesFilled(s)'
    BY <1>0, <1>1, <1>2, <1>3, <1>4, <1>5 DEF NodesFilled
<1>7. NodesCounted(s)'
    BY <1>0, <1>2 DEF NodesCounted
<1>8. OneHandler(s)'
    BY <1>0, <1>2 DEF OneHandler
<1>9. KindsKnown(s)'
    <2>1. \A i \in 1 .. Len(inbox'[s]) : i + k \in 1 .. Len(inbox[s])
        BY <1>0, <1>1
    <2>2. QED
        BY <1>0, <2>1 DEF Reader, KindsKnown
<1>10. QED
    BY <1>2, <1>6, <1>7, <1>8, <1>9 DEF Reader

ReadTypes ==
    /\ sent \in [Sessions -> 0 .. MaxRequests]
    /\ inbox \in [Sessions -> Seq(Message)]
    /\ rd \in [Sessions -> {"none", "head", "body"}]
    /\ node \in [Sessions -> Seq(Node)]

ReadInvs == ReadTypes /\ SocketTypes /\ ThreadInv /\ ReadInv

\* A step that reads nothing and in which no thread comes to a place before a read.
LEMMA ReaderQuiet ==
    ASSUME ReadInvs, program' = program, SocketsKept, UNCHANGED <<sent, inbox, rd, node>>,
           \A x \in Sessions, t \in Threads : InHandler(t, x)' => InHandler(t, x)
    PROVE  ReadTypes' /\ ReadInv'
<1>1. ReadTypes'
    BY DEF ReadInvs, ReadTypes
<1>2. ReadInv'
    <2> SUFFICES ASSUME NEW x \in Sessions
                 PROVE  Reader(x)'
        BY DEF ReadInv
    <2>1. Reader(x)
        BY DEF ReadInvs, ReadInv
    <2>2. QED
        BY <2>1, ReaderFrame
<1>3. QED
    BY <1>1, <1>2

LEMMA ReaderRequest ==
    ASSUME ReadInvs, program' = program, SocketsKept, NEW s \in Sessions, ClientOf(s), UNCHANGED threadVars
    PROVE  ReadTypes' /\ ReadInv'
<1>1. \A x \in Sessions, t \in Threads : InHandler(t, x)' <=> InHandler(t, x)
    BY DEF InHandler, threadVars
<1>2. CASE UNCHANGED <<sent, inbox, rd, node>>
    BY <1>1, <1>2, ReaderQuiet
<1>3. ASSUME NEW k \in Sendable \cap Sent, Request(s, k)
      PROVE  ReadTypes' /\ ReadInv'
    <2> DEFINE m == [id |-> k, req |-> sent[s] + 1]
    <2>1. /\ inbox[s] \in Seq(Message) /\ sent[s] \in Nat /\ sent[s] < MaxRequests
          /\ node[s] \in Seq(Node)
          /\ Reader(s)
        BY <1>3, BoundsAssumption DEF ReadInvs, ReadTypes, ReadInv, Request
    <2>2. k \in Kinds /\ m \in Message
        BY <2>1, SentAssumption, BoundsAssumption DEF Message, Requests
    <2>3. /\ program \in ByteServers => k = "hello"
          /\ program \notin Logic => k # "other"
        BY ProgramsAssumption DEF Sendable, ByteServers, Logic, ReadInvs, ThreadInv
    <2>4. /\ sent' = [sent EXCEPT ![s] = sent[s] + 1]
          /\ inbox' = [inbox EXCEPT ![s] = Append(inbox[s], m)]
          /\ UNCHANGED <<rd, node>>
        BY <1>3 DEF Request
    <2>5. Append(inbox[s], m) \in Seq(Message)
        BY <2>1, <2>2, Appended
    <2>6. ReadTypes'
        BY <2>1, <2>4, <2>5, BoundsAssumption DEF ReadInvs, ReadTypes
    <2>7. inbox'[s] = Append(inbox[s], m) /\ sent'[s] = sent[s] + 1
        BY <2>4 DEF ReadInvs, ReadTypes
    <2>8. /\ Len(inbox[s]) \in Nat
          /\ Len(inbox'[s]) = Len(inbox[s]) + 1
          /\ \A i \in 1 .. Len(inbox[s]) : inbox'[s][i] = inbox[s][i]
          /\ inbox'[s][Len(inbox[s]) + 1] = m
        BY <2>1, <2>2, <2>7, Appended
    <2>9. Taken(s)' = Taken(s)
        <3>1. sent'[s] - Len(inbox'[s]) = sent[s] - Len(inbox[s])
            BY <2>1, <2>7, <2>8, SMTT(30)
        <3>2. QED
            BY <3>1 DEF Taken
    <2>10. m.req = Taken(s) + (Len(inbox[s]) + 1) /\ m.id = k
        BY <2>1, <2>8 DEF Taken
    <2> HIDE DEF m
    <2>11. NodesFilled(s)'
        <3>1. Len(inbox'[s]) <= sent'[s]
            BY <2>1, <2>7, <2>8 DEF Reader, NodesFilled
        <3>2. ASSUME NEW i \in 1 .. Len(inbox'[s])
              PROVE  inbox'[s][i].req = Taken(s) + i
            <4>1. CASE i \in 1 .. Len(inbox[s])
                BY <2>1, <2>8, <4>1 DEF Reader, NodesFilled
            <4>2. CASE i \notin 1 .. Len(inbox[s])
                <5>1. i = Len(inbox[s]) + 1
                    BY <2>8, <4>2
                <5>2. QED
                    BY <2>8, <2>10, <5>1
            <4>3. QED
                BY <4>1, <4>2
        <3>3. Taken(s) <= Len(node'[s]) /\ \A i \in 1 .. Taken(s) : node'[s][i].req = i
            BY <2>1, <2>4 DEF Reader, NodesFilled
        <3>4. QED
            BY <2>9, <3>1, <3>2, <3>3 DEF NodesFilled
    <2>12. NodesCounted(s)'
        BY <2>1, <2>4, <2>9 DEF Reader, NodesCounted, SocketsKept
    <2>13. OneHandler(s)'
        BY <1>1, <2>1, <2>4, <2>9 DEF Reader, OneHandler, SocketsKept
    <2>14. KindsKnown(s)'
        <3>1. ASSUME NEW i \in 1 .. Len(inbox'[s])
              PROVE  inbox'[s][i].id = k \/ \E j \in 1 .. Len(inbox[s]) : inbox'[s][i] = inbox[s][j]
            <4>1. CASE i \in 1 .. Len(inbox[s])
                BY <2>8, <4>1
            <4>2. CASE i \notin 1 .. Len(inbox[s])
                <5>1. i = Len(inbox[s]) + 1
                    BY <2>8, <4>2
                <5>2. QED
                    BY <2>8, <2>10, <5>1
            <4>3. QED
                BY <4>1, <4>2
        <3>2. node' = node /\ KindsKnown(s)
            BY <2>1, <2>4 DEF Reader
        <3>3. QED
            BY <2>3, <3>1, <3>2 DEF KindsKnown
    <2>15. Reader(s)'
        BY <2>11, <2>12, <2>13, <2>14 DEF Reader
    <2>16. ReadInv'
        BY <1>1, <2>4, <2>15, ReaderElse DEF ReadInvs, ReadTypes
    <2>17. QED
        BY <2>6, <2>16
<1>4. QED
    BY <1>2, <1>3 DEF ClientOf, Connect, Leave

\* A session is started: its first read.
LEMMA ReaderOpens ==
    ASSUME ReadInvs, program' = program, SocketsKept, NEW s \in Sessions,
           sock[s] = "accepting", sock'[s] = "open", rd' = [rd EXCEPT ![s] = "head"], UNCHANGED <<sent, inbox, node>>,
           \A x \in Sessions, t \in Threads : InHandler(t, x)' => InHandler(t, x)
    PROVE  ReadTypes' /\ ReadInv'
<1>1. ReadTypes'
    BY DEF ReadInvs, ReadTypes
<1>2. Reader(s) /\ rd'[s] = "head" /\ Taken(s)' = Taken(s)
    BY DEF ReadInvs, ReadInv, ReadTypes, Taken
<1>3. NodesFilled(s)' /\ KindsKnown(s)'
    BY <1>2 DEF Reader, NodesFilled, KindsKnown
<1>4. Len(node'[s]) = Taken(s)' /\ \A t \in Threads : ~InHandler(t, s)
    BY <1>2 DEF Reader, NodesCounted, OneHandler, Unstarted
<1>5. NodesCounted(s)' /\ OneHandler(s)'
    BY <1>2, <1>4 DEF NodesCounted, OneHandler, Unstarted
<1>6. Reader(s)'
    BY <1>3, <1>5 DEF Reader
<1>7. QED
    BY <1>1, <1>6, ReaderElse DEF ReadInvs, ReadTypes

\* A session stops reading, or only its thread goes on.
LEMMA ReaderStops ==
    ASSUME ReadInvs, program' = program, SocketsKept, NEW s \in Sessions,
           rd' = [rd EXCEPT ![s] = "none"], UNCHANGED <<sent, inbox, node>>,
           \A x \in Sessions, t \in Threads : InHandler(t, x)' => InHandler(t, x)
    PROVE  ReadTypes' /\ ReadInv'
<1>1. ReadTypes'
    BY DEF ReadInvs, ReadTypes
<1>2. Reader(s) /\ rd'[s] = "none" /\ Taken(s)' = Taken(s)
    BY DEF ReadInvs, ReadInv, ReadTypes, Taken
<1>3. NodesFilled(s)' /\ KindsKnown(s)'
    BY <1>2 DEF Reader, NodesFilled, KindsKnown
<1>4. NodesCounted(s)' /\ OneHandler(s)'
    BY <1>2 DEF Reader, NodesCounted, OneHandler, SocketsKept
<1>5. Reader(s)'
    BY <1>3, <1>4 DEF Reader
<1>6. QED
    BY <1>1, <1>5, ReaderElse DEF ReadInvs, ReadTypes

\* The rest of a handler, or the end of a write, starts the next read.
LEMMA ReaderReadsOn ==
    ASSUME ReadInvs, program' = program, SocketsKept, NEW s \in Sessions,
           sock[s] \notin Unstarted, Len(node[s]) = Taken(s),
           rd' = [rd EXCEPT ![s] = "head"], UNCHANGED <<sent, inbox, node>>,
           \A x \in Sessions, t \in Threads : InHandler(t, x)' => x # s /\ InHandler(t, x)
    PROVE  ReadTypes' /\ ReadInv'
<1>1. ReadTypes'
    BY DEF ReadInvs, ReadTypes
<1>2. Reader(s) /\ rd'[s] = "head" /\ Taken(s)' = Taken(s)
    BY DEF ReadInvs, ReadInv, ReadTypes, Taken
<1>3. NodesFilled(s)' /\ KindsKnown(s)'
    BY <1>2 DEF Reader, NodesFilled, KindsKnown
<1>4. NodesCounted(s)' /\ OneHandler(s)'
    BY <1>2 DEF NodesCounted, OneHandler, SocketsKept
<1>5. Reader(s)'
    BY <1>3, <1>4 DEF Reader
<1>6. QED
    BY <1>1, <1>5, ReaderElse DEF ReadInvs, ReadTypes

\* A valid head: a node for its message.
LEMMA ReaderHead ==
    ASSUME ReadInvs, program' = program, SocketsKept, NEW s \in Sessions, program \notin ByteServers,
           rd[s] = "head", inbox[s] # <<>>, Head(inbox[s]).id # "invalid",
           rd' = [rd EXCEPT ![s] = "body"], UNCHANGED <<sent, inbox>>,
           node' = [node EXCEPT ![s] = Append(node[s], [id |-> Head(inbox[s]).id, req |-> 0])],
           \A x \in Sessions, t \in Threads : InHandler(t, x)' => InHandler(t, x)
    PROVE  ReadTypes' /\ ReadInv'
<1> DEFINE n == [id |-> Head(inbox[s]).id, req |-> 0]
<1>1. /\ Reader(s)
      /\ inbox[s] \in Seq(Message) /\ node[s] \in Seq(Node) /\ sent[s] \in Nat
    BY BoundsAssumption DEF ReadInvs, ReadInv, ReadTypes
<1>2. Head(inbox[s]) \in Message /\ Head(inbox[s]) = inbox[s][1] /\ Len(inbox[s]) \in Nat \ {0}
    BY <1>1, HeadAndTail
<1>3. n \in Node /\ n.id = inbox[s][1].id
    BY <1>2, BoundsAssumption DEF Message, Node
<1>4. /\ rd'[s] = "body"
      /\ node'[s] = Append(node[s], n)
      /\ inbox'[s] = inbox[s]
      /\ Taken(s)' = Taken(s)
    BY DEF ReadInvs, ReadTypes, Taken
<1> HIDE DEF n
<1>5. /\ node'[s] \in Seq(Node)
      /\ Len(node[s]) \in Nat
      /\ Len(node'[s]) = Len(node[s]) + 1
      /\ \A i \in 1 .. Len(node[s]) : node'[s][i] = node[s][i]
      /\ node'[s][Len(node[s]) + 1] = n
    BY <1>1, <1>3, <1>4, Appended
<1>6. ReadTypes'
    <2>1. Append(node[s], n) \in Seq(Node)
        BY <1>4, <1>5
    <2>2. QED
        BY <2>1 DEF ReadInvs, ReadTypes, n
<1>7. Len(node[s]) = Taken(s) /\ sock[s] \notin Unstarted
    BY <1>1 DEF Reader, NodesCounted
<1>8. NodesFilled(s)'
    <2>1. NodesFilled(s)
        BY <1>1 DEF Reader
    <2>2. Taken(s)' = Taken(s) /\ inbox'[s] = inbox[s] /\ sent'[s] = sent[s]
        BY <1>4
    <2>3. Taken(s)' <= Len(node'[s])
        BY <1>5, <1>7, <2>2
    <2>4. \A i \in 1 .. Taken(s) : node'[s][i].req = i
        BY <1>5, <1>7, <2>1 DEF NodesFilled
    <2>5. QED
        BY <2>1, <2>2, <2>3, <2>4 DEF NodesFilled
<1>9. NodesCounted(s)'
    BY <1>4, <1>5, <1>7 DEF NodesCounted, SocketsKept
<1>10. OneHandler(s)'
    BY <1>1 DEF Reader, OneHandler
<1>11. KindsKnown(s)'
    <2>1. program \notin Logic => n.id = "hello"
        BY <1>1, <1>2, <1>3 DEF Reader, KindsKnown, Message, Kinds
    <2>2. QED
        BY <1>1, <1>4, <1>5, <2>1 DEF Reader, KindsKnown
<1>12. Reader(s)'
    BY <1>8, <1>9, <1>10, <1>11 DEF Reader
<1>13. QED
    BY <1>6, <1>12, ReaderElse DEF ReadInvs, ReadTypes

\* Its body: the request is in the node, the thread in the handler.
LEMMA ReaderBody ==
    ASSUME ReadInvs, program' = program, SocketsKept, NEW s \in Sessions, program \notin ByteServers,
           NEW t \in Threads, pc[t] = "run", NEW at \in {"rearm", "send"}, Continue(t, at, s),
           rd[s] = "body", inbox[s] # <<>>,
           rd' = [rd EXCEPT ![s] = "none"], sent' = sent,
           inbox' = [inbox EXCEPT ![s] = Tail(inbox[s])],
           node' = [node EXCEPT ![s] = [node[s] EXCEPT ![Len(node[s])] =
                      [id |-> node[s][Len(node[s])].id, req |-> Head(inbox[s]).req]]]
    PROVE  /\ ReadTypes' /\ ReadInv'
           /\ Taken(s)' = Taken(s) + 1 /\ Len(node[s]) = Taken(s) + 1 /\ Taken(s) \in Nat
           /\ Len(node'[s]) = Len(node[s])
           /\ \A i \in 1 .. Len(node[s]) : node'[s][i].id = node[s][i].id
<1> DEFINE last == Len(node[s])
           n == [id |-> node[s][last].id, req |-> Head(inbox[s]).req]
<1>1. /\ Reader(s)
      /\ inbox[s] \in Seq(Message) /\ node[s] \in Seq(Node) /\ sent[s] \in Nat
    BY BoundsAssumption DEF ReadInvs, ReadInv, ReadTypes
<1>2. /\ Head(inbox[s]) \in Message /\ Head(inbox[s]) = inbox[s][1]
      /\ Tail(inbox[s]) \in Seq(Message) /\ Len(Tail(inbox[s])) = Len(inbox[s]) - 1
      /\ \A i \in 1 .. Len(inbox[s]) - 1 : Tail(inbox[s])[i] = inbox[s][i + 1]
    BY <1>1, HeadAndTail
<1>3. Taken(s) \in Nat /\ last = Taken(s) + 1
    BY <1>1 DEF Reader, NodesFilled, NodesCounted, Taken
<1>4. last \in 1 .. Len(node[s]) /\ node[s][last] \in Node
    BY <1>1, <1>3
<1>5. n \in Node /\ n.req = inbox[s][1].req /\ n.id = node[s][last].id
    BY <1>2, <1>4, BoundsAssumption DEF Message, Node, Requests
<1>6. /\ inbox'[s] = Tail(inbox[s]) /\ rd'[s] = "none" /\ sent'[s] = sent[s]
      /\ node'[s] = [node[s] EXCEPT ![last] = n]
    BY DEF ReadInvs, ReadTypes
<1> HIDE DEF last, n
<1>7. [node[s] EXCEPT ![last] = n] \in Seq(Node)
    BY <1>1, <1>4, <1>5
<1>8. /\ Len(node'[s]) = Len(node[s])
      /\ \A i \in 1 .. Len(node[s]) : node'[s][i] = IF i = last THEN n ELSE node[s][i]
    BY <1>1, <1>4, <1>6
<1>9. ReadTypes'
    BY <1>2, <1>7 DEF ReadInvs, ReadTypes, n, last
<1>10. Reader(s)' /\ Taken(s)' = Taken(s) + 1
    <2>1. \A i \in 1 .. Len(inbox'[s]) : inbox'[s][i] = inbox[s][i + 1]
        BY <1>2, <1>6
    <2>2. Len(node'[s]) = Taken(s) + 1
        BY <1>3, <1>8 DEF last
    <2>3. /\ \A i \in 1 .. Taken(s) : node'[s][i].req = node[s][i].req
          /\ node'[s][Taken(s) + 1].req = inbox[s][1].req
        BY <1>3, <1>4, <1>5, <1>8 DEF last
    <2>4. program \notin Logic => \A i \in 1 .. Len(node'[s]) : node'[s][i].id = "hello"
        BY <1>1, <1>4, <1>5, <1>8 DEF Reader, KindsKnown
    <2>5. sock'[s] \notin Unstarted
        BY <1>1 DEF Reader, NodesCounted, SocketsKept
    <2>6. \A u, v \in Threads : InHandler(u, s)' /\ InHandler(v, s)' => u = v
        <3>1. \A u \in Threads : ~InHandler(u, s)
            BY <1>1 DEF Reader, OneHandler
        <3>2. QED
            BY <3>1, HandlerAfter DEF ReadInvs
    <2>7. inbox'[s] \in Seq(Message) /\ node'[s] \in Seq(Node) /\ Len(inbox'[s]) = Len(inbox[s]) - 1
        BY <1>2, <1>6, <1>7
    <2>8. \A i \in 1 .. 1 : node'[s][Taken(s) + i].req = inbox[s][i].req
        BY <2>3
    <2>9. QED
        <3>1. Takes(s, 1)
            BY <1>1, <1>6, <2>1, <2>2, <2>3, <2>4, <2>7, <2>8 DEF Takes
        <3>2. 1 \in Nat \ {0}
            OBVIOUS
        <3>3. QED
            BY <1>1, <1>6, <2>5, <2>6, <3>1, <3>2, ReaderTakes
<1>11. ReadInv'
    <2>1. \A x \in Sessions \ {s} : \A u \in Threads : InHandler(u, x)' => InHandler(u, x)
        BY HandlerAfter DEF ReadInvs
    <2>2. QED
        BY <1>10, <2>1, ReaderElse DEF ReadInvs, ReadTypes
<1>12. QED
    BY <1>3, <1>5, <1>8, <1>9, <1>10, <1>11 DEF last

\* boost/asyncServer: the next request in the loop of handleRead.
LEMMA ReaderMessage ==
    ASSUME ReadInvs, program' = program, SocketsKept, NEW s \in Sessions,
           program = "asyncServer", AS!TakeMessage(s)
    PROVE  /\ ReadTypes' /\ ReadInv'
           /\ Taken(s)' = Taken(s) + 1 /\ Taken(s) \in Nat
           /\ Len(node[s]) = Taken(s) /\ node'[s] = Append(node[s], Head(inbox[s]))
           /\ Head(inbox[s]).req = Taken(s) + 1
<1> DEFINE m == Head(inbox[s])
<1>1. /\ Reader(s)
      /\ inbox[s] \in Seq(Message) /\ node[s] \in Seq(Node) /\ sent[s] \in Nat
      /\ inbox[s] # <<>>
    BY BoundsAssumption DEF ReadInvs, ReadInv, ReadTypes, AS!TakeMessage
<1>2. /\ m \in Message /\ m = inbox[s][1] /\ Len(inbox[s]) \in Nat \ {0}
      /\ Tail(inbox[s]) \in Seq(Message) /\ Len(Tail(inbox[s])) = Len(inbox[s]) - 1
      /\ \A i \in 1 .. Len(inbox[s]) - 1 : Tail(inbox[s])[i] = inbox[s][i + 1]
    BY <1>1, HeadAndTail
<1>3. /\ inbox'[s] = Tail(inbox[s]) /\ rd'[s] = "none" /\ sent'[s] = sent[s]
      /\ node'[s] = Append(node[s], m)
      /\ m.id # "invalid"
    BY DEF ReadInvs, ReadTypes, AS!TakeMessage
<1>4. m \in Node
    BY <1>2, BoundsAssumption DEF Message, Node, Requests
<1>5. rd[s] = "head" \/ InHandler(Acceptor, s)
    BY DEF AS!TakeMessage, AS!InLoop, AS!Io!Reading, InHandler
<1>6. Len(node[s]) = Taken(s) /\ sock[s] \notin Unstarted /\ Taken(s) \in Nat /\ m.req = Taken(s) + 1
    BY <1>1, <1>2, <1>5, Threading DEF Reader, NodesFilled, NodesCounted, OneHandler, Taken
<1>7. \A u \in Threads : InHandler(u, s) => u = Acceptor
    BY <1>1, <1>5, Threading DEF Reader, OneHandler
<1>8. Continue(Acceptor, "send", s) /\ UNCHANGED sent
    BY DEF AS!TakeMessage, AS!Continue, Continue
<1> HIDE DEF m
<1>9. /\ node'[s] \in Seq(Node)
      /\ Len(node'[s]) = Taken(s) + 1
      /\ \A i \in 1 .. Taken(s) : node'[s][i] = node[s][i]
      /\ node'[s][Taken(s) + 1] = m
    BY <1>1, <1>3, <1>4, <1>6, Appended
<1>10. ReadTypes'
    <2>1. Append(node[s], m) \in Seq(Node)
        BY <1>3, <1>9
    <2>2. QED
        BY <1>2, <1>8, <2>1 DEF ReadInvs, ReadTypes, AS!TakeMessage, m
<1>11. Reader(s)' /\ Taken(s)' = Taken(s) + 1
    <2>1. \A i \in 1 .. Len(inbox'[s]) : inbox'[s][i] = inbox[s][i + 1]
        BY <1>2, <1>3
    <2>2. \A i \in 1 .. 1 : node'[s][Taken(s) + i].req = inbox[s][i].req
        BY <1>2, <1>9
    <2>3. m.id = "hello"
        BY <1>1, <1>2, <1>3 DEF Reader, KindsKnown, Logic, Message, Kinds
    <2>4. ASSUME program \notin Logic, NEW i \in 1 .. Len(node'[s])
          PROVE  node'[s][i].id = "hello"
        <3>1. CASE i \in 1 .. Taken(s)
            BY <1>1, <1>6, <1>9, <2>4, <3>1 DEF Reader, KindsKnown
        <3>2. CASE i \notin 1 .. Taken(s)
            <4>1. i = Taken(s) + 1
                BY <1>6, <1>9, <3>2
            <4>2. QED
                BY <1>9, <2>3, <4>1
        <3>3. QED
            BY <3>1, <3>2
    <2>5. sock'[s] \notin Unstarted
        BY <1>6 DEF SocketsKept
    <2>6. \A u, v \in Threads : InHandler(u, s)' /\ InHandler(v, s)' => u = v
        BY <1>7, <1>8, HandlerAfter, Threading DEF ReadInvs
    <2>7. inbox'[s] \in Seq(Message) /\ Len(inbox'[s]) = Len(inbox[s]) - 1
        BY <1>2, <1>3
    <2>8. \A i \in 1 .. Taken(s) : node'[s][i].req = node[s][i].req
        BY <1>9
    <2>9. QED
        <3>1. Takes(s, 1)
            BY <1>1, <1>3, <1>9, <2>1, <2>2, <2>4, <2>7, <2>8 DEF Takes
        <3>2. 1 \in Nat \ {0}
            OBVIOUS
        <3>3. QED
            BY <1>1, <1>3, <2>5, <2>6, <3>1, <3>2, ReaderTakes
<1>12. ReadInv'
    <2>1. \A x \in Sessions \ {s} : \A u \in Threads : InHandler(u, x)' => InHandler(u, x)
        BY <1>8, HandlerAfter, Threading DEF ReadInvs
    <2>2. \A x \in Sessions \ {s} : inbox'[x] = inbox[x] /\ rd'[x] = rd[x] /\ node'[x] = node[x]
        BY DEF ReadInvs, ReadTypes, AS!TakeMessage
    <2>3. QED
        BY <1>8, <1>11, <2>1, <2>2, ReaderElse DEF ReadInvs
<1>13. QED
    BY <1>3, <1>6, <1>10, <1>11, <1>12 DEF m

\* One sequence behind another.
Joins(c, p, q) ==
    /\ Len(p) \in Nat /\ Len(q) \in Nat /\ Len(c) = Len(p) + Len(q)
    /\ \A i \in 1 .. Len(p) : c[i] = p[i]
    /\ \A i \in 1 .. Len(q) : c[Len(p) + i] = q[i]

LEMMA Joined ==
    ASSUME NEW S, NEW p \in Seq(S), NEW q \in Seq(S)
    PROVE  p \o q \in Seq(S) /\ Joins(p \o q, p, q)
BY DEF Joins

\* boost/async, boost/demo: what a read takes is a number of requests.
LEMMA ReaderChunk ==
    ASSUME ReadInvs, program' = program, SocketsKept, NEW s \in Sessions,
           program \in ByteServers, RE!ReadThenWrite(s), ReplyTypes
    PROVE  /\ ReadTypes' /\ ReadInv'
           /\ \E k \in Nat \ {0} :
                 /\ Taken(s)' = Taken(s) + k
                 /\ Len(sendQue'[s]) = k
                 /\ sendQue'[s] \in Seq(Requests)
                 /\ \A i \in 1 .. k : sendQue'[s][i] = Taken(s) + i
<1>1. /\ Reader(s)
      /\ inbox[s] \in Seq(Message) /\ node[s] \in Seq(Node) /\ sent[s] \in Nat
      /\ rd[s] = "head"
    BY BoundsAssumption DEF ReadInvs, ReadInv, ReadTypes, RE!ReadThenWrite
<1> DEFINE Chunk(k) == SubSeq(inbox[s], 1, k)
           Left(k) == SubSeq(inbox[s], k + 1, Len(inbox[s]))
<1>2. PICK k \in DOMAIN inbox[s] :
          /\ node' = [node EXCEPT ![s] = node[s] \o Chunk(k)]
          /\ sendQue' = [sendQue EXCEPT ![s] = [i \in 1 .. k |-> inbox[s][i].req]]
          /\ inbox' = [inbox EXCEPT ![s] = Left(k)]
    BY DEF RE!ReadThenWrite
<1>3. rd' = [rd EXCEPT ![s] = "none"] /\ UNCHANGED <<sent, threadVars>>
    BY DEF RE!ReadThenWrite, RE!threadVars, threadVars
<1>4. k \in 1 .. Len(inbox[s]) /\ k \in Nat \ {0} /\ Len(inbox[s]) \in Nat
    BY <1>1
<1>5. /\ Chunk(k) \in Seq(Message) /\ Len(Chunk(k)) = k
      /\ \A i \in 1 .. k : Chunk(k)[i] = inbox[s][i]
    BY <1>1, <1>4
<1>6. /\ Left(k) \in Seq(Message) /\ Len(Left(k)) = Len(inbox[s]) - k
      /\ \A i \in 1 .. Len(inbox[s]) - k : Left(k)[i] = inbox[s][i + k]
    BY <1>1, <1>4
<1>7. Chunk(k) \in Seq(Node)
    <2>1. Message \subseteq Node
        BY BoundsAssumption DEF Message, Node, Requests
    <2>2. QED
        BY <1>5, <2>1
<1> HIDE DEF Chunk, Left
<1>8. /\ inbox'[s] = Left(k) /\ rd'[s] = "none" /\ sent'[s] = sent[s]
      /\ node'[s] = node[s] \o Chunk(k)
    BY <1>2, <1>3 DEF ReadInvs, ReadTypes
<1>9. Len(node[s]) = Taken(s) /\ sock[s] \notin Unstarted /\ Taken(s) \in Nat
    BY <1>1 DEF Reader, NodesFilled, NodesCounted, Taken
<1>10. /\ node[s] \o Chunk(k) \in Seq(Node)
       /\ Len(node[s] \o Chunk(k)) = Len(node[s]) + k
       /\ \A i \in 1 .. Len(node[s]) : (node[s] \o Chunk(k))[i] = node[s][i]
       /\ \A i \in 1 .. k : (node[s] \o Chunk(k))[Len(node[s]) + i] = Chunk(k)[i]
    <2>1. node[s] \o Chunk(k) \in Seq(Node) /\ Joins(node[s] \o Chunk(k), node[s], Chunk(k))
        BY <1>1, <1>7, Joined, Zenon
    <2>2. QED
        BY <1>5, <2>1 DEF Joins
<1>11. ReadTypes'
    BY <1>2, <1>3, <1>6, <1>10 DEF ReadInvs, ReadTypes
<1>12. Reader(s)' /\ Taken(s)' = Taken(s) + k
    <2>1. /\ inbox'[s] \in Seq(Message) /\ Len(inbox'[s]) = Len(inbox[s]) - k
          /\ \A i \in 1 .. Len(inbox'[s]) : inbox'[s][i] = inbox[s][i + k]
        BY <1>6, <1>8
    <2>2. /\ node'[s] \in Seq(Node) /\ Len(node'[s]) = Taken(s) + k
          /\ \A i \in 1 .. Taken(s) : node'[s][i].req = node[s][i].req
          /\ \A i \in 1 .. k : node'[s][Taken(s) + i].req = inbox[s][i].req
        BY <1>5, <1>8, <1>9, <1>10
    <2>3. \A i \in 1 .. Len(node'[s]) : node'[s][i].id = "hello"
        <3>1. \A i \in 1 .. Taken(s) : node'[s][i].id = "hello"
            BY <1>1, <1>8, <1>9, <1>10 DEF Reader, KindsKnown, Logic, ByteServers
        <3>2. \A i \in 1 .. k : node'[s][Taken(s) + i].id = "hello"
            <4> SUFFICES ASSUME NEW i \in 1 .. k
                         PROVE  node'[s][Taken(s) + i].id = "hello"
                OBVIOUS
            <4>1. node'[s][Taken(s) + i] = inbox[s][i]
                BY <1>5, <1>8, <1>9, <1>10
            <4>2. i \in 1 .. Len(inbox[s])
                BY <1>4
            <4>3. QED
                BY <1>1, <4>1, <4>2 DEF Reader, KindsKnown
        <3>3. \A i \in 1 .. Len(node'[s]) : i \in 1 .. Taken(s) \/ (i - Taken(s) \in 1 .. k /\ i = Taken(s) + (i - Taken(s)))
            BY <1>4, <1>9, <2>2
        <3>4. QED
            BY <3>1, <3>2, <3>3
    <2>4. sock'[s] \notin Unstarted
        BY <1>9 DEF SocketsKept
    <2>5. \A u, v \in Threads : InHandler(u, s)' /\ InHandler(v, s)' => u = v
        BY <1>1, <1>3 DEF Reader, OneHandler, InHandler, threadVars
    <2>6. QED
        <3>1. Takes(s, k)
            BY <1>1, <1>8, <2>1, <2>2, <2>3 DEF Takes
        <3>2. QED
            BY <1>1, <1>4, <1>8, <2>4, <2>5, <3>1, ReaderTakes
<1>13. ReadInv'
    <2>1. \A x \in Sessions \ {s} : \A u \in Threads : InHandler(u, x)' => InHandler(u, x)
        BY <1>3 DEF InHandler, threadVars
    <2>2. \A x \in Sessions \ {s} : inbox'[x] = inbox[x] /\ rd'[x] = rd[x] /\ node'[x] = node[x]
        BY <1>2, <1>3 DEF ReadInvs, ReadTypes
    <2>3. QED
        BY <1>3, <1>12, <2>1, <2>2, ReaderElse DEF ReadInvs
<1>14. /\ Len(sendQue'[s]) = k /\ sendQue'[s] \in Seq(Requests)
       /\ \A i \in 1 .. k : sendQue'[s][i] = Taken(s) + i
    <2>1. sendQue'[s] = [i \in 1 .. k |-> inbox[s][i].req]
        BY <1>2 DEF ReplyTypes
    <2>2. \A i \in 1 .. k : inbox[s][i].req = Taken(s) + i /\ inbox[s][i].req \in Requests
        <3> SUFFICES ASSUME NEW i \in 1 .. k
                     PROVE  inbox[s][i].req = Taken(s) + i /\ inbox[s][i].req \in Requests
            OBVIOUS
        <3>1. i \in 1 .. Len(inbox[s])
            BY <1>4
        <3>2. inbox[s][i].req = Taken(s) + i
            BY <1>1, <3>1 DEF Reader, NodesFilled
        <3>3. inbox[s][i] \in Message
            BY <1>1, <3>1
        <3>4. QED
            BY <3>2, <3>3 DEF Message
    <2>3. QED
        BY <1>4, <2>1, <2>2
<1>15. QED
    BY <1>4, <1>11, <1>12, <1>13, <1>14

\* A reply that waits is for a request that was taken.
RepliesTaken == \A s \in Sessions : sendQue[s] # <<>> => Taken(s) > 0

\* A thread leaves its place for one that is not before a read.
LEMMA LeavesHandler ==
    ASSUME ThreadInv, NEW t \in Threads, NEW at \in ProgramPCs \ {"rearm", "send", "loop"}, NEW w, Continue(t, at, w)
    PROVE  \A x \in Sessions, u \in Threads : InHandler(u, x)' => u # t /\ InHandler(u, x)
BY HandlerAfter

LEMMA ReadStepHandled ==
    ASSUME ReadInvs, program' = program, SocketsKept, NEW t \in Threads, NEW s \in Sessions,
           program \notin ByteServers,
           Handled(t, s) \/ IT!On(t)!MsgRead(t, s) \/ ThreadHandled(t, s)
    PROVE  ReadTypes' /\ ReadInv'
<1> DEFINE Goal == ReadTypes' /\ ReadInv'
<1>1. ThreadInv /\ rd[s] \in {"none", "head", "body"}
    BY DEF ReadInvs, ReadTypes
<1>2. UNCHANGED threadVars => \A x \in Sessions, u \in Threads : InHandler(u, x)' => InHandler(u, x)
    BY DEF InHandler, threadVars
<1>3. ASSUME UNCHANGED <<sent, inbox, rd, node, threadVars>>
      PROVE  Goal
    BY <1>2, <1>3, ReaderQuiet
<1>4. ASSUME IT!On(t)!AcceptStart(s)
      PROVE  Goal
    <2>1. /\ sock[s] = "accepting" /\ sock'[s] = "open" /\ rd' = [rd EXCEPT ![s] = "head"]
          /\ Continue(t, "insert", s) /\ UNCHANGED <<sent, inbox, node>>
        BY <1>4 DEF IT!On!AcceptStart, IT!On!Continue, IT!On!clientVars, Continue, ReadInvs, SocketTypes
    <2>2. \A x \in Sessions, u \in Threads : InHandler(u, x)' => InHandler(u, x)
        BY <1>1, <2>1, LeavesHandler DEF ProgramPCs, PCs
    <2>3. QED
        BY <2>1, <2>2, ReaderOpens
<1>5. ASSUME IT!On(t)!HeadRead(t, s)
      PROVE  Goal
    <2>1. /\ rd[s] = "head" /\ inbox[s] # <<>> /\ UNCHANGED <<sent, inbox, threadVars>>
          /\ \/ rd' = [rd EXCEPT ![s] = "none"] /\ node' = node
             \/ /\ Head(inbox[s]).id # "invalid"
                /\ rd' = [rd EXCEPT ![s] = "body"]
                /\ node' = [node EXCEPT ![s] = Append(node[s], [id |-> Head(inbox[s]).id, req |-> 0])]
        BY <1>5 DEF IT!On!HeadRead, IT!On!Reading, IT!On!clientVars, IT!On!threadVars, threadVars
    <2>2. QED
        BY <1>2, <2>1, ReaderStops, ReaderHead
<1>6. ASSUME NEW at \in {"clear", "run"}, NEW w, Continue(t, at, w),
             rd' = [rd EXCEPT ![s] = "none"], UNCHANGED <<sent, inbox, node>>
      PROVE  Goal
    <2>1. \A x \in Sessions, u \in Threads : InHandler(u, x)' => InHandler(u, x)
        BY <1>1, <1>6, LeavesHandler DEF ProgramPCs, PCs
    <2>2. QED
        BY <1>6, <2>1, ReaderStops
<1>7. ASSUME IT!On(t)!ReadError(t, s) \/ IT!InvalidHead(t, s)
      PROVE  Goal
    BY <1>6, <1>7 DEF IT!On!ReadError, IT!On!Continue, IT!On!clientVars, Continue,
           IT!InvalidHead, IT!Continue, IT!clientVars
<1>8. ASSUME IT!On(t)!WriteDone(t, s) \/ IT!On(t)!WriteError(t, s)
      PROVE  Goal
    BY <1>3, <1>8 DEF IT!On!WriteDone, IT!On!WriteError, IT!On!clientVars, IT!On!threadVars, threadVars
<1>9. ASSUME IT!WriteFails(t, s)
      PROVE  Goal
    <2>1. Continue(t, "clear", s) /\ UNCHANGED <<sent, inbox, rd, node>>
        BY <1>9 DEF IT!WriteFails, IT!Continue, Continue, IT!clientVars
    <2>2. \A x \in Sessions, u \in Threads : InHandler(u, x)' => InHandler(u, x)
        BY <1>1, <2>1, LeavesHandler DEF ProgramPCs, PCs
    <2>3. QED
        BY <2>1, <2>2, ReaderQuiet
<1>10. ASSUME IT!On(t)!MsgRead(t, s)
       PROVE  Goal
    <2>1. /\ pc[t] = "run" /\ Continue(t, "rearm", s) /\ rd[s] = "body" /\ inbox[s] # <<>>
          /\ rd' = [rd EXCEPT ![s] = "none"] /\ sent' = sent
          /\ inbox' = [inbox EXCEPT ![s] = Tail(inbox[s])]
          /\ node' = [node EXCEPT ![s] = [node[s] EXCEPT ![Len(node[s])] =
                        [id |-> node[s][Len(node[s])].id, req |-> Head(inbox[s]).req]]]
        BY <1>10 DEF IT!On!MsgRead, IT!On!Reading, IT!On!Free, IT!On!Continue, Continue
    <2>2. QED
        BY <2>1, ReaderBody
<1> HIDE DEF Goal
<1>11. QED
    BY <1>4, <1>5, <1>7, <1>8, <1>9, <1>10 DEF Handled, ThreadHandled, Goal

\* What a thread finds that is inside a handler which will read on.
LEMMA BeforeRead ==
    ASSUME ReadInvs, NEW t \in Threads, NEW s \in Sessions, InHandler(t, s)
    PROVE  /\ sock[s] \notin Unstarted /\ Len(node[s]) = Taken(s)
           /\ \A u \in Threads \ {t} : ~InHandler(u, s)
BY DEF ReadInvs, ReadInv, Reader, OneHandler

LEMMA ReadStepRest ==
    ASSUME ReadInvs, program' = program, SocketsKept, NEW t \in Threads, Rest(t) \/ IT!On(t)!Dispatch
    PROVE  ReadTypes' /\ ReadInv'
<1>1. ThreadInv
    BY DEF ReadInvs
<1>2. ASSUME IT!On(t)!ReadHeadAgain(t)
      PROVE  ReadTypes' /\ ReadInv'
    <2>1. PICK s \in Sessions : InHandler(t, s) /\ cur[t] = s
        BY <1>1, <1>2 DEF IT!On!ReadHeadAgain, ThreadInv, Busy, InHandler
    <2>2. /\ rd' = [rd EXCEPT ![s] = "head"] /\ UNCHANGED <<sent, inbox, node>>
          /\ Continue(t, "run", NoSession)
        BY <1>2, <2>1 DEF IT!On!ReadHeadAgain, IT!On!Return, IT!On!Continue, Continue, IT!On!clientVars
    <2>3. \A x \in Sessions, u \in Threads : InHandler(u, x)' => x # s /\ InHandler(u, x)
        BY <1>1, <2>1, <2>2, BeforeRead, LeavesHandler DEF ProgramPCs, PCs
    <2>4. QED
        BY <2>1, <2>2, <2>3, BeforeRead, ReaderReadsOn
<1>3. ASSUME IT!On(t)!ClearSession(t) \/ Inserted(t)
      PROVE  ReadTypes' /\ ReadInv'
    <2>1. Continue(t, "run", NoSession) /\ UNCHANGED <<sent, inbox, rd, node>>
        BY <1>3 DEF IT!On!ClearSession, IT!On!Return, IT!On!Continue, IT!On!clientVars, Inserted, Return,
               Continue, clientVars
    <2>2. \A x \in Sessions, u \in Threads : InHandler(u, x)' => InHandler(u, x)
        BY <1>1, <2>1, LeavesHandler DEF ProgramPCs, PCs
    <2>3. QED
        BY <2>1, <2>2, ReaderQuiet
<1>4. ASSUME IT!On(t)!Dispatch
      PROVE  ReadTypes' /\ ReadInv'
    <2>1. UNCHANGED <<sent, inbox, rd, node, threadVars>>
        BY <1>4 DEF IT!On!Dispatch, IT!On!clientVars, IT!On!threadVars, threadVars
    <2>2. QED
        BY <2>1, ReaderQuiet DEF InHandler, threadVars
<1>5. QED
    BY <1>2, <1>3, <1>4 DEF Rest

LEMMA ReadStepHand ==
    ASSUME ReadInvs, program' = program, SocketsKept, HandRest \/ \E s \in Sessions : HandHandled(s)
    PROVE  ReadTypes' /\ ReadInv'
<1>1. ThreadInv /\ Acceptor \in Threads
    BY Threading DEF ReadInvs
<1>2. ASSUME NEW s \in Sessions, program = "readAtLeastServer", RL!MsgComplete(s)
      PROVE  ReadTypes' /\ ReadInv'
    <2>1. Reader(s) /\ node[s] \in Seq(Node) /\ rd[s] = "body" /\ inbox[s] # <<>> /\ pc[Acceptor] = "run"
        BY <1>2 DEF ReadInvs, ReadInv, ReadTypes, RL!MsgComplete, RL!Io!Reading, RL!Io!Free
    <2>2. node[s][Len(node[s])] \in Node
        <3>1. inbox[s] \in Seq(Message) /\ sent[s] \in Nat
            BY BoundsAssumption DEF ReadInvs, ReadTypes
        <3>2. Taken(s) \in Nat /\ Len(node[s]) = Taken(s) + 1
            BY <2>1, <3>1 DEF Reader, NodesFilled, NodesCounted, Taken
        <3>3. Len(node[s]) \in 1 .. Len(node[s])
            BY <3>2
        <3>4. QED
            BY <2>1, <3>3
    <2>3. [node[s][Len(node[s])] EXCEPT !.req = Head(inbox[s]).req]
            = [id |-> node[s][Len(node[s])].id, req |-> Head(inbox[s]).req]
        BY <2>2 DEF Node
    <2>4. /\ Continue(Acceptor, "send", s)
          /\ rd' = [rd EXCEPT ![s] = "none"] /\ sent' = sent
          /\ inbox' = [inbox EXCEPT ![s] = Tail(inbox[s])]
          /\ node' = [node EXCEPT ![s] = [node[s] EXCEPT ![Len(node[s])] =
                        [node[s][Len(node[s])] EXCEPT !.req = Head(inbox[s]).req]]]
        BY <1>2 DEF RL!MsgComplete, RL!Continue, Continue
    <2>5. QED
        BY <1>1, <1>2, <2>1, <2>3, <2>4, ReaderBody DEF ByteServers
<1>3. ASSUME NEW s \in Sessions, program = "asyncServer", AS!TakeMessage(s)
      PROVE  ReadTypes' /\ ReadInv'
    BY <1>3, ReaderMessage
<1>4. ASSUME NEW s \in Sessions, AS!InvalidLength(s)
      PROVE  ReadTypes' /\ ReadInv'
    <2>1. /\ rd' = [rd EXCEPT ![s] = "none"] /\ UNCHANGED <<sent, inbox, node>>
          /\ Continue(Acceptor, "run", NoSession)
        BY <1>4 DEF AS!InvalidLength, AS!Return, AS!Continue, Continue, AS!clientVars
    <2>2. \A x \in Sessions, u \in Threads : InHandler(u, x)' => InHandler(u, x)
        BY <1>1, <2>1, LeavesHandler DEF ProgramPCs, PCs
    <2>3. QED
        BY <2>1, <2>2, ReaderStops
<1>5. ASSUME RL!SendReply \/ AS!ReadSome
      PROVE  ReadTypes' /\ ReadInv'
    <2>1. PICK s \in Sessions : InHandler(Acceptor, s) /\ cur[Acceptor] = s
        BY <1>1, <1>5 DEF RL!SendReply, AS!ReadSome, ThreadInv, Busy, InHandler
    <2>2. /\ rd' = [rd EXCEPT ![s] = "head"] /\ UNCHANGED <<sent, inbox, node>>
          /\ Continue(Acceptor, "run", NoSession)
        BY <1>5, <2>1 DEF RL!SendReply, RL!Return, RL!Continue, RL!clientVars, AS!ReadSome, AS!Return,
               AS!Continue, AS!clientVars, Continue
    <2>3. \A x \in Sessions, u \in Threads : InHandler(u, x)' => x # s /\ InHandler(u, x)
        BY <1>1, <2>1, <2>2, BeforeRead, LeavesHandler DEF ProgramPCs, PCs
    <2>4. QED
        BY <1>1, <2>1, <2>2, <2>3, BeforeRead, ReaderReadsOn
<1>6. ASSUME AS!SendReply
      PROVE  ReadTypes' /\ ReadInv'
    <2>1. /\ Continue(Acceptor, "loop", cur[Acceptor]) /\ pc[Acceptor] = "send"
          /\ UNCHANGED <<sent, inbox, rd, node>>
        BY <1>6 DEF AS!SendReply, AS!Continue, Continue, AS!clientVars
    <2>2. \A x \in Sessions, u \in Threads : InHandler(u, x)' => InHandler(u, x)
        BY <1>1, <2>1, HandlerAfter DEF InHandler
    <2>3. QED
        BY <2>1, <2>2, ReaderQuiet
<1>7. QED
    BY <1>2, <1>3, <1>4, <1>5, <1>6 DEF HandRest, HandHandled

LEMMA ReadStepBytes ==
    ASSUME ReadInvs, WriteInv, ReplyTypes, RepliesTaken, program' = program, SocketsKept,
           program \in ByteServers, NEW s \in Sessions, ByteHandled(s)
    PROVE  ReadTypes' /\ ReadInv'
<1>1. UNCHANGED threadVars
    BY DEF ByteHandled, RE!ReadThenWrite, RE!WriteGoesOn, RE!WriteThenRead, RE!ReadFails, RE!WriteFails,
           OpenedAndNext, RE!threadVars, threadVars
<1>2. \A x \in Sessions, u \in Threads : InHandler(u, x)' => InHandler(u, x)
    BY <1>1 DEF InHandler, threadVars
<1>3. \A x \in Sessions, u \in Threads : ~InHandler(u, x)
    BY DEF ReadInvs, ThreadInv, Busy, InHandler
<1>4. CASE RE!ReadThenWrite(s)
    BY <1>4, ReaderChunk
<1>5. CASE RE!WriteThenRead(s)
    <2>1. /\ writes[s] # <<>> /\ rd' = [rd EXCEPT ![s] = "head"] /\ UNCHANGED <<sent, inbox, node>>
        BY <1>5 DEF RE!WriteThenRead, RE!WriteSome, RE!clientVars
    <2>2. Reader(s) /\ Taken(s) > 0
        BY <2>1 DEF ReadInvs, ReadInv, WriteInv, RepliesTaken
    <2>3. sock[s] \notin Unstarted /\ Len(node[s]) = Taken(s)
        BY <2>2 DEF Reader, NodesCounted
    <2>4. QED
        BY <1>2, <1>3, <2>1, <2>3, ReaderReadsOn
<1>6. CASE RE!ReadFails(s)
    BY <1>2, <1>6, ReaderStops DEF RE!ReadFails, RE!clientVars
<1>7. CASE RE!WriteGoesOn(s) \/ RE!WriteFails(s)
    BY <1>2, <1>7, ReaderQuiet DEF RE!WriteGoesOn, RE!WriteFails, RE!clientVars
<1>8. CASE OpenedAndNext(s)
    <2>1. /\ sock[s] = "accepting" /\ NextAccept([sock EXCEPT ![s] = "open"])
          /\ rd' = [rd EXCEPT ![s] = "head"] /\ UNCHANGED <<sent, inbox, node>>
        BY <1>8 DEF OpenedAndNext, clientVars
    <2>2. [sock EXCEPT ![s] = "open"] \in [Sessions -> SockStates] /\ [sock EXCEPT ![s] = "open"][s] = "open"
        BY DEF ReadInvs, SocketTypes, SockStates
    <2>3. sock'[s] = "open"
        BY <2>1, <2>2, NextAcceptSockets
    <2>4. QED
        BY <1>2, <2>1, <2>3, ReaderOpens
<1>9. QED
    BY <1>4, <1>5, <1>6, <1>7, <1>8 DEF ByteHandled

LEMMA ReadStep ==
    ASSUME ReadInvs, WriteInv, ReplyTypes, RepliesTaken, SocketsKept, Step, program' = program
    PROVE  ReadTypes' /\ ReadInv'
<1>1. ASSUME NEW s \in Sessions, ClientOf(s) \/ Refused(s)
      PROVE  ReadTypes' /\ ReadInv'
    <2>1. UNCHANGED threadVars
        BY <1>1 DEF ClientOf, Connect, Leave, Request, Refused
    <2>2. CASE ClientOf(s)
        BY <2>1, <2>2, ReaderRequest
    <2>3. CASE Refused(s)
        BY <2>1, <2>3, ReaderQuiet DEF Refused, InHandler, threadVars
    <2>4. QED
        BY <1>1, <2>2, <2>3
<1>2. ASSUME NEW t \in Threads, Ended(t)
      PROVE  ReadTypes' /\ ReadInv'
    <2>1. UNCHANGED <<sent, inbox, rd, node>>
        BY <1>2 DEF Ended, dataVars, clientVars
    <2>2. \A x \in Sessions, u \in Threads : InHandler(u, x)' => InHandler(u, x)
        <3>1. ThreadInv /\ Acceptor \in Threads
            BY Threading DEF ReadInvs
        <3>2. CASE UNCHANGED threadVars
            BY <3>2 DEF InHandler, threadVars
        <3>3. CASE ~UNCHANGED threadVars
            <4>1. \E u \in Threads, at \in {"returned", "stop", "terminated"} : Continue(u, at, NoSession)
                BY <1>2, <3>1, <3>3 DEF Ended
            <4>2. QED
                BY <3>1, <4>1, LeavesHandler DEF ProgramPCs, PCs
        <3>4. QED
            BY <3>2, <3>3
    <2>3. QED
        BY <2>1, <2>2, ReaderQuiet
<1>3. QED
    BY <1>1, <1>2, ReadStepHandled, ReadStepRest, ReadStepHand, ReadStepBytes DEF Step, Logic, ByteServers
-----------------------------------------------------------------------------
(***************************************************************************)
(* The replies of a session, written or still in the queue, go up: each is *)
(* for a request with a callback that was taken, below those that wait in  *)
(* msgQue or that a handler is about to send.                              *)
(***************************************************************************)
Replied(s) == written[s] \o sendQue[s]

Sending(t, s) == cur[t] = s /\ pc[t] = "send"

RepliesRise(s) ==
    /\ \A i, j \in 1 .. Len(Replied(s)) : i < j => Replied(s)[i] < Replied(s)[j]
    /\ \A i \in 1 .. Len(Replied(s)) :
          /\ Replied(s)[i] \in 1 .. Taken(s)
          /\ node[s][Replied(s)[i]].id = "hello"
          /\ \A j \in 1 .. Len(msgQue) : msgQue[j][1] = s => Replied(s)[i] < msgQue[j][2]
          /\ \A t \in Threads : Sending(t, s) => Replied(s)[i] < Taken(s)

QueueRises(s) ==
    /\ \A j \in 1 .. Len(msgQue) : msgQue[j][1] = s => msgQue[j][2] \in 1 .. Taken(s)
    /\ \A i, j \in 1 .. Len(msgQue) :
          i < j /\ msgQue[i][1] = s /\ msgQue[j][1] = s => msgQue[i][2] < msgQue[j][2]
    /\ \A t \in Threads : Sending(t, s) => Taken(s) > 0

OrderInv ==
    /\ program \notin Logic => msgQue = <<>>
    /\ \A s \in Sessions : RepliesRise(s) /\ QueueRises(s)

\* What every step does to the requests that were taken.
Grows(s) ==
    /\ Taken(s)' \in Nat /\ Taken(s) \in Nat
    /\ Taken(s) <= Taken(s)'
    /\ \A i \in 1 .. Taken(s) : node'[s][i].id = node[s][i].id
    /\ \A t \in Threads : Sending(t, s)' => Sending(t, s) \/ Taken(s) < Taken(s)'

LEMMA OrderInit == ProgramInit => OrderInv
<1> SUFFICES ASSUME ProgramInit
             PROVE  OrderInv
    OBVIOUS
<1>1. msgQue = <<>> /\ Len(msgQue) = 0
    BY DEF ProgramInit, Init
<1>2. ASSUME NEW s \in Sessions
      PROVE  RepliesRise(s) /\ QueueRises(s)
    <2>1. Replied(s) = <<>> /\ Len(Replied(s)) = 0
        BY DEF ProgramInit, Init, Replied
    <2>2. \A t \in Threads : ~Sending(t, s)
        BY DEF ProgramInit, Init, Sending
    <2>3. RepliesRise(s)
        BY <2>1 DEF RepliesRise
    <2>4. QueueRises(s)
        BY <1>1, <2>2 DEF QueueRises
    <2>5. QED
        BY <2>3, <2>4
<1>3. QED
    BY <1>1, <1>2 DEF OrderInv

\* The queue keeps the entries of a session, the first d of all entries have left it.
Shifted(s, d) ==
    \A j \in 1 .. Len(msgQue') : msgQue'[j][1] = s =>
        j + d \in 1 .. Len(msgQue) /\ msgQue'[j] = msgQue[j + d]

LEMMA QueueFrame ==
    ASSUME NEW s \in Sessions, NEW d \in Nat, QueueRises(s), Grows(s), Shifted(s, d),
           Len(msgQue) \in Nat, Len(msgQue') \in Nat,
           \A j \in 1 .. Len(msgQue) : msgQue[j][2] \in Nat
    PROVE  QueueRises(s)'
<1>1. \A j \in 1 .. Len(msgQue') : msgQue'[j][1] = s => msgQue'[j][2] \in 1 .. Taken(s)'
    <2> SUFFICES ASSUME NEW j \in 1 .. Len(msgQue'), msgQue'[j][1] = s
                 PROVE  msgQue'[j][2] \in 1 .. Taken(s)'
        OBVIOUS
    <2>1. j + d \in 1 .. Len(msgQue) /\ msgQue'[j] = msgQue[j + d]
        BY DEF Shifted
    <2>2. msgQue[j + d][2] \in 1 .. Taken(s)
        BY <2>1 DEF QueueRises
    <2>3. QED
        BY <2>1, <2>2 DEF Grows
<1>2. \A i, j \in 1 .. Len(msgQue') :
          i < j /\ msgQue'[i][1] = s /\ msgQue'[j][1] = s => msgQue'[i][2] < msgQue'[j][2]
    <2> SUFFICES ASSUME NEW i \in 1 .. Len(msgQue'), NEW j \in 1 .. Len(msgQue'), i < j,
                        msgQue'[i][1] = s, msgQue'[j][1] = s
                 PROVE  msgQue'[i][2] < msgQue'[j][2]
        OBVIOUS
    <2>1. /\ i + d \in 1 .. Len(msgQue) /\ msgQue'[i] = msgQue[i + d]
          /\ j + d \in 1 .. Len(msgQue) /\ msgQue'[j] = msgQue[j + d]
        BY DEF Shifted
    <2>2. i + d < j + d
        OBVIOUS
    <2>3. QED
        BY <2>1, <2>2 DEF QueueRises
<1>3. \A t \in Threads : Sending(t, s)' => Taken(s)' > 0
    BY DEF Grows, QueueRises
<1>4. QED
    BY <1>1, <1>2, <1>3 DEF QueueRises

LEMMA RepliesFrame ==
    ASSUME NEW s \in Sessions, NEW d \in Nat, RepliesRise(s), Grows(s), Shifted(s, d), Replied(s)' = Replied(s)
    PROVE  RepliesRise(s)'
<1>1. \A i \in 1 .. Len(Replied(s)) : Replied(s)[i] \in 1 .. Taken(s)' /\ node'[s][Replied(s)[i]].id = "hello"
    BY DEF RepliesRise, Grows
<1>2. ASSUME NEW i \in 1 .. Len(Replied(s)), NEW j \in 1 .. Len(msgQue'), msgQue'[j][1] = s
      PROVE  Replied(s)[i] < msgQue'[j][2]
    <2>1. j + d \in 1 .. Len(msgQue) /\ msgQue'[j] = msgQue[j + d]
        BY <1>2 DEF Shifted
    <2>2. QED
        BY <1>2, <2>1 DEF RepliesRise
<1>3. ASSUME NEW i \in 1 .. Len(Replied(s)), NEW t \in Threads, Sending(t, s)'
      PROVE  Replied(s)[i] < Taken(s)'
    <2>1. Replied(s)[i] \in 1 .. Taken(s)
        BY DEF RepliesRise
    <2>2. CASE Sending(t, s)
        BY <2>1, <2>2 DEF RepliesRise, Grows
    <2>3. CASE Taken(s) < Taken(s)'
        BY <2>1, <2>3 DEF Grows
    <2>4. QED
        BY <1>3, <2>2, <2>3 DEF Grows
<1>4. QED
    BY <1>1, <1>2, <1>3 DEF RepliesRise

\* A reply that is not below those before it, and below what waits behind it.
LEMMA RepliesSend ==
    ASSUME NEW s \in Sessions, NEW d \in Nat, RepliesRise(s), Grows(s), Shifted(s, d),
           NEW r \in 1 .. Taken(s), node[s][r].id = "hello",
           Replied(s) \in Seq(Requests), Replied(s)' = Append(Replied(s), r),
           \A i \in 1 .. Len(Replied(s)) : Replied(s)[i] < r,
           \A j \in 1 .. Len(msgQue') : msgQue'[j][1] = s => r < msgQue'[j][2],
           \A t \in Threads : ~Sending(t, s)'
    PROVE  RepliesRise(s)'
<1> DEFINE last == Len(Replied(s)) + 1
<1>1. r \in Nat
    BY DEF Grows
<1>2. /\ Len(Replied(s)) \in Nat /\ Len(Replied(s)') = last
      /\ \A i \in 1 .. Len(Replied(s)) : Replied(s)'[i] = Replied(s)[i]
      /\ Replied(s)'[last] = r
    <2> DEFINE q == Replied(s)
    <2>1. q \in Seq(Requests) /\ Replied(s)' = Append(q, r)
        OBVIOUS
    <2>2. Requests \subseteq Nat
        BY DEF Requests
    <2> HIDE DEF q
    <2>3. q \in Seq(Nat)
        <3>1. Len(q) \in Nat /\ q = [i \in 1 .. Len(q) |-> q[i]] /\ \A i \in 1 .. Len(q) : q[i] \in Nat
            BY <2>1, <2>2
        <3> DEFINE n == Len(q)
        <3> HIDE DEF n
        <3>2. q = [i \in 1 .. n |-> q[i]] /\ n \in Nat /\ \A i \in 1 .. n : q[i] \in Nat
            BY <3>1 DEF n
        <3>3. q \in [1 .. n -> Nat]
            BY <3>2
        <3>4. QED
            BY <3>2, <3>3
    <2>4. /\ Len(q) \in Nat /\ Len(Append(q, r)) = Len(q) + 1
          /\ \A i \in 1 .. Len(q) : Append(q, r)[i] = q[i]
          /\ Append(q, r)[Len(q) + 1] = r
        BY <1>1, <2>3, Appended
    <2>5. QED
        BY <2>1, <2>4 DEF q
<1> HIDE DEF last
<1>3. \A i \in 1 .. last : i \in 1 .. Len(Replied(s)) \/ i = last
    BY <1>2 DEF last
<1>4. \A i, j \in 1 .. last : i < j => Replied(s)'[i] < Replied(s)'[j]
    <2> SUFFICES ASSUME NEW i \in 1 .. last, NEW j \in 1 .. last, i < j
                 PROVE  Replied(s)'[i] < Replied(s)'[j]
        OBVIOUS
    <2>1. i \in 1 .. Len(Replied(s))
        BY <1>2 DEF last
    <2>2. CASE j = last
        BY <1>2, <2>1, <2>2
    <2>3. CASE j # last
        BY <1>2, <1>3, <2>1, <2>3 DEF RepliesRise
    <2>4. QED
        BY <2>2, <2>3
<1>5. \A i \in 1 .. last : Replied(s)'[i] \in 1 .. Taken(s)' /\ node'[s][Replied(s)'[i]].id = "hello"
    <2> SUFFICES ASSUME NEW i \in 1 .. last
                 PROVE  Replied(s)'[i] \in 1 .. Taken(s)' /\ node'[s][Replied(s)'[i]].id = "hello"
        OBVIOUS
    <2>1. Replied(s)'[i] \in 1 .. Taken(s) /\ node[s][Replied(s)'[i]].id = "hello"
        <3>1. CASE i = last
            BY <1>2, <3>1
        <3>2. CASE i # last
            BY <1>2, <1>3, <3>2 DEF RepliesRise
        <3>3. QED
            BY <3>1, <3>2
    <2>2. node'[s][Replied(s)'[i]].id = node[s][Replied(s)'[i]].id
        BY <2>1 DEF Grows
    <2>3. Taken(s) <= Taken(s)' /\ Taken(s) \in Nat /\ Taken(s)' \in Nat
        BY DEF Grows
    <2>4. Replied(s)'[i] \in 1 .. Taken(s)'
        <3>1. PICK v : v = Replied(s)'[i]
            OBVIOUS
        <3>2. PICK a, b : a = Taken(s) /\ b = Taken(s)'
            OBVIOUS
        <3>3. v \in 1 .. a /\ a <= b /\ a \in Nat /\ b \in Nat
            BY <2>1, <2>3, <3>1, <3>2, Zenon
        <3>4. v \in 1 .. b
            BY <3>3
        <3>5. QED
            BY <3>1, <3>2, <3>4, Zenon
    <2>5. QED
        BY <2>1, <2>2, <2>4
<1>6. ASSUME NEW i \in 1 .. last, NEW j \in 1 .. Len(msgQue'), msgQue'[j][1] = s
      PROVE  Replied(s)'[i] < msgQue'[j][2]
    <2>1. CASE i = last
        BY <1>2, <1>6, <2>1
    <2>2. CASE i # last
        <3>1. i \in 1 .. Len(Replied(s)) /\ Replied(s)'[i] = Replied(s)[i]
            BY <1>2, <1>3, <2>2
        <3>2. j + d \in 1 .. Len(msgQue) /\ msgQue'[j] = msgQue[j + d]
            BY <1>6 DEF Shifted
        <3>3. QED
            BY <1>6, <3>1, <3>2 DEF RepliesRise
    <2>3. QED
        BY <2>1, <2>2
<1>7. QED
    BY <1>2, <1>4, <1>5, <1>6 DEF RepliesRise

\* Steps that take no request.
LEMMA GrowsQuiet ==
    ASSUME ReadInvs, UNCHANGED <<sent, inbox>>,
           \/ node' = node
           \/ \E s \in Sessions, n \in Node : node' = [node EXCEPT ![s] = Append(node[s], n)],
           \A x \in Sessions, t \in Threads : Sending(t, x)' => Sending(t, x)
    PROVE  \A x \in Sessions : Grows(x)
<1> SUFFICES ASSUME NEW x \in Sessions
             PROVE  Grows(x)
    OBVIOUS
<1>1. /\ Reader(x) /\ sent[x] \in Nat /\ inbox[x] \in Seq(Message) /\ node[x] \in Seq(Node)
    BY BoundsAssumption DEF ReadInvs, ReadInv, ReadTypes
<1>2. Taken(x) \in Nat /\ Taken(x)' = Taken(x) /\ Taken(x) <= Len(node[x]) /\ Len(node[x]) \in Nat
    BY <1>1 DEF Reader, NodesFilled, Taken
<1>3. \A i \in 1 .. Taken(x) : node'[x][i].id = node[x][i].id
    <2>1. CASE node'[x] = node[x]
        BY <2>1
    <2>2. CASE node'[x] # node[x]
        <3>1. PICK s \in Sessions, n \in Node : node' = [node EXCEPT ![s] = Append(node[s], n)]
            BY <2>2
        <3>2. node'[x] = Append(node[x], n)
            BY <2>2, <3>1 DEF ReadInvs, ReadTypes
        <3>3. \A i \in 1 .. Len(node[x]) : node'[x][i] = node[x][i]
            BY <1>1, <3>2, Appended
        <3>4. QED
            BY <1>2, <3>3
    <2>3. QED
        BY <2>1, <2>2
<1>4. QED
    BY <1>2, <1>3 DEF Grows

\* Steps that take requests of one session.
LEMMA GrowsTaking ==
    ASSUME ReadInvs, NEW s \in Sessions, NEW k \in Nat \ {0}, Taken(s)' = Taken(s) + k,
           \A i \in 1 .. Taken(s) : node'[s][i].id = node[s][i].id,
           \A x \in Sessions \ {s} :
              /\ sent'[x] = sent[x] /\ inbox'[x] = inbox[x] /\ node'[x] = node[x]
              /\ \A t \in Threads : Sending(t, x)' => Sending(t, x)
    PROVE  \A x \in Sessions : Grows(x)
<1> SUFFICES ASSUME NEW x \in Sessions
             PROVE  Grows(x)
    OBVIOUS
<1>1. Reader(x) /\ sent[x] \in Nat /\ inbox[x] \in Seq(Message)
    BY BoundsAssumption DEF ReadInvs, ReadInv, ReadTypes
<1>2. Taken(x) \in Nat
    BY <1>1 DEF Reader, NodesFilled, Taken
<1>3. CASE x = s
    BY <1>2, <1>3 DEF Grows
<1>4. CASE x # s
    <2>1. Taken(x)' = Taken(x)
        BY <1>4 DEF Taken
    <2>2. QED
        BY <1>2, <1>4, <2>1 DEF Grows
<1>5. QED
    BY <1>3, <1>4

LEMMA SendersAfter ==
    ASSUME ThreadInv, NEW t \in Threads, NEW at, NEW w, Continue(t, at, w)
    PROVE  /\ \A x \in Sessions, u \in Threads :
                 Sending(u, x)' <=> IF u = t THEN w = x /\ at = "send" ELSE Sending(u, x)
           /\ at # "send" => \A x \in Sessions, u \in Threads : Sending(u, x)' => Sending(u, x)
BY DEF ThreadInv, Continue, Sending

LEMMA GrowsHandled ==
    ASSUME ReadInvs, program' = program, SocketsKept, NEW t \in Threads, NEW s \in Sessions,
           program \notin ByteServers,
           Handled(t, s) \/ IT!On(t)!MsgRead(t, s) \/ ThreadHandled(t, s)
    PROVE  \A x \in Sessions : Grows(x)
<1> DEFINE Goal == \A x \in Sessions : Grows(x)
<1>1. ThreadInv
    BY DEF ReadInvs
<1>2. ASSUME NEW at, NEW w, at # "send", Continue(t, at, w) \/ UNCHANGED threadVars
      PROVE  \A x \in Sessions, u \in Threads : Sending(u, x)' => Sending(u, x)
    BY <1>1, <1>2, SendersAfter DEF Sending, threadVars
<1>3. ASSUME UNCHANGED <<sent, inbox, node>>, NEW at, NEW w, at # "send",
             Continue(t, at, w) \/ UNCHANGED threadVars
      PROVE  Goal
    BY <1>2, <1>3, GrowsQuiet
<1>4. ASSUME IT!On(t)!HeadRead(t, s)
      PROVE  Goal
    <2>1. UNCHANGED <<sent, inbox, threadVars>> /\ inbox[s] # <<>>
        BY <1>4 DEF IT!On!HeadRead, IT!On!clientVars, IT!On!threadVars, threadVars
    <2>2. CASE node' = node
        <3>1. \A x \in Sessions, u \in Threads : Sending(u, x)' => Sending(u, x)
            BY <2>1 DEF Sending, threadVars
        <3>2. QED
            BY <2>1, <2>2, <3>1, GrowsQuiet
    <2>3. CASE node' # node
        <3>1. node' = [node EXCEPT ![s] = Append(node[s], [id |-> Head(inbox[s]).id, req |-> 0])]
            BY <1>4, <2>3 DEF IT!On!HeadRead
        <3>2. Head(inbox[s]) \in Message
            BY <2>1, HeadAndTail DEF ReadInvs, ReadTypes
        <3>3. [id |-> Head(inbox[s]).id, req |-> 0] \in Node
            BY <3>2, BoundsAssumption DEF Message, Node
        <3>4. \A x \in Sessions, u \in Threads : Sending(u, x)' => Sending(u, x)
            BY <2>1 DEF Sending, threadVars
        <3>5. QED
            BY <2>1, <3>1, <3>3, <3>4, GrowsQuiet
    <2>4. QED
        BY <2>2, <2>3
<1>5. ASSUME IT!On(t)!MsgRead(t, s)
      PROVE  Goal
    <2>1. /\ pc[t] = "run" /\ Continue(t, "rearm", s) /\ rd[s] = "body" /\ inbox[s] # <<>>
          /\ rd' = [rd EXCEPT ![s] = "none"] /\ sent' = sent
          /\ inbox' = [inbox EXCEPT ![s] = Tail(inbox[s])]
          /\ node' = [node EXCEPT ![s] = [node[s] EXCEPT ![Len(node[s])] =
                        [id |-> node[s][Len(node[s])].id, req |-> Head(inbox[s]).req]]]
        BY <1>5 DEF IT!On!MsgRead, IT!On!Reading, IT!On!Free, IT!On!Continue, Continue
    <2>2. /\ Taken(s)' = Taken(s) + 1 /\ Len(node[s]) = Taken(s) + 1 /\ Taken(s) \in Nat
          /\ \A i \in 1 .. Len(node[s]) : node'[s][i].id = node[s][i].id
        BY <2>1, ReaderBody
    <2>3. \A i \in 1 .. Taken(s) : node'[s][i].id = node[s][i].id
        BY <2>2
    <2>4. \A x \in Sessions \ {s} : sent'[x] = sent[x] /\ inbox'[x] = inbox[x] /\ node'[x] = node[x]
        BY <2>1 DEF ReadInvs, ReadTypes
    <2>5. QED
        BY <1>2, <2>1, <2>2, <2>3, <2>4, GrowsTaking
<1> HIDE DEF Goal
<1>6. ASSUME IT!On(t)!AcceptStart(s) \/ IT!On(t)!ReadError(t, s) \/ IT!On(t)!WriteDone(t, s)
               \/ IT!On(t)!WriteError(t, s)
      PROVE  Goal
    BY <1>3, <1>6 DEF IT!On!AcceptStart, IT!On!ReadError, IT!On!WriteDone, IT!On!WriteError,
           IT!On!Continue, IT!On!clientVars, IT!On!threadVars, Continue, threadVars
<1>7. ASSUME IT!InvalidHead(t, s) \/ IT!WriteFails(t, s)
      PROVE  Goal
    BY <1>3, <1>7 DEF IT!InvalidHead, IT!WriteFails, IT!Continue, IT!clientVars, Continue
<1>8. QED
    BY <1>4, <1>5, <1>6, <1>7 DEF Handled, ThreadHandled, Goal

LEMMA GrowsHand ==
    ASSUME ReadInvs, program' = program, SocketsKept, NEW s \in Sessions, HandHandled(s)
    PROVE  \A x \in Sessions : Grows(x)
<1>1. ThreadInv /\ Acceptor \in Threads
    BY Threading DEF ReadInvs
<1>2. CASE program = "readAtLeastServer" /\ RL!MsgComplete(s)
    <2>1. Reader(s) /\ node[s] \in Seq(Node) /\ rd[s] = "body" /\ inbox[s] # <<>> /\ pc[Acceptor] = "run"
        BY <1>2 DEF ReadInvs, ReadInv, ReadTypes, RL!MsgComplete, RL!Io!Reading, RL!Io!Free
    <2>2. node[s][Len(node[s])] \in Node
        <3>1. inbox[s] \in Seq(Message) /\ sent[s] \in Nat
            BY BoundsAssumption DEF ReadInvs, ReadTypes
        <3>2. Taken(s) \in Nat /\ Len(node[s]) = Taken(s) + 1
            BY <2>1, <3>1 DEF Reader, NodesFilled, NodesCounted, Taken
        <3>3. Len(node[s]) \in 1 .. Len(node[s])
            BY <3>2
        <3>4. QED
            BY <2>1, <3>3
    <2>3. [node[s][Len(node[s])] EXCEPT !.req = Head(inbox[s]).req]
            = [id |-> node[s][Len(node[s])].id, req |-> Head(inbox[s]).req]
        BY <2>2 DEF Node
    <2>4. /\ Continue(Acceptor, "send", s)
          /\ rd' = [rd EXCEPT ![s] = "none"] /\ sent' = sent
          /\ inbox' = [inbox EXCEPT ![s] = Tail(inbox[s])]
          /\ node' = [node EXCEPT ![s] = [node[s] EXCEPT ![Len(node[s])] =
                        [node[s][Len(node[s])] EXCEPT !.req = Head(inbox[s]).req]]]
        BY <1>2 DEF RL!MsgComplete, RL!Continue, Continue
    <2>5. /\ Taken(s)' = Taken(s) + 1 /\ Len(node[s]) = Taken(s) + 1 /\ Taken(s) \in Nat
          /\ \A i \in 1 .. Len(node[s]) : node'[s][i].id = node[s][i].id
        BY <1>1, <1>2, <2>1, <2>3, <2>4, ReaderBody DEF ByteServers
    <2>6. \A i \in 1 .. Taken(s) : node'[s][i].id = node[s][i].id
        BY <2>5
    <2>7. \A x \in Sessions \ {s} : sent'[x] = sent[x] /\ inbox'[x] = inbox[x] /\ node'[x] = node[x]
        BY <2>4 DEF ReadInvs, ReadTypes
    <2>8. \A x \in Sessions \ {s}, u \in Threads : Sending(u, x)' => Sending(u, x)
        BY <1>1, <2>4, SendersAfter
    <2>9. 1 \in Nat \ {0}
        OBVIOUS
    <2>10. QED
        BY <2>5, <2>6, <2>7, <2>8, <2>9, GrowsTaking
<1>3. CASE program = "asyncServer" /\ AS!TakeMessage(s)
    <2>1. /\ Taken(s)' = Taken(s) + 1 /\ Taken(s) \in Nat
          /\ Len(node[s]) = Taken(s) /\ node'[s] = Append(node[s], Head(inbox[s]))
        BY <1>3, ReaderMessage
    <2>2. Head(inbox[s]) \in Node
        <3>1. Head(inbox[s]) \in Message
            BY <1>3, HeadAndTail DEF ReadInvs, ReadTypes, AS!TakeMessage
        <3>2. QED
            BY <3>1, BoundsAssumption DEF Message, Node, Requests
    <2>3. node[s] \in Seq(Node)
        BY DEF ReadInvs, ReadTypes
    <2>4. \A i \in 1 .. Taken(s) : node'[s][i] = node[s][i]
        BY <2>1, <2>2, <2>3, Appended
    <2>5. \A x \in Sessions \ {s} : sent'[x] = sent[x] /\ inbox'[x] = inbox[x] /\ node'[x] = node[x]
        BY <1>3 DEF ReadInvs, ReadTypes, AS!TakeMessage
    <2>6. Continue(Acceptor, "send", s)
        BY <1>3 DEF AS!TakeMessage, AS!Continue, Continue
    <2>7. \A x \in Sessions \ {s}, u \in Threads : Sending(u, x)' => Sending(u, x)
        BY <1>1, <2>6, SendersAfter
    <2>8. \A i \in 1 .. Taken(s) : node'[s][i].id = node[s][i].id
        BY <2>4
    <2>9. 1 \in Nat \ {0}
        OBVIOUS
    <2>10. QED
        BY <2>1, <2>5, <2>7, <2>8, <2>9, GrowsTaking
<1>4. CASE AS!InvalidLength(s)
    <2>1. Continue(Acceptor, "run", NoSession)
        BY <1>4 DEF AS!InvalidLength, AS!Return, AS!Continue, Continue
    <2>2. UNCHANGED <<sent, inbox>> /\ node' = node
        BY <1>4 DEF AS!InvalidLength, AS!clientVars
    <2>3. \A x \in Sessions, u \in Threads : Sending(u, x)' => Sending(u, x)
        BY <1>1, <2>1, SendersAfter
    <2>4. QED
        BY <2>2, <2>3, GrowsQuiet
<1>5. QED
    BY <1>2, <1>3, <1>4 DEF HandHandled

LEMMA GrowsBytes ==
    ASSUME ReadInvs, ReplyTypes, program' = program, SocketsKept, program \in ByteServers,
           NEW s \in Sessions, ByteHandled(s)
    PROVE  \A x \in Sessions : Grows(x)
<1>1. \A x \in Sessions, u \in Threads : Sending(u, x)' => Sending(u, x)
    BY DEF ByteHandled, RE!ReadThenWrite, RE!WriteGoesOn, RE!WriteThenRead, RE!ReadFails, RE!WriteFails,
           OpenedAndNext, RE!threadVars, threadVars, Sending
<1>2. CASE RE!ReadThenWrite(s)
    <2>1. PICK k \in Nat \ {0} : Taken(s)' = Taken(s) + k
        BY <1>2, ReaderChunk
    <2>2. ReadInv /\ ReadInv' /\ ReadTypes /\ ReadTypes'
        BY <1>2, ReaderChunk DEF ReadInvs
    <2>3. Taken(s) \in Nat /\ Taken(s) <= Len(node[s]) /\ Taken(s) <= Len(node'[s])
        BY <2>1, <2>2, BoundsAssumption DEF ReadInv, ReadTypes, Reader, NodesFilled, Taken
    <2>4. \A i \in 1 .. Taken(s) : node[s][i].id = "hello" /\ node'[s][i].id = "hello"
        <3>1. program \notin Logic
            BY DEF Logic, ByteServers
        <3>2. /\ Len(node[s]) \in Nat /\ \A i \in 1 .. Len(node[s]) : node[s][i].id = "hello"
              /\ Len(node'[s]) \in Nat /\ \A i \in 1 .. Len(node'[s]) : node'[s][i].id = "hello"
            BY <2>2, <3>1 DEF ReadInv, ReadTypes, Reader, KindsKnown
        <3>3. QED
            BY <2>3, <3>2
    <2>5. \A x \in Sessions \ {s} : sent'[x] = sent[x] /\ inbox'[x] = inbox[x] /\ node'[x] = node[x]
        BY <1>2 DEF ReadInvs, ReadTypes, RE!ReadThenWrite
    <2>6. QED
        BY <1>1, <2>1, <2>4, <2>5, GrowsTaking
<1>3. CASE ~RE!ReadThenWrite(s)
    BY <1>1, <1>3, GrowsQuiet
       DEF ByteHandled, RE!WriteGoesOn, RE!WriteThenRead, RE!ReadFails, RE!WriteFails, OpenedAndNext,
           RE!clientVars, clientVars
<1>4. QED
    BY <1>2, <1>3

LEMMA GrowsStep ==
    ASSUME ReadInvs, ReplyTypes, SocketsKept, Step, program' = program
    PROVE  \A x \in Sessions : Grows(x)
<1> DEFINE Goal == \A x \in Sessions : Grows(x)
<1>1. ThreadInv /\ Acceptor \in Threads
    BY Threading DEF ReadInvs
<1>2. ASSUME NEW t \in Threads, NEW at, NEW w, at # "send", Continue(t, at, w) \/ UNCHANGED threadVars,
             UNCHANGED <<sent, inbox, node>>
      PROVE  Goal
    BY <1>1, <1>2, GrowsQuiet, SendersAfter DEF Sending, threadVars
<1>3. ASSUME NEW s \in Sessions, ClientOf(s)
      PROVE  Goal
    <2>1. UNCHANGED <<node, threadVars>>
        BY <1>3 DEF ClientOf, Connect, Leave, Request
    <2>2. CASE UNCHANGED <<sent, inbox>>
        BY <1>1, <1>2, <2>1, <2>2
    <2>3. ASSUME NEW k \in Sendable \cap Sent, Request(s, k)
          PROVE  Goal
        <3> SUFFICES ASSUME NEW x \in Sessions
                     PROVE  Grows(x)
            OBVIOUS
        <3> DEFINE m == [id |-> k, req |-> sent[s] + 1]
        <3>1. /\ inbox[x] \in Seq(Message) /\ sent[x] \in Nat /\ sent[s] \in Nat
              /\ sent[s] < MaxRequests /\ Reader(x)
            BY <2>3, BoundsAssumption DEF ReadInvs, ReadTypes, ReadInv, Request
        <3>2. m \in Message
            BY <3>1, SentAssumption, BoundsAssumption DEF Message, Requests
        <3>3. /\ sent' = [sent EXCEPT ![s] = sent[s] + 1]
              /\ inbox' = [inbox EXCEPT ![s] = Append(inbox[s], m)]
            BY <2>3 DEF Request
        <3> HIDE DEF m
        <3>4. Len(Append(inbox[x], m)) = Len(inbox[x]) + 1 /\ Len(inbox[x]) \in Nat
            BY <3>1, <3>2, Appended
        <3>5. Taken(x)' = Taken(x) /\ Taken(x) \in Nat
            BY <3>1, <3>3, <3>4 DEF Taken, ReadInvs, ReadTypes, Reader, NodesFilled
        <3>6. \A t \in Threads : Sending(t, x)' => Sending(t, x)
            BY <2>1 DEF Sending, threadVars
        <3>7. QED
            BY <2>1, <3>5, <3>6 DEF Grows
    <2>4. QED
        BY <1>3, <2>2, <2>3 DEF ClientOf, Connect, Leave
<1> HIDE DEF Goal
<1>4. ASSUME NEW s \in Sessions, Refused(s)
      PROVE  Goal
    BY <1>1, <1>2, <1>4 DEF Refused
<1>5. ASSUME NEW t \in Threads, Rest(t) \/ IT!On(t)!Dispatch
      PROVE  Goal
    BY <1>2, <1>5
       DEF Rest, IT!On!ReadHeadAgain, IT!On!ClearSession, Inserted, Return, Continue, IT!On!Return,
           IT!On!Continue, IT!On!Dispatch, IT!On!threadVars, threadVars, IT!On!clientVars, clientVars
<1>6. ASSUME HandRest
      PROVE  Goal
    <2>1. CASE RL!SendReply
        BY <1>1, <1>2, <2>1 DEF RL!SendReply, RL!Return, RL!Continue, Continue, RL!clientVars
    <2>2. CASE AS!SendReply
        <3>1. Continue(Acceptor, "loop", cur[Acceptor]) /\ UNCHANGED <<sent, inbox, node>>
            BY <2>2 DEF AS!SendReply, AS!Continue, Continue, AS!clientVars
        <3>2. "loop" # "send"
            OBVIOUS
        <3>3. QED
            BY <1>1, <1>2, <3>1, <3>2
    <2>3. CASE AS!ReadSome
        BY <1>1, <1>2, <2>3 DEF AS!ReadSome, AS!Return, AS!Continue, Continue, AS!clientVars
    <2>4. QED
        BY <1>6, <2>1, <2>2, <2>3 DEF HandRest
<1>7. ASSUME NEW t \in Threads, Ended(t)
      PROVE  Goal
    BY <1>1, <1>2, <1>7 DEF Ended, dataVars, clientVars
<1>8. ASSUME NEW t \in Threads, NEW s \in Sessions, program \notin ByteServers,
             Handled(t, s) \/ IT!On(t)!MsgRead(t, s) \/ ThreadHandled(t, s)
      PROVE  Goal
    BY <1>8, GrowsHandled DEF Goal
<1>9. ASSUME NEW s \in Sessions, HandHandled(s)
      PROVE  Goal
    BY <1>9, GrowsHand DEF Goal
<1>10. ASSUME NEW s \in Sessions, program \in ByteServers, ByteHandled(s)
       PROVE  Goal
    BY <1>10, GrowsBytes DEF Goal
<1>11. QED
    BY <1>3, <1>4, <1>5, <1>6, <1>7, <1>8, <1>9, <1>10 DEF Step, Goal, Logic, ByteServers
-----------------------------------------------------------------------------
(***************************************************************************)
(* What the steps do to the queues.                                        *)
(***************************************************************************)

\* A message is read and posted to the logic worker.
Queued(s) ==
    /\ UNCHANGED replyVars
    /\ msgQue' = Append(msgQue, <<s, Len(node[s])>>)
    /\ Taken(s)' = Taken(s) + 1 /\ Len(node[s]) = Taken(s) + 1

\* The handler of the two servers without a logic worker sends what it has read.
HandSent(s) ==
    /\ Sending(Acceptor, s)
    /\ Send(s, node[s][Len(node[s])].req)
    /\ \A t \in Threads : ~Sending(t, s)'
    /\ UNCHANGED <<msgQue, sent, inbox>>

\* A byte of the array is written.
ByteWritten(s) ==
    /\ writes[s] # <<>>
    /\ written' = [written EXCEPT ![s] = Append(@, Head(sendQue[s]))]
    /\ sendQue' = [sendQue EXCEPT ![s] = Tail(@)]
    /\ \/ Len(sendQue[s]) > 1 /\ writes' = writes
       \/ Len(sendQue[s]) = 1 /\ writes' = [writes EXCEPT ![s] = Tail(@)]
    /\ UNCHANGED msgQue

ReplyMove ==
    \/ UNCHANGED <<replyVars, msgQue>>
    \/ program \in Logic /\ Dispatched /\ UNCHANGED <<sent, inbox, node>>
    \/ \E s \in Sessions :
          \/ program \in Logic /\ Queued(s)
          \/ program \notin Logic /\ HandSent(s)
          \/ (ReplyWritten(s) \/ WriteFailed(s)) /\ UNCHANGED msgQue
          \/ program \in ByteServers /\ (ByteWritten(s) \/ RE!ReadThenWrite(s))

LEMMA ReplyMoves ==
    ASSUME ReadInvs, SocketsKept, Step, program' = program
    PROVE  ReplyMove
<1>1. ThreadInv /\ Acceptor \in Threads
    BY Threading DEF ReadInvs
<1>2. CASE UNCHANGED <<replyVars, msgQue>>
    BY <1>2 DEF ReplyMove
<1>3. ASSUME NEW t \in Threads, program \in Logic, IT!On(t)!Dispatch
      PROVE  ReplyMove
    <2>1. Dispatched
        BY <1>3 DEF IT!On!Dispatch, IT!On!Send, IT!On!StartWrite, IT!On!replyVars, Dispatched, Send,
               StartWrite, replyVars
    <2>2. UNCHANGED <<sent, inbox, node>>
        BY <1>3 DEF IT!On!Dispatch, IT!On!clientVars
    <2>3. QED
        BY <1>3, <2>1, <2>2 DEF ReplyMove
<1>4. ASSUME NEW t \in Threads, NEW s \in Sessions, IT!On(t)!WriteDone(t, s)
      PROVE  ReplyMove
    <2>1. ReplyWritten(s) /\ UNCHANGED msgQue
        BY <1>4 DEF IT!On!WriteDone, IT!On!StartWrite, ReplyWritten, StartWrite
    <2>2. QED
        BY <2>1 DEF ReplyMove
<1>5. ASSUME NEW t \in Threads, NEW s \in Sessions, IT!On(t)!WriteError(t, s) \/ IT!WriteFails(t, s)
      PROVE  ReplyMove
    <2>1. WriteFailed(s) /\ UNCHANGED msgQue
        BY <1>5 DEF IT!On!WriteError, IT!WriteFails, WriteFailed
    <2>2. QED
        BY <2>1 DEF ReplyMove
<1>6. ASSUME NEW t \in Threads, NEW s \in Sessions, program \in Logic, IT!On(t)!MsgRead(t, s)
      PROVE  ReplyMove
    <2>1. /\ pc[t] = "run" /\ Continue(t, "rearm", s) /\ rd[s] = "body" /\ inbox[s] # <<>>
          /\ rd' = [rd EXCEPT ![s] = "none"] /\ sent' = sent
          /\ inbox' = [inbox EXCEPT ![s] = Tail(inbox[s])]
          /\ node' = [node EXCEPT ![s] = [node[s] EXCEPT ![Len(node[s])] =
                        [id |-> node[s][Len(node[s])].id, req |-> Head(inbox[s]).req]]]
        BY <1>6 DEF IT!On!MsgRead, IT!On!Reading, IT!On!Free, IT!On!Continue, Continue
    <2>2. Taken(s)' = Taken(s) + 1 /\ Len(node[s]) = Taken(s) + 1
        BY <1>6, <2>1, ReaderBody DEF Logic, ByteServers
    <2>3. UNCHANGED replyVars /\ msgQue' = Append(msgQue, <<s, Len(node[s])>>)
        BY <1>6 DEF IT!On!MsgRead, IT!On!replyVars, replyVars
    <2>4. QED
        BY <1>6, <2>2, <2>3 DEF ReplyMove, Queued
<1>7. ASSUME program \notin Logic, RL!SendReply \/ AS!SendReply
      PROVE  ReplyMove
    <2>1. PICK s \in Sessions : Sending(Acceptor, s) /\ cur[Acceptor] = s /\ InHandler(Acceptor, s)
        BY <1>1, <1>7 DEF RL!SendReply, AS!SendReply, Sending, ThreadInv, Busy, InHandler
    <2>2. Send(s, node[s][Len(node[s])].req) /\ UNCHANGED <<msgQue, sent, inbox>>
        BY <1>7, <2>1
           DEF RL!SendReply, RL!LastRead, RL!Send, RL!StartWrite, RL!replyVars, RL!clientVars,
               AS!SendReply, AS!LastRead, AS!Send, AS!StartWrite, AS!replyVars, AS!clientVars,
               Send, StartWrite, replyVars
    <2>3. \E at \in {"run", "loop"}, w \in {s, NoSession} : Continue(Acceptor, at, w)
        BY <1>7, <2>1 DEF RL!SendReply, RL!Return, RL!Continue, AS!SendReply, AS!Continue, Continue
    <2>4. \A t \in Threads : ~Sending(t, s)'
        <3>1. \A t \in Threads \ {Acceptor} : ~Sending(t, s)
            BY <1>1, <2>1, BeforeRead DEF Sending, InHandler
        <3>2. QED
            BY <1>1, <2>3, <3>1, SendersAfter
    <2>5. QED
        BY <1>7, <2>1, <2>2, <2>4 DEF ReplyMove, HandSent
<1>8. ASSUME NEW s \in Sessions, program \in ByteServers, ByteHandled(s)
      PROVE  ReplyMove
    <2>1. CASE RE!ReadThenWrite(s)
        BY <1>8, <2>1 DEF ReplyMove
    <2>2. CASE RE!WriteGoesOn(s) \/ RE!WriteThenRead(s)
        <3>1. ByteWritten(s)
            BY <2>2 DEF RE!WriteGoesOn, RE!WriteThenRead, RE!WriteSome, ByteWritten
        <3>2. QED
            BY <1>8, <3>1 DEF ReplyMove
    <2>3. CASE RE!WriteFails(s)
        BY <2>3 DEF RE!WriteFails, WriteFailed, ReplyMove
    <2>4. CASE RE!ReadFails(s) \/ OpenedAndNext(s)
        BY <1>2, <2>4 DEF RE!ReadFails, RE!replyVars, OpenedAndNext, replyVars
    <2>5. QED
        BY <1>8, <2>1, <2>2, <2>3, <2>4 DEF ByteHandled
<1> HIDE DEF ReplyMove
<1>9. ASSUME NEW s \in Sessions, ClientOf(s) \/ Refused(s)
      PROVE  ReplyMove
    BY <1>2, <1>9 DEF ClientOf, Connect, Leave, Request, Refused
<1>10. ASSUME NEW t \in Threads, Rest(t) \/ Ended(t)
       PROVE  ReplyMove
    BY <1>2, <1>10
       DEF Rest, IT!On!ReadHeadAgain, IT!On!ClearSession, IT!On!replyVars, Inserted, Ended, dataVars, replyVars
<1>11. ASSUME NEW t \in Threads, NEW s \in Sessions, Handled(t, s) \/ ThreadHandled(t, s)
       PROVE  ReplyMove
    BY <1>2, <1>4, <1>5, <1>11
       DEF Handled, ThreadHandled, IT!On!AcceptStart, IT!On!HeadRead, IT!On!ReadError, IT!InvalidHead,
           IT!On!replyVars, IT!replyVars, replyVars
<1>12. ASSUME NEW s \in Sessions, HandHandled(s)
       PROVE  ReplyMove
    BY <1>2, <1>12
       DEF HandHandled, RL!MsgComplete, AS!TakeMessage, AS!InvalidLength, RL!replyVars, AS!replyVars, replyVars
<1>13. CASE HandRest
    BY <1>2, <1>7, <1>13 DEF HandRest, AS!ReadSome, AS!replyVars, replyVars, Logic
<1>14. QED
    BY <1>3, <1>6, <1>8, <1>9, <1>10, <1>11, <1>12, <1>13 DEF Step

\* The servers without messages have no map, and one operation for each session.
ByteInv ==
    program \in ByteServers => sessions = {} /\ \A s \in Sessions : RE!OneThingOutstanding(s)

EchoInv ==
    /\ ReadInvs
    /\ peer \in [Sessions -> {"none", "up", "gone"}]
    /\ ReplyTypes /\ QueueTypes
    /\ WriteInv /\ OrderInv /\ ByteInv

LEMMA TakenTypes ==
    ASSUME ReadInvs, NEW s \in Sessions
    PROVE  /\ Taken(s) \in Nat /\ Taken(s) <= MaxRequests
           /\ Taken(s) <= Len(node[s]) /\ Len(node[s]) \in Nat /\ DOMAIN node[s] = 1 .. Len(node[s])
           /\ \A i \in 1 .. Taken(s) : node[s][i].req = i /\ i \in Requests
<1>1. Reader(s) /\ sent[s] \in 0 .. MaxRequests /\ inbox[s] \in Seq(Message) /\ node[s] \in Seq(Node)
    BY DEF ReadInvs, ReadInv, ReadTypes
<1>2. /\ Taken(s) \in Nat /\ Taken(s) <= MaxRequests /\ Taken(s) <= Len(node[s])
      /\ \A i \in 1 .. Taken(s) : node[s][i].req = i
    BY <1>1, BoundsAssumption DEF Reader, NodesFilled, Taken
<1>3. QED
    BY <1>1, <1>2, BoundsAssumption DEF Requests

LEMMA MessageTypes ==
    ASSUME QueueTypes
    PROVE  /\ Len(msgQue) \in Nat /\ DOMAIN msgQue = 1 .. Len(msgQue)
           /\ \A j \in 1 .. Len(msgQue) :
                 /\ msgQue[j] \in Entry
                 /\ msgQue[j][1] \in Sessions /\ msgQue[j][2] \in Nat
                 /\ msgQue[j] = <<msgQue[j][1], msgQue[j][2]>>
BY DEF QueueTypes, Entry

LEMMA QueuedRead ==
    ASSUME EchoInv
    PROVE  QueuedAreRead
<1> SUFFICES ASSUME NEW j \in DOMAIN msgQue
             PROVE  /\ msgQue[j][2] \in DOMAIN node[msgQue[j][1]]
                    /\ node[msgQue[j][1]][msgQue[j][2]].req \in Requests
    BY DEF QueuedAreRead
<1>1. j \in 1 .. Len(msgQue) /\ msgQue[j][1] \in Sessions
    BY MessageTypes DEF EchoInv
<1>2. msgQue[j][2] \in 1 .. Taken(msgQue[j][1])
    BY <1>1 DEF EchoInv, OrderInv, QueueRises
<1>3. QED
    BY <1>1, <1>2, TakenTypes DEF EchoInv

\* What the handler that sends has read is the request that was taken last.
LEMMA HandSends ==
    ASSUME EchoInv, NEW s \in Sessions, Sending(Acceptor, s)
    PROVE  /\ Taken(s) \in Requests /\ Taken(s) \in 1 .. Taken(s)
           /\ node[s][Len(node[s])].req = Taken(s)
           /\ node[s][Taken(s)].req = Taken(s)
           /\ Len(node[s]) = Taken(s)
<1>1. Len(node[s]) = Taken(s)
    BY BeforeRead, Threading DEF EchoInv, Sending, InHandler
<1>2. Taken(s) > 0
    BY Threading DEF EchoInv, OrderInv, QueueRises
<1>3. Taken(s) \in 1 .. Taken(s)
    BY <1>2, TakenTypes DEF EchoInv
<1>4. QED
    BY <1>1, <1>3, TakenTypes DEF EchoInv

LEMMA ByteWrittenKeeps ==
    ASSUME ReplyTypes, WriteInv, ClientsKept, NEW s \in Sessions, ByteWritten(s)
    PROVE  /\ ReplyTypes' /\ WriteInv'
           /\ sendQue[s] # <<>>
           /\ sendQue' = [sendQue EXCEPT ![s] = Tail(sendQue[s])]
           /\ written' = [written EXCEPT ![s] = Append(written[s], Head(sendQue[s]))]
<1> USE DEF ReplyTypes, WriteInv, ClientsKept
<1>1. /\ writes[s] # <<>> /\ writes[s] \in Seq(WriteStates) /\ sendQue[s] \in Seq(Requests)
      /\ sendQue[s] # <<>> /\ Len(writes[s]) <= 1
    BY DEF ByteWritten
<1>2. /\ sendQue' = [sendQue EXCEPT ![s] = Tail(sendQue[s])]
      /\ written' = [written EXCEPT ![s] = Append(written[s], Head(sendQue[s]))]
    BY DEF ByteWritten
<1>3. Tail(sendQue[s]) \in Seq(Requests) /\ Append(written[s], Head(sendQue[s])) \in Seq(Requests)
    BY <1>1, HeadAndTail, Appended
<1>4. Tail(writes[s]) = <<>> /\ <<>> \in Seq(WriteStates) /\ Len(<<>>) = 0
    BY <1>1, TailOfShort
<1>5. Len(sendQue[s]) > 1 <=> Tail(sendQue[s]) # <<>>
    BY <1>1, TailOfShort
<1>6. PICK w \in Seq(WriteStates) :
          /\ writes' = [writes EXCEPT ![s] = w]
          /\ Len(w) <= 1
          /\ w # <<>> <=> Tail(sendQue[s]) # <<>>
          /\ w = writes[s] \/ w = <<>>
    <2>1. CASE Len(sendQue[s]) > 1 /\ writes' = writes
        <3>1. writes' = [writes EXCEPT ![s] = writes[s]]
            BY <2>1
        <3>2. QED
            BY <1>1, <1>5, <2>1, <3>1
    <2>2. CASE Len(sendQue[s]) = 1 /\ writes' = [writes EXCEPT ![s] = Tail(writes[s])]
        <3>1. Tail(sendQue[s]) = <<>>
            BY <1>5, <2>2
        <3>2. writes' = [writes EXCEPT ![s] = <<>>]
            BY <1>4, <2>2, Zenon
        <3>3. Len(<<>>) <= 1 /\ <<>> \in Seq(WriteStates)
            BY <1>4
        <3> WITNESS <<>> \in Seq(WriteStates)
        <3>4. QED
            BY <3>1, <3>2, <3>3, Zenon
    <2>3. QED
        BY <2>1, <2>2 DEF ByteWritten
<1>7. writes'[s] = w /\ sendQue'[s] = Tail(sendQue[s])
    BY <1>2, <1>6
<1>8. \A x \in Sessions \ {s} : writes'[x] = writes[x] /\ sendQue'[x] = sendQue[x]
    BY <1>2, <1>6
<1>9. ReplyTypes'
    BY <1>2, <1>3, <1>6
<1>10. WriteInv'
    <2> SUFFICES ASSUME NEW x \in Sessions
                 PROVE  /\ Len(writes'[x]) <= 1
                        /\ writes'[x] # <<>> => sendQue'[x] # <<>>
                        /\ sendQue'[x] # <<>> /\ writes'[x] = <<>> => peer'[x] = "gone"
                        /\ writes'[x] # <<>> /\ writes'[x][1] = "failing" => peer'[x] = "gone"
                        /\ sock'[x] = "closed" => peer'[x] = "gone"
        OBVIOUS
    <2>1. peer[x] = "gone" => peer'[x] = "gone"
        OBVIOUS
    <2>2. sock'[x] = "closed" => peer'[x] = "gone"
        BY <2>1
    <2>3. CASE x = s
        <3>1. Len(w) <= 1 /\ (w # <<>> <=> sendQue'[s] # <<>>)
            BY <1>6, <1>7
        <3>2. w # <<>> /\ w[1] = "failing" => peer'[s] = "gone"
            BY <1>6, <2>1, <2>3
        <3>3. QED
            BY <1>7, <2>2, <2>3, <3>1, <3>2
    <2>4. CASE x # s
        BY <1>8, <2>1, <2>2, <2>4
    <2>5. QED
        BY <2>3, <2>4
<1>11. QED
    BY <1>1, <1>2, <1>9, <1>10

\* Reading in the servers without messages: nothing was being written.
LEMMA ChunkKeeps ==
    ASSUME EchoInv, ClientsKept, SocketsKept, program' = program, NEW s \in Sessions,
           program \in ByteServers, RE!ReadThenWrite(s)
    PROVE  ReplyTypes' /\ WriteInv'
<1>1. writes[s] = <<>>
    BY DEF EchoInv, ByteInv, RE!OneThingOutstanding, RE!ReadThenWrite
<1>2. PICK k \in Nat \ {0} : Len(sendQue'[s]) = k /\ sendQue'[s] \in Seq(Requests)
    BY ReaderChunk DEF EchoInv
<1>3. sendQue'[s] # <<>>
    BY <1>2
<1>4. writes' = [writes EXCEPT ![s] = <<"started">>]
    BY <1>1 DEF RE!ReadThenWrite
<1>5. <<"started">> \in Seq(WriteStates) /\ Len(<<"started">>) = 1 /\ <<"started">>[1] = "started"
    BY DEF WriteStates
<1>6. \E q : sendQue' = [sendQue EXCEPT ![s] = q]
    BY DEF RE!ReadThenWrite
<1>7. sendQue' \in [Sessions -> Seq(Requests)] /\ \A x \in Sessions \ {s} : sendQue'[x] = sendQue[x]
    BY <1>2, <1>6 DEF EchoInv, ReplyTypes
<1>8. ReplyTypes'
    BY <1>4, <1>5, <1>7 DEF EchoInv, ReplyTypes, RE!ReadThenWrite
<1>9. writes'[s] = <<"started">> /\ \A x \in Sessions \ {s} : writes'[x] = writes[x]
    BY <1>4 DEF EchoInv, ReplyTypes
<1>10. WriteInv'
    <2> SUFFICES ASSUME NEW x \in Sessions
                 PROVE  /\ Len(writes'[x]) <= 1
                        /\ writes'[x] # <<>> => sendQue'[x] # <<>>
                        /\ sendQue'[x] # <<>> /\ writes'[x] = <<>> => peer'[x] = "gone"
                        /\ writes'[x] # <<>> /\ writes'[x][1] = "failing" => peer'[x] = "gone"
                        /\ sock'[x] = "closed" => peer'[x] = "gone"
        BY DEF WriteInv
    <2>1. sock'[x] = "closed" => peer'[x] = "gone"
        BY DEF EchoInv, WriteInv, ClientsKept, RE!ReadThenWrite
    <2>2. CASE x = s
        <3>1. Len(writes'[s]) <= 1 /\ writes'[s] # <<>> /\ sendQue'[s] # <<>> /\ writes'[s][1] # "failing"
            BY <1>3, <1>5, <1>9
        <3>2. QED
            BY <2>1, <2>2, <3>1
    <2>3. CASE x # s
        <3>1. /\ writes'[x] = writes[x] /\ sendQue'[x] = sendQue[x]
              /\ peer[x] = "gone" => peer'[x] = "gone"
            BY <1>7, <1>9, <2>3 DEF ClientsKept
        <3>2. /\ Len(writes[x]) <= 1
              /\ writes[x] # <<>> => sendQue[x] # <<>>
              /\ sendQue[x] # <<>> /\ writes[x] = <<>> => peer[x] = "gone"
              /\ writes[x] # <<>> /\ writes[x][1] = "failing" => peer[x] = "gone"
            BY DEF EchoInv, WriteInv
        <3>3. QED
            BY <2>1, <3>1, <3>2
    <2>4. QED
        BY <2>2, <2>3
<1>11. QED
    BY <1>8, <1>10

LEMMA ReplyKeeps ==
    ASSUME EchoInv, ClientsKept, SocketsKept, program' = program, ReplyMove
    PROVE  ReplyTypes' /\ WriteInv'
<1>1. ReplyTypes /\ WriteInv /\ QueueTypes /\ QueuedAreRead
    BY QueuedRead DEF EchoInv
<1>2. CASE UNCHANGED replyVars
    BY <1>1, <1>2 DEF replyVars, ReplyTypes, WriteInv, ClientsKept
<1>3. CASE Dispatched
    BY <1>1, <1>2, <1>3, SendKeeps, DispatchReplies
<1>4. ASSUME NEW s \in Sessions, HandSent(s)
      PROVE  ReplyTypes' /\ WriteInv'
    BY <1>1, <1>4, SendKeeps, HandSends DEF HandSent
<1>5. QED
    BY <1>1, <1>2, <1>3, <1>4, WrittenKeeps, FailedKeeps, ByteWrittenKeeps, ChunkKeeps
       DEF ReplyMove, Queued, replyVars

\* Facts about the two parts of the replies.
LEMMA AppendRight ==
    ASSUME NEW S, NEW p \in Seq(S), NEW q \in Seq(S), NEW e \in S
    PROVE  p \o Append(q, e) = Append(p \o q, e)
OBVIOUS

LEMMA MoveHead ==
    ASSUME NEW S, NEW p \in Seq(S), NEW q \in Seq(S), q # <<>>
    PROVE  Append(p, Head(q)) \o Tail(q) = p \o q
<1>1. /\ Append(p, Head(q)) \o Tail(q) \in Seq(S) /\ p \o q \in Seq(S)
      /\ Len(Append(p, Head(q)) \o Tail(q)) = Len(p) + 1 + (Len(q) - 1)
      /\ Len(p \o q) = Len(p) + Len(q)
      /\ Len(p) \in Nat /\ Len(q) \in Nat \ {0}
    OBVIOUS
<1>2. ASSUME NEW i \in 1 .. Len(p) + Len(q)
      PROVE  (Append(p, Head(q)) \o Tail(q))[i] = (p \o q)[i]
    <2>1. CASE i <= Len(p)
        BY <1>1, <1>2, <2>1
    <2>2. CASE i = Len(p) + 1
        BY <1>1, <1>2, <2>2
    <2>3. CASE i > Len(p) + 1
        BY <1>1, <1>2, <2>3
    <2>4. QED
        BY <1>1, <2>1, <2>2, <2>3
<1>3. QED
    BY <1>1, <1>2

\* What a session has replied after its queue changed.
LEMMA RepliedAfter ==
    ASSUME ReplyTypes, NEW s \in Sessions
    PROVE  /\ Replied(s) \in Seq(Requests)
           /\ sendQue'[s] = sendQue[s] /\ written'[s] = written[s] => Replied(s)' = Replied(s)
           /\ \A r \in Requests : sendQue'[s] = Append(sendQue[s], r) /\ written'[s] = written[s] =>
                 Replied(s)' = Append(Replied(s), r)
           /\ sendQue[s] # <<>> /\ sendQue'[s] = Tail(sendQue[s])
                 /\ written'[s] = Append(written[s], Head(sendQue[s])) => Replied(s)' = Replied(s)
<1>1. sendQue[s] \in Seq(Requests) /\ written[s] \in Seq(Requests)
    BY DEF ReplyTypes
<1>2. Replied(s) \in Seq(Requests)
    BY <1>1 DEF Replied
<1>3. ASSUME NEW r \in Requests, sendQue'[s] = Append(sendQue[s], r), written'[s] = written[s]
      PROVE  Replied(s)' = Append(Replied(s), r)
    <2>1. ASSUME NEW p \in Seq(Requests), NEW q \in Seq(Requests)
          PROVE  p \o Append(q, r) = Append(p \o q, r)
        <3>1. r \in Requests
            OBVIOUS
        <3> HIDE DEF Replied
        <3>2. QED
            BY <3>1
    <2>2. written[s] \o Append(sendQue[s], r) = Append(written[s] \o sendQue[s], r)
        BY <1>1, <2>1, Zenon
    <2>3. QED
        BY <1>3, <2>2, Zenon DEF Replied
<1>4. ASSUME sendQue[s] # <<>>, sendQue'[s] = Tail(sendQue[s]),
             written'[s] = Append(written[s], Head(sendQue[s]))
      PROVE  Replied(s)' = Replied(s)
    BY <1>1, <1>4, MoveHead DEF Replied
<1>5. QED
    BY <1>2, <1>3, <1>4 DEF Replied

\* A session whose replies did not change.
LEMMA OrderFrame ==
    ASSUME EchoInv, NEW s \in Sessions, NEW d \in Nat, Grows(s), Shifted(s, d), Len(msgQue') \in Nat,
           Replied(s)' = Replied(s)
    PROVE  RepliesRise(s)' /\ QueueRises(s)'
<1>1. RepliesRise(s) /\ QueueRises(s)
    BY DEF EchoInv, OrderInv
<1>2. Len(msgQue) \in Nat /\ \A j \in 1 .. Len(msgQue) : msgQue[j][2] \in Nat
    BY MessageTypes DEF EchoInv
<1>3. QED
    BY <1>1, <1>2, QueueFrame, RepliesFrame

\* send: the other sessions keep their replies, this one gets the reply or not.
LEMMA SendReplied ==
    ASSUME ReplyTypes, NEW s \in Sessions, NEW r \in Requests, Send(s, r)
    PROVE  /\ \A x \in Sessions \ {s} : Replied(x)' = Replied(x)
           /\ Replied(s)' = Replied(s) \/ Replied(s)' = Append(Replied(s), r)
<1>1. /\ written' = written
      /\ sendQue' = sendQue \/ sendQue' = [sendQue EXCEPT ![s] = Append(sendQue[s], r)]
    BY SendReplies
<1>2. \A x \in Sessions \ {s} : sendQue'[x] = sendQue[x]
    BY <1>1 DEF ReplyTypes
<1>3. sendQue'[s] = sendQue[s] \/ sendQue'[s] = Append(sendQue[s], r)
    BY <1>1 DEF ReplyTypes
<1>4. QED
    BY <1>1, <1>2, <1>3, RepliedAfter

LEMMA OrderDispatch ==
    ASSUME EchoInv, \A x \in Sessions : Grows(x), program \in Logic, program' = program, Dispatched, ReplyTypes',
           UNCHANGED <<sent, inbox, node>>, ThreadInv'
    PROVE  OrderInv'
<1>1. msgQue # <<>> /\ msgQue' = Tail(msgQue)
    BY DEF Dispatched
<1>2. msgQue \in Seq(Entry)
    BY DEF EchoInv, QueueTypes
<1>3. /\ Head(msgQue) = msgQue[1] /\ Len(msgQue) \in Nat \ {0}
      /\ Len(msgQue') = Len(msgQue) - 1
      /\ \A j \in 1 .. Len(msgQue) - 1 : msgQue'[j] = msgQue[j + 1]
    BY <1>1, <1>2, HeadAndTail
<1>4. \A x : Shifted(x, 1)
    BY <1>3 DEF Shifted
<1>5. PICK s \in Sessions, r \in Nat : msgQue[1] = <<s, r>> /\ Head(msgQue)[1] = s /\ Head(msgQue)[2] = r
    <2>1. /\ msgQue[1][1] \in Sessions /\ msgQue[1][2] \in Nat
          /\ msgQue[1] = <<msgQue[1][1], msgQue[1][2]>>
        BY <1>3, MessageTypes DEF EchoInv
    <2>2. QED
        BY <1>3, <2>1, Zenon
<1>6. r \in 1 .. Taken(s) /\ r \in Requests /\ node[s][r].req = r
    <2>1. r \in 1 .. Taken(s)
        BY <1>3, <1>5 DEF EchoInv, OrderInv, QueueRises
    <2>2. QED
        BY <1>5, <2>1, TakenTypes DEF EchoInv
<1>7. \A x \in Sessions : Replied(x)' = Replied(x) => RepliesRise(x)' /\ QueueRises(x)'
    BY <1>3, <1>4, OrderFrame
<1>8. QueueRises(s)'
    <2>1. QueueRises(s) /\ \A j \in 1 .. Len(msgQue) : msgQue[j][2] \in Nat
        BY <1>5, MessageTypes DEF EchoInv, OrderInv
    <2>2. QED
        BY <1>3, <1>4, <1>5, <2>1, QueueFrame
<1>9. CASE node[s][r].id = "hello"
    <2>1. Send(s, node[s][r].req)
        BY <1>5, <1>9, Zenon DEF Dispatched
    <2>0. Send(s, r)
        BY <1>6, <2>1, Zenon
    <2>2. /\ \A x \in Sessions \ {s} : Replied(x)' = Replied(x)
          /\ Replied(s)' = Replied(s) \/ Replied(s)' = Append(Replied(s), r)
        BY <1>5, <1>6, <2>0, SendReplied DEF EchoInv
    <2>3. CASE Replied(s)' = Append(Replied(s), r)
        <3>1. Replied(s) \in Seq(Requests) /\ RepliesRise(s)
            BY <1>5, RepliedAfter DEF EchoInv, OrderInv
        <3>2. \A i \in 1 .. Len(Replied(s)) : Replied(s)[i] < r
            <4>1. 1 \in 1 .. Len(msgQue) /\ msgQue[1][1] = s /\ msgQue[1][2] = r
                BY <1>3, <1>5
            <4>2. QED
                BY <3>1, <4>1, Zenon DEF RepliesRise
        <3>3. \A j \in 1 .. Len(msgQue') : msgQue'[j][1] = s => r < msgQue'[j][2]
            <4> SUFFICES ASSUME NEW j \in 1 .. Len(msgQue'), msgQue'[j][1] = s
                         PROVE  r < msgQue'[j][2]
                OBVIOUS
            <4>1. j + 1 \in 1 .. Len(msgQue) /\ 1 \in 1 .. Len(msgQue) /\ 1 < j + 1 /\ msgQue'[j] = msgQue[j + 1]
                BY <1>3
            <4>2. QueueRises(s) /\ msgQue[1][1] = s /\ msgQue[1][2] = r /\ msgQue[j + 1][1] = s
                BY <1>3, <1>5, <4>1 DEF EchoInv, OrderInv
            <4>3. msgQue[1][2] < msgQue[j + 1][2]
                BY <4>1, <4>2, Zenon DEF QueueRises
            <4>4. QED
                BY <4>1, <4>2, <4>3
        <3>4. \A t \in Threads : ~Sending(t, s)'
            BY DEF ThreadInv, Sending
        <3>5. RepliesRise(s)'
            BY <1>4, <1>5, <1>6, <1>9, <2>3, <3>1, <3>2, <3>3, <3>4, RepliesSend
        <3>6. QED
            BY <1>7, <1>8, <2>2, <3>5 DEF OrderInv
    <2>4. CASE Replied(s)' = Replied(s)
        BY <1>7, <2>2, <2>4 DEF OrderInv
    <2>5. QED
        BY <2>2, <2>3, <2>4
<1>10. CASE node[s][r].id # "hello"
    <2>1. UNCHANGED replyVars
        BY <1>5, <1>10, Zenon DEF Dispatched
    <2>2. \A x \in Sessions : Replied(x)' = Replied(x)
        BY <2>1 DEF replyVars, Replied
    <2>3. QED
        BY <1>7, <2>2 DEF OrderInv
<1>11. QED
    BY <1>9, <1>10

LEMMA OrderQueued ==
    ASSUME EchoInv, \A x \in Sessions : Grows(x), program \in Logic, program' = program, NEW s \in Sessions, Queued(s),
           ThreadInv'
    PROVE  OrderInv'
<1> DEFINE last == Len(node[s])
<1>1. msgQue \in Seq(Entry) /\ last = Taken(s) + 1 /\ Taken(s) \in Nat /\ Taken(s)' = Taken(s) + 1
    BY TakenTypes DEF EchoInv, QueueTypes, Queued
<1>2. <<s, last>> \in Entry
    BY <1>1 DEF Entry
<1> HIDE DEF last
<1>3. /\ Len(msgQue) \in Nat /\ Len(msgQue') = Len(msgQue) + 1
      /\ \A j \in 1 .. Len(msgQue) : msgQue'[j] = msgQue[j]
      /\ msgQue'[Len(msgQue) + 1] = <<s, last>>
    BY <1>1, <1>2, Appended DEF Queued, last
<1>4. \A x \in Sessions : Replied(x)' = Replied(x)
    BY DEF Queued, replyVars, Replied
<1>5. ASSUME NEW x \in Sessions, x # s
      PROVE  RepliesRise(x)' /\ QueueRises(x)'
    <2>1. \A j \in 1 .. Len(msgQue') : j = Len(msgQue) + 1 \/ j \in 1 .. Len(msgQue)
        BY <1>3
    <2>2. Shifted(x, 0)
        BY <1>3, <1>5, <2>1 DEF Shifted
    <2>3. QED
        BY <1>3, <1>4, <2>2, OrderFrame
<1>6. RepliesRise(s) /\ QueueRises(s) /\ Grows(s)
    BY DEF EchoInv, OrderInv
<1>7. \A t \in Threads : ~Sending(t, s)'
    BY DEF ThreadInv, Sending
<1>8. ASSUME NEW j \in 1 .. Len(msgQue')
      PROVE  \/ j = Len(msgQue) + 1 /\ msgQue'[j][2] = Taken(s) + 1
             \/ /\ j \in 1 .. Len(msgQue) /\ msgQue'[j] = msgQue[j]
                /\ msgQue[j][1] = s => msgQue[j][2] \in 1 .. Taken(s)
    BY <1>1, <1>3, <1>6, <1>8 DEF QueueRises
<1>9. QueueRises(s)'
    <2>1. \A j \in 1 .. Len(msgQue') : msgQue'[j][1] = s => msgQue'[j][2] \in 1 .. Taken(s)'
        <3> SUFFICES ASSUME NEW j \in 1 .. Len(msgQue'), msgQue'[j][1] = s
                     PROVE  msgQue'[j][2] \in 1 .. Taken(s)'
            OBVIOUS
        <3>1. /\ Taken(s) + 1 \in 1 .. Taken(s)'
              /\ \A k \in 1 .. Taken(s) : k \in 1 .. Taken(s)'
            BY <1>1
        <3>2. msgQue'[j][2] = Taken(s) + 1 \/ msgQue'[j][2] \in 1 .. Taken(s)
            BY <1>8, Zenon
        <3>3. QED
            BY <3>1, <3>2, Zenon
    <2>2. \A i, j \in 1 .. Len(msgQue') :
              i < j /\ msgQue'[i][1] = s /\ msgQue'[j][1] = s => msgQue'[i][2] < msgQue'[j][2]
        <3> SUFFICES ASSUME NEW i \in 1 .. Len(msgQue'), NEW j \in 1 .. Len(msgQue'), i < j,
                            msgQue'[i][1] = s, msgQue'[j][1] = s
                     PROVE  msgQue'[i][2] < msgQue'[j][2]
            OBVIOUS
        <3>1. i \in 1 .. Len(msgQue) /\ msgQue'[i] = msgQue[i] /\ msgQue'[i][2] \in 1 .. Taken(s)
            BY <1>3, <1>8
        <3>2. CASE j = Len(msgQue) + 1
            BY <1>1, <1>8, <3>1, <3>2, <1>3
        <3>3. CASE j # Len(msgQue) + 1
            BY <1>3, <1>6, <3>1, <3>3 DEF QueueRises
        <3>4. QED
            BY <3>2, <3>3
    <2>3. QED
        BY <1>7, <2>1, <2>2 DEF QueueRises
<1>10. RepliesRise(s)'
    <2>1. \A i \in 1 .. Len(Replied(s)) : Replied(s)[i] \in 1 .. Taken(s)' /\ node'[s][Replied(s)[i]].id = "hello"
        BY <1>6 DEF RepliesRise, Grows
    <2>2. ASSUME NEW i \in 1 .. Len(Replied(s)), NEW j \in 1 .. Len(msgQue'), msgQue'[j][1] = s
          PROVE  Replied(s)[i] < msgQue'[j][2]
        <3>1. Replied(s)[i] \in 1 .. Taken(s)
            BY <1>6 DEF RepliesRise
        <3>2. CASE j \in 1 .. Len(msgQue) /\ msgQue'[j] = msgQue[j]
            BY <1>6, <2>2, <3>2, Zenon DEF RepliesRise
        <3>3. CASE msgQue'[j][2] = Taken(s) + 1
            BY <1>1, <3>1, <3>3, SMTT(30)
        <3>4. QED
            BY <1>8, <3>2, <3>3, Zenon
    <2>3. QED
        BY <1>4, <1>6, <1>7, <2>1, <2>2 DEF RepliesRise
<1>11. QED
    BY <1>5, <1>9, <1>10 DEF OrderInv

\* The queue of the logic worker stays as it is.
LEMMA OrderUnqueued ==
    ASSUME EchoInv, NEW s \in Sessions, Grows(s), UNCHANGED msgQue
    PROVE  /\ Shifted(s, 0) /\ Len(msgQue') \in Nat
           /\ QueueRises(s)'
           /\ Replied(s)' = Replied(s) => RepliesRise(s)'
<1>1. Shifted(s, 0) /\ Len(msgQue') \in Nat
    BY MessageTypes DEF Shifted, EchoInv
<1>2. QueueRises(s) /\ \A j \in 1 .. Len(msgQue) : msgQue[j][2] \in Nat
    BY MessageTypes DEF EchoInv, OrderInv
<1>3. QueueRises(s)'
    BY <1>1, <1>2, QueueFrame
<1>4. QED
    BY <1>1, <1>3, OrderFrame

LEMMA OrderHand ==
    ASSUME EchoInv, \A x \in Sessions : Grows(x), program \notin Logic, program' = program,
           NEW s \in Sessions, HandSent(s)
    PROVE  OrderInv'
<1> DEFINE r == Taken(s)
<1>1. msgQue = <<>> /\ msgQue' = <<>> /\ Len(msgQue') = 0
    BY DEF EchoInv, OrderInv, HandSent
<1>2. /\ r \in Requests /\ r \in 1 .. Taken(s) /\ node[s][Len(node[s])].req = r /\ Len(node[s]) = r
      /\ Reader(s) /\ RepliesRise(s)
    BY HandSends DEF EchoInv, ReadInvs, ReadInv, OrderInv, HandSent
<1>3. node[s][r].id = "hello"
    BY <1>2 DEF Reader, KindsKnown
<1>4. /\ \A x \in Sessions \ {s} : Replied(x)' = Replied(x)
      /\ Replied(s)' = Replied(s) \/ Replied(s)' = Append(Replied(s), r)
    BY <1>2, SendReplied DEF EchoInv, HandSent
<1>5. \A x \in Sessions : /\ QueueRises(x)' /\ Shifted(x, 0)
                          /\ Replied(x)' = Replied(x) => RepliesRise(x)'
    BY <1>1, OrderUnqueued
<1>6. CASE Replied(s)' = Append(Replied(s), r)
    <2>1. Replied(s) \in Seq(Requests)
        BY RepliedAfter DEF EchoInv
    <2>2. \A i \in 1 .. Len(Replied(s)) : Replied(s)[i] < r
        BY <1>2, Threading DEF HandSent, RepliesRise
    <2>3. \A j \in 1 .. Len(msgQue') : msgQue'[j][1] = s => r < msgQue'[j][2]
        BY <1>1
    <2>4. \A t \in Threads : ~Sending(t, s)'
        BY DEF HandSent
    <2>5. RepliesRise(s)'
        BY <1>2, <1>3, <1>5, <1>6, <2>1, <2>2, <2>3, <2>4, RepliesSend
    <2>6. QED
        BY <1>1, <1>4, <1>5, <2>5 DEF OrderInv
<1>7. CASE Replied(s)' = Replied(s)
    BY <1>1, <1>4, <1>5, <1>7 DEF OrderInv
<1>8. QED
    BY <1>4, <1>6, <1>7

\* An array that was read is what comes after all that was taken before.
LEMMA OrderChunk ==
    ASSUME EchoInv, SocketsKept, ThreadInv', \A x \in Sessions : Grows(x), program' = program, NEW s \in Sessions,
           program \in ByteServers, RE!ReadThenWrite(s)
    PROVE  OrderInv'
<1>1. msgQue = <<>> /\ msgQue' = <<>> /\ Len(msgQue') = 0
    BY DEF EchoInv, OrderInv, ByteServers, Logic, RE!ReadThenWrite
<1>2. PICK k \in Nat \ {0} :
          /\ Taken(s)' = Taken(s) + k
          /\ Len(sendQue'[s]) = k
          /\ sendQue'[s] \in Seq(Requests)
          /\ \A i \in 1 .. k : sendQue'[s][i] = Taken(s) + i
    BY ReaderChunk DEF EchoInv
<1>3. /\ \A x \in Sessions \ {s} : sendQue'[x] = sendQue[x]
      /\ written' = written
    BY DEF EchoInv, ReplyTypes, RE!ReadThenWrite
<1>4. \A x \in Sessions : /\ QueueRises(x)'
                          /\ Replied(x)' = Replied(x) => RepliesRise(x)'
    BY <1>1, OrderUnqueued
<1>5. \A x \in Sessions \ {s} : Replied(x)' = Replied(x)
    BY <1>3 DEF Replied
<1> DEFINE w == written[s]
           q == sendQue'[s]
           n == Len(w)
<1>6. w \in Seq(Requests) /\ sendQue[s] \in Seq(Requests) /\ n \in Nat /\ Taken(s) \in Nat
    BY TakenTypes DEF EchoInv, ReplyTypes
<1>7. /\ Replied(s)' = w \o q
      /\ Len(Replied(s)') = n + k
      /\ \A i \in 1 .. n : Replied(s)'[i] = w[i]
      /\ \A i \in 1 .. k : Replied(s)'[n + i] = q[i]
    <2>1. Replied(s)' = w \o q
        BY <1>3 DEF Replied
    <2>2. w \in Seq(Requests) /\ q \in Seq(Requests) /\ Len(q) = k
        BY <1>2, <1>6
    <2> HIDE DEF w, q
    <2>3. Joins(w \o q, w, q)
        BY <2>2, Joined
    <2>4. QED
        BY <2>1, <2>2, <2>3, Zenon DEF Joins
<1>8. /\ Len(Replied(s)) = n + Len(sendQue[s]) /\ Len(sendQue[s]) \in Nat
      /\ \A i \in 1 .. n : Replied(s)[i] = w[i]
    <2>1. Joins(w \o sendQue[s], w, sendQue[s]) /\ Replied(s) = w \o sendQue[s]
        BY <1>6, Joined DEF Replied
    <2>2. QED
        BY <2>1, Zenon DEF Joins
<1>9. RepliesRise(s) /\ Grows(s)
    BY DEF EchoInv, OrderInv
<1> HIDE DEF w, q, n
<1>10. ASSUME NEW i \in 1 .. n + k
       PROVE  \/ i \in 1 .. n /\ Replied(s)'[i] = Replied(s)[i] /\ i \in 1 .. Len(Replied(s))
              \/ i - n \in 1 .. k /\ i > n /\ Replied(s)'[i] = Taken(s) + (i - n)
    <2>1. CASE i \in 1 .. n
        <3>1. i \in 1 .. Len(Replied(s))
            BY <1>6, <1>8, <2>1
        <3>2. QED
            BY <1>7, <1>8, <2>1, <3>1, Zenon
    <2>2. CASE i \notin 1 .. n
        <3>1. i - n \in 1 .. k /\ i > n /\ i = n + (i - n)
            BY <1>2, <1>6, <1>10, <2>2
        <3>2. Replied(s)'[n + (i - n)] = q[i - n]
            BY <1>7, <3>1, Zenon
        <3>3. q[i - n] = Taken(s) + (i - n)
            BY <1>2, <3>1, Zenon DEF q
        <3>4. Replied(s)'[i] = Taken(s) + (i - n)
            BY <3>1, <3>2, <3>3, Zenon
        <3>5. QED
            BY <3>1, <3>4, Zenon
    <2>3. QED
        BY <2>1, <2>2
<1>11. \A i \in 1 .. n : Replied(s)'[i] \in 1 .. Taken(s) /\ node[s][Replied(s)'[i]].id = "hello"
    <2> SUFFICES ASSUME NEW i \in 1 .. n
                 PROVE  Replied(s)'[i] \in 1 .. Taken(s) /\ node[s][Replied(s)'[i]].id = "hello"
        OBVIOUS
    <2>1. i \in 1 .. Len(Replied(s))
        BY <1>6, <1>8
    <2>2. Replied(s)'[i] = Replied(s)[i]
        BY <1>7, <1>8, Zenon
    <2>3. QED
        BY <1>9, <2>1, <2>2, Zenon DEF RepliesRise
<1>12. \A i, j \in 1 .. n + k : i < j => Replied(s)'[i] < Replied(s)'[j]
    <2> SUFFICES ASSUME NEW i \in 1 .. n + k, NEW j \in 1 .. n + k, i < j
                 PROVE  Replied(s)'[i] < Replied(s)'[j]
        OBVIOUS
    <2>1. CASE j \in 1 .. n
        BY <1>6, <1>9, <1>10, <2>1 DEF RepliesRise
    <2>2. CASE j \notin 1 .. n
        <3>1. Replied(s)'[j] = Taken(s) + (j - n) /\ j > n /\ j - n \in 1 .. k
            BY <1>10, <2>2
        <3>2. CASE i \in 1 .. n
            <4>1. Replied(s)'[i] \in 1 .. Taken(s)
                BY <1>11, <3>2, Zenon
            <4>2. QED
                BY <1>6, <3>1, <4>1
        <3>3. CASE i \notin 1 .. n
            <4>1. Replied(s)'[i] = Taken(s) + (i - n)
                BY <1>10, <3>3, Zenon
            <4>2. QED
                BY <1>2, <1>6, <3>1, <4>1
        <3>4. QED
            BY <3>2, <3>3
    <2>3. QED
        BY <2>1, <2>2
<1>13. ASSUME NEW i \in 1 .. n + k
       PROVE  Replied(s)'[i] \in 1 .. Taken(s)' /\ node'[s][Replied(s)'[i]].id = "hello"
    <2>1. Replied(s)'[i] \in 1 .. Taken(s)'
        <3>1. CASE i \in 1 .. n
            BY <1>2, <1>6, <1>11, <3>1
        <3>2. CASE i \notin 1 .. n
            BY <1>2, <1>6, <1>10, <3>2
        <3>3. QED
            BY <3>1, <3>2
    <2>2. Reader(s)' /\ Taken(s)' \in Nat /\ Taken(s)' <= Len(node'[s])
        BY <1>2, <1>6, ReaderChunk DEF EchoInv, ReadInv, Reader, NodesFilled
    <2>3. node'[s] \in Seq(Node)
        BY ReaderChunk DEF EchoInv, ReadTypes
    <2>4. Replied(s)'[i] \in 1 .. Len(node'[s])
        BY <2>1, <2>2, <2>3
    <2>5. QED
        BY <2>1, <2>2, <2>4 DEF Reader, KindsKnown, Logic, ByteServers
<1>14. \A t \in Threads : ~Sending(t, s)'
    BY DEF ThreadInv, Sending, Busy, ByteServers
<1>15. RepliesRise(s)'
    <2>1. 1 .. Len(Replied(s))' = 1 .. n + k
        BY <1>7
    <2>2. \A j \in 1 .. Len(msgQue)' : FALSE
        BY <1>1
    <2>3. QED
        BY <1>12, <1>13, <1>14, <2>1, <2>2, Zenon DEF RepliesRise
<1>16. QED
    BY <1>1, <1>4, <1>5, <1>15 DEF OrderInv

LEMMA OrderStep ==
    ASSUME EchoInv, ClientsKept, SocketsKept, ThreadInv', \A x \in Sessions : Grows(x), program' = program, ReplyMove
    PROVE  OrderInv'
<1>1. ReplyTypes' /\ WriteInv'
    BY ReplyKeeps
<1>2. ASSUME UNCHANGED msgQue, \A x \in Sessions : Replied(x)' = Replied(x)
      PROVE  OrderInv'
    BY <1>2, OrderUnqueued DEF OrderInv, EchoInv
<1>3. CASE UNCHANGED <<replyVars, msgQue>>
    BY <1>2, <1>3 DEF replyVars, Replied
<1>4. ASSUME NEW s \in Sessions, UNCHANGED msgQue, sendQue[s] # <<>>,
             sendQue' = [sendQue EXCEPT ![s] = Tail(sendQue[s])],
             written' = [written EXCEPT ![s] = Append(written[s], Head(sendQue[s]))]
      PROVE  OrderInv'
    <2>1. /\ sendQue'[s] = Tail(sendQue[s]) /\ written'[s] = Append(written[s], Head(sendQue[s]))
          /\ \A x \in Sessions \ {s} : sendQue'[x] = sendQue[x] /\ written'[x] = written[x]
        BY <1>4 DEF EchoInv, ReplyTypes
    <2>2. \A x \in Sessions : Replied(x)' = Replied(x)
        BY <1>4, <2>1, RepliedAfter DEF EchoInv
    <2>3. QED
        BY <1>2, <1>4, <2>2
<1>5. ASSUME NEW s \in Sessions, ReplyWritten(s), UNCHANGED msgQue
      PROVE  OrderInv'
    BY <1>4, <1>5, WriteDoneReplies DEF EchoInv
<1>6. ASSUME NEW s \in Sessions, ByteWritten(s)
      PROVE  OrderInv'
    BY <1>4, <1>6, ByteWrittenKeeps DEF EchoInv, ByteWritten
<1>7. ASSUME NEW s \in Sessions, WriteFailed(s), UNCHANGED msgQue
      PROVE  OrderInv'
    BY <1>2, <1>7 DEF WriteFailed, Replied
<1>8. QED
    BY <1>1, <1>3, <1>5, <1>6, <1>7, OrderDispatch, OrderQueued, OrderHand, OrderChunk DEF ReplyMove
-----------------------------------------------------------------------------
(***************************************************************************)
(* The map of sessions, and the sessions that have one operation at a time. *)
(***************************************************************************)
LEMMA MapMoves ==
    ASSUME Step
    PROVE  \/ sessions' \subseteq sessions /\ (program \in ByteServers => sessions' = sessions)
           \/ \E t \in Threads : program \notin ByteServers /\ OnItsThread(t) /\ Inserted(t)
<1>1. ASSUME NEW s \in Sessions, ClientOf(s) \/ Refused(s)
      PROVE  sessions' = sessions
    BY <1>1 DEF ClientOf, Connect, Leave, Request, Refused
<1>2. ASSUME NEW t \in Threads, Rest(t), ~Inserted(t)
      PROVE  sessions' \subseteq sessions
    BY <1>2 DEF Rest, IT!On!ReadHeadAgain, IT!On!ClearSession
<1>3. ASSUME NEW t \in Threads, IT!On(t)!Dispatch
      PROVE  sessions' = sessions
    BY <1>3 DEF IT!On!Dispatch
<1>4. ASSUME NEW t \in Threads, NEW s \in Sessions, Handled(t, s) \/ IT!On(t)!MsgRead(t, s) \/ ThreadHandled(t, s)
      PROVE  sessions' \subseteq sessions
    <2>1. CASE IT!On(t)!HeadRead(t, s)
        BY <2>1 DEF IT!On!HeadRead
    <2>2. QED
        BY <1>4, <2>1 DEF Handled, ThreadHandled, IT!On!AcceptStart, IT!On!MsgRead, IT!On!ReadError,
               IT!On!WriteDone, IT!On!WriteError, IT!InvalidHead, IT!WriteFails
<1>5. ASSUME NEW s \in Sessions, HandHandled(s)
      PROVE  sessions' \subseteq sessions /\ program \notin ByteServers
    BY <1>5 DEF HandHandled, RL!MsgComplete, AS!TakeMessage, AS!InvalidLength, ByteServers
<1>6. ASSUME HandRest
      PROVE  sessions' \subseteq sessions /\ program \notin ByteServers
    BY <1>6 DEF HandRest, RL!SendReply, AS!SendReply, AS!ReadSome, ByteServers
<1>7. ASSUME NEW s \in Sessions, ByteHandled(s)
      PROVE  sessions' = sessions
    BY <1>7 DEF ByteHandled, RE!ReadThenWrite, RE!WriteGoesOn, RE!WriteThenRead, RE!ReadFails, RE!WriteFails,
           OpenedAndNext
<1>8. ASSUME NEW t \in Threads, Ended(t)
      PROVE  sessions' = sessions
    BY <1>8 DEF Ended, dataVars
<1>9. QED
    BY <1>1, <1>2, <1>3, <1>4, <1>5, <1>6, <1>7, <1>8 DEF Step, Logic, ByteServers

LEMMA QueueTypesStep ==
    ASSUME EchoInv, Step, ReplyMove
    PROVE  QueueTypes'
<1>1. sessions' \subseteq Sessions
    <2>1. CASE sessions' \subseteq sessions
        BY <2>1 DEF EchoInv, QueueTypes
    <2>2. ASSUME NEW t \in Threads, Inserted(t)
          PROVE  sessions' \subseteq Sessions
        <3>1. cur[t] \in Sessions
            BY <2>2 DEF Inserted, EchoInv, ReadInvs, ThreadInv, Busy
        <3>2. QED
            BY <2>2, <3>1 DEF Inserted, EchoInv, QueueTypes
    <2>3. QED
        BY <2>1, <2>2, MapMoves
<1>2. msgQue' \in Seq(Entry)
    <2>1. msgQue \in Seq(Entry)
        BY DEF EchoInv, QueueTypes
    <2>2. CASE UNCHANGED msgQue
        BY <2>1, <2>2
    <2>3. CASE Dispatched
        BY <2>1, <2>3, HeadAndTail DEF Dispatched
    <2>4. ASSUME NEW s \in Sessions, Queued(s)
          PROVE  msgQue' \in Seq(Entry)
        <3>1. <<s, Len(node[s])>> \in Entry
            BY <2>4, TakenTypes DEF EchoInv, Queued, Entry
        <3>2. QED
            BY <2>1, <2>4, <3>1, Appended DEF Queued
    <2>5. QED
        BY <2>2, <2>3, <2>4 DEF ReplyMove, HandSent, ByteWritten, RE!ReadThenWrite
<1>3. QED
    BY <1>1, <1>2 DEF QueueTypes

LEMMA ByteStep ==
    ASSUME EchoInv, Step, program' = program
    PROVE  ByteInv'
<1> SUFFICES ASSUME program \in ByteServers
             PROVE  sessions' = {} /\ \A x \in Sessions : RE!OneThingOutstanding(x)'
    BY DEF ByteInv
<1>1. sessions = {} /\ \A x \in Sessions : RE!OneThingOutstanding(x)
    BY DEF EchoInv, ByteInv
<1>2. sessions' = {}
    BY <1>1, MapMoves
<1> DEFINE Goal == \A x \in Sessions : RE!OneThingOutstanding(x)'
<1>3. /\ rd \in [Sessions -> {"none", "head", "body"}] /\ \A x \in Sessions : rd[x] # "body"
      /\ sock \in [Sessions -> SockStates]
      /\ writes \in [Sessions -> Seq(WriteStates)] /\ \A x \in Sessions : Len(writes[x]) <= 1
    BY DEF EchoInv, ReadInvs, ReadTypes, ReadInv, Reader, NodesCounted, SocketTypes, ReplyTypes, WriteInv
<1> USE DEF RE!OneThingOutstanding
<1>4. ASSUME UNCHANGED <<rd, writes>>, \A x \in Sessions : sock'[x] = "open" <=> sock[x] = "open"
      PROVE  Goal
    BY <1>1, <1>4
<1>5. ASSUME NEW s \in Sessions, Refused(s)
      PROVE  Goal
    <2>1. [sock EXCEPT ![s] = "refused"] \in [Sessions -> SockStates] /\ sock[s] = "accepting"
        BY <1>3, <1>5 DEF Refused, SockStates
    <2>2. NextAccept([sock EXCEPT ![s] = "refused"]) /\ UNCHANGED <<rd, writes>>
        BY <1>5 DEF Refused, replyVars
    <2>3. \A x \in Sessions : sock'[x] = "open" <=> sock[x] = "open"
        BY <1>3, <2>1, <2>2, NextAcceptSockets
    <2>4. QED
        BY <1>4, <2>2, <2>3
<1>6. ASSUME NEW s \in Sessions, OpenedAndNext(s)
      PROVE  Goal
    <2>1. [sock EXCEPT ![s] = "open"] \in [Sessions -> SockStates] /\ sock[s] = "accepting"
        BY <1>3, <1>6 DEF OpenedAndNext, SockStates
    <2>2. /\ NextAccept([sock EXCEPT ![s] = "open"])
          /\ rd' = [rd EXCEPT ![s] = "head"] /\ UNCHANGED writes
        BY <1>6 DEF OpenedAndNext, replyVars
    <2>3. sock'[s] = "open" /\ \A x \in Sessions \ {s} : sock'[x] = "open" <=> sock[x] = "open"
        BY <1>3, <2>1, <2>2, NextAcceptSockets
    <2>4. writes[s] = <<>>
        BY <1>1, <2>1
    <2>5. QED
        BY <1>1, <1>3, <2>2, <2>3, <2>4
<1>7. ASSUME NEW s \in Sessions, RE!ReadThenWrite(s)
      PROVE  Goal
    <2>1. /\ rd[s] = "head" /\ rd' = [rd EXCEPT ![s] = "none"] /\ sock' = sock
          /\ writes' = [writes EXCEPT ![s] = Append(writes[s], "started")]
        BY <1>7 DEF RE!ReadThenWrite
    <2>2. sock[s] = "open" /\ Append(writes[s], "started") # <<>>
        BY <1>1, <1>3, <2>1
    <2>3. QED
        BY <1>1, <1>3, <2>1, <2>2
<1>8. ASSUME NEW s \in Sessions, RE!WriteThenRead(s) \/ RE!WriteFails(s)
      PROVE  Goal
    <2>1. /\ writes[s] # <<>> /\ writes' = [writes EXCEPT ![s] = Tail(writes[s])]
          /\ \/ rd' = [rd EXCEPT ![s] = "head"] /\ sock' = sock
             \/ rd' = rd /\ sock' = [sock EXCEPT ![s] = "closed"]
        BY <1>8 DEF RE!WriteThenRead, RE!WriteSome, RE!WriteFails
    <2>2. Tail(writes[s]) = <<>>
        BY <1>3, <2>1, TailOfShort
    <2>3. sock[s] = "open" /\ rd[s] = "none"
        BY <1>1, <1>3, <2>1
    <2>4. QED
        BY <1>1, <1>3, <2>1, <2>2, <2>3
<1>9. ASSUME NEW s \in Sessions, RE!ReadFails(s)
      PROVE  Goal
    <2>1. /\ rd[s] = "head" /\ rd' = [rd EXCEPT ![s] = "none"] /\ writes' = writes
          /\ sock' = [sock EXCEPT ![s] = "closed"]
        BY <1>9 DEF RE!ReadFails, RE!replyVars
    <2>2. writes[s] = <<>>
        BY <1>1, <2>1
    <2>3. QED
        BY <1>1, <1>3, <2>1, <2>2
<1> HIDE DEF RE!OneThingOutstanding, Goal
<1>10. ASSUME NEW s \in Sessions, RE!WriteGoesOn(s)
       PROVE  Goal
    BY <1>4, <1>10 DEF RE!WriteGoesOn
<1>11. ASSUME NEW s \in Sessions, ClientOf(s)
       PROVE  Goal
    BY <1>4, <1>11 DEF ClientOf, Connect, Leave, Request, replyVars
<1>12. ASSUME NEW t \in Threads, Ended(t)
       PROVE  Goal
    BY <1>4, <1>12 DEF Ended, dataVars, replyVars
<1>13. Goal
    BY <1>5, <1>6, <1>7, <1>8, <1>9, <1>10, <1>11, <1>12
       DEF Step, ByteHandled, HandHandled, HandRest, Logic, ByteServers
<1>14. QED
    BY <1>2, <1>13 DEF Goal
-----------------------------------------------------------------------------
(***************************************************************************)
(* What the steps do to the threads, the reads and the map.                *)
(***************************************************************************)

\* Thread t is about to call a handler of s, or at a later round of its loop.
AtHandler(t, s) == pc[t] = "run" \/ (pc[t] = "loop" /\ cur[t] = s)

\* A session is started.
Starts(t, s) ==
    /\ pc[t] = "run"
    /\ rd' = [rd EXCEPT ![s] = "head"]
    /\ Continue(t, "insert", s) /\ UNCHANGED sessions

\* A head was read.
HeadTaken(t, s) ==
    /\ pc[t] = "run"
    /\ rd' = [rd EXCEPT ![s] = "body"]
    /\ UNCHANGED <<threadVars, sessions>>

\* What was read is not valid: the session is removed in the same handler.
Drops(t, s) ==
    /\ AtHandler(t, s)
    /\ rd' = [rd EXCEPT ![s] = "none"]
    /\ sessions' = sessions \ {s}
    /\ UNCHANGED threadVars \/ Return(t)

\* A handler that is cut.
Enters(t, s) ==
    /\ AtHandler(t, s)
    /\ UNCHANGED rd \/ rd' = [rd EXCEPT ![s] = "none"]
    /\ \/ Continue(t, "clear", s) /\ InItsStrand(t, s)
       \/ \E at \in {"rearm", "send"} : Continue(t, at, s)
    /\ UNCHANGED sessions

\* The rest of one.
GoesOn(t) ==
    /\ \/ /\ pc[t] \in {"rearm", "send", "loop"}
          /\ rd' = [rd EXCEPT ![cur[t]] = "head"]
          /\ Return(t)
       \/ pc[t] = "send" /\ Continue(t, "loop", cur[t]) /\ UNCHANGED rd
    /\ UNCHANGED sessions

Clears(t) ==
    /\ pc[t] = "clear"
    /\ sessions' = sessions \ {cur[t]}
    /\ Return(t) /\ UNCHANGED rd

ThreadMove ==
    \/ UNCHANGED <<rd, threadVars>> /\ sessions' \subseteq sessions
    \/ program \in ByteServers /\ UNCHANGED <<threadVars, sessions>>
    \/ \E t \in Threads :
          /\ OnItsThread(t) /\ program \notin ByteServers
          /\ \/ \E s \in Sessions : Starts(t, s) \/ HeadTaken(t, s) \/ Drops(t, s) \/ Enters(t, s)
             \/ GoesOn(t) \/ Clears(t) \/ Inserted(t)
    \/ \E t \in Threads : Ended(t)

LEMMA ThreadMoves ==
    ASSUME Step
    PROVE  ThreadMove
<1>1. CASE UNCHANGED <<rd, threadVars>> /\ sessions' \subseteq sessions
    BY <1>1 DEF ThreadMove
<1>2. ASSUME NEW t \in Threads, NEW s \in Sessions, OnItsThread(t), program \notin ByteServers,
             IT!On(t)!AcceptStart(s) \/ IT!On(t)!HeadRead(t, s) \/ IT!On(t)!MsgRead(t, s)
               \/ (InItsStrand(t, s) /\ (IT!On(t)!ReadError(t, s) \/ IT!InvalidHead(t, s) \/ IT!WriteFails(t, s)))
      PROVE  ThreadMove
    <2>1. CASE IT!On(t)!AcceptStart(s)
        <3>1. Starts(t, s)
            BY <2>1 DEF IT!On!AcceptStart, IT!On!Free, IT!On!Continue, Continue, Starts
        <3>2. QED
            BY <1>2, <3>1 DEF ThreadMove
    <2>2. CASE IT!On(t)!HeadRead(t, s)
        <3>1. HeadTaken(t, s) \/ Drops(t, s)
            <4>1. CASE Head(inbox[s]).id = "invalid"
                BY <2>2, <4>1 DEF IT!On!HeadRead, IT!On!Reading, IT!On!Free, IT!On!threadVars, threadVars, Drops, AtHandler
            <4>2. CASE Head(inbox[s]).id # "invalid"
                BY <2>2, <4>2 DEF IT!On!HeadRead, IT!On!Reading, IT!On!Free, IT!On!threadVars, threadVars, HeadTaken
            <4>3. QED
                BY <4>1, <4>2
        <3>2. QED
            BY <1>2, <3>1 DEF ThreadMove
    <2>3. CASE IT!On(t)!MsgRead(t, s)
        <3>1. Enters(t, s)
            BY <2>3 DEF IT!On!MsgRead, IT!On!Reading, IT!On!Free, IT!On!Continue, Continue, Enters, AtHandler
        <3>2. QED
            BY <1>2, <3>1 DEF ThreadMove
    <2>4. CASE InItsStrand(t, s) /\ (IT!On(t)!ReadError(t, s) \/ IT!InvalidHead(t, s) \/ IT!WriteFails(t, s))
        <3>1. Enters(t, s)
            BY <2>4 DEF IT!On!ReadError, IT!On!Reading, IT!On!Free, IT!On!Continue, IT!InvalidHead,
                   IT!WriteFails, IT!Free, IT!Continue, Continue, Enters, AtHandler
        <3>2. QED
            BY <1>2, <3>1 DEF ThreadMove
    <2>5. QED
        BY <1>2, <2>1, <2>2, <2>3, <2>4
<1>3. ASSUME NEW t \in Threads, NEW s \in Sessions, IT!On(t)!WriteDone(t, s) \/ IT!On(t)!WriteError(t, s)
      PROVE  ThreadMove
    BY <1>1, <1>3 DEF IT!On!WriteDone, IT!On!WriteError, IT!On!threadVars, threadVars
<1>4. ASSUME NEW t \in Threads, OnItsThread(t), program \notin ByteServers, Rest(t)
      PROVE  ThreadMove
    <2>1. GoesOn(t) \/ Clears(t) \/ Inserted(t)
        BY <1>4 DEF Rest, IT!On!ReadHeadAgain, IT!On!ClearSession, IT!On!Return, IT!On!Continue, Return,
               Continue, GoesOn, Clears
    <2>2. QED
        BY <1>4, <2>1 DEF ThreadMove
<1>5. ASSUME NEW t \in Threads, IT!On(t)!Dispatch
      PROVE  ThreadMove
    BY <1>1, <1>5 DEF IT!On!Dispatch, IT!On!threadVars, threadVars
<1>6. ASSUME NEW s \in Sessions, HandHandled(s)
      PROVE  ThreadMove
    <2>1. OnItsThread(Acceptor) /\ Acceptor \in Threads /\ program \notin ByteServers
        BY <1>6, Threading DEF OnItsThread, HandHandled, ByteServers
    <2>2. Enters(Acceptor, s) \/ Drops(Acceptor, s)
        BY <1>6 DEF HandHandled, RL!MsgComplete, RL!Io!Reading, RL!Io!Free, RL!Continue, AS!TakeMessage,
               AS!InvalidLength, AS!InLoop, AS!Io!Reading, AS!Io!Free, AS!Continue, AS!Return, Continue,
               Return, Enters, Drops, AtHandler
    <2>3. QED
        BY <2>1, <2>2 DEF ThreadMove
<1>7. CASE HandRest
    <2>1. OnItsThread(Acceptor) /\ Acceptor \in Threads /\ program \notin ByteServers
        BY <1>7, Threading DEF OnItsThread, HandRest, ByteServers
    <2>2. GoesOn(Acceptor)
        BY <1>7 DEF HandRest, RL!SendReply, RL!Return, RL!Continue, AS!SendReply, AS!ReadSome, AS!Return,
               AS!Continue, Return, Continue, GoesOn
    <2>3. QED
        BY <2>1, <2>2 DEF ThreadMove
<1>8. ASSUME NEW s \in Sessions, program \in ByteServers, ByteHandled(s)
      PROVE  ThreadMove
    <2>1. UNCHANGED <<threadVars, sessions>>
        BY <1>8 DEF ByteHandled, RE!ReadThenWrite, RE!WriteGoesOn, RE!WriteThenRead, RE!ReadFails,
               RE!WriteFails, OpenedAndNext, RE!threadVars, threadVars
    <2>2. QED
        BY <1>8, <2>1 DEF ThreadMove
<1>9. ASSUME NEW t \in Threads, Ended(t)
      PROVE  ThreadMove
    BY <1>9 DEF ThreadMove
<1> HIDE DEF ThreadMove
<1>10. ASSUME NEW s \in Sessions, ClientOf(s) \/ Refused(s)
       PROVE  ThreadMove
    BY <1>1, <1>10 DEF ClientOf, Connect, Leave, Request, Refused
<1>11. ASSUME NEW t \in Threads, NEW s \in Sessions, OnItsThread(t), program \notin ByteServers,
              Handled(t, s) \/ ThreadHandled(t, s)
       PROVE  ThreadMove
    BY <1>2, <1>3, <1>11 DEF Handled, ThreadHandled
<1>12. QED
    BY <1>2, <1>4, <1>5, <1>6, <1>7, <1>8, <1>9, <1>10, <1>11 DEF Step, Logic, ByteServers
-----------------------------------------------------------------------------
(***************************************************************************)
(* The invariant of all programs.                                          *)
(***************************************************************************)
PeerTypes == peer \in [Sessions -> {"none", "up", "gone"}]

LEMMA PeerStep ==
    ASSUME PeerTypes, Step
    PROVE  PeerTypes'
<1> USE DEF PeerTypes
<1>1. CASE UNCHANGED peer
    BY <1>1
<1>2. ASSUME NEW s \in Sessions, ClientOf(s) \/ Refused(s)
      PROVE  PeerTypes'
    BY <1>2 DEF ClientOf, Connect, Leave, Request, Refused
<1> HIDE DEF PeerTypes
<1>3. ASSUME NEW t \in Threads, Rest(t) \/ IT!On(t)!Dispatch \/ Ended(t)
      PROVE  PeerTypes'
    BY <1>1, <1>3 DEF Rest, IT!On!ReadHeadAgain, IT!On!ClearSession, IT!On!Dispatch, IT!On!clientVars,
           Inserted, Ended, dataVars, clientVars
<1>4. ASSUME NEW t \in Threads, NEW s \in Sessions,
             Handled(t, s) \/ IT!On(t)!MsgRead(t, s) \/ ThreadHandled(t, s)
      PROVE  PeerTypes'
    BY <1>1, <1>4
       DEF Handled, IT!On!AcceptStart, IT!On!HeadRead, IT!On!MsgRead, IT!On!ReadError, IT!On!WriteDone,
           IT!On!WriteError, IT!On!clientVars, ThreadHandled, IT!InvalidHead, IT!WriteFails, IT!clientVars
<1>5. ASSUME NEW s \in Sessions, HandHandled(s) \/ HandRest
      PROVE  PeerTypes'
    BY <1>1, <1>5
       DEF HandHandled, RL!MsgComplete, AS!TakeMessage, AS!InvalidLength, HandRest, RL!SendReply,
           AS!SendReply, AS!ReadSome, RL!clientVars, AS!clientVars
<1>6. CASE HandRest
    BY <1>1, <1>6 DEF HandRest, RL!SendReply, AS!SendReply, AS!ReadSome, RL!clientVars, AS!clientVars
<1>7. ASSUME NEW s \in Sessions, ByteHandled(s)
      PROVE  PeerTypes'
    BY <1>1, <1>7
       DEF ByteHandled, RE!ReadThenWrite, RE!WriteGoesOn, RE!WriteThenRead, RE!ReadFails, RE!WriteFails,
           RE!clientVars, OpenedAndNext, clientVars
<1>8. QED
    BY <1>2, <1>3, <1>4, <1>5, <1>6, <1>7 DEF Step

\* A reply in the queue is a request that was taken.
LEMMA QueuedAreTaken ==
    ASSUME ReadInvs, ReplyTypes, OrderInv
    PROVE  RepliesTaken
<1> SUFFICES ASSUME NEW s \in Sessions, sendQue[s] # <<>>
             PROVE  Taken(s) > 0
    BY DEF RepliesTaken
<1>1. written[s] \in Seq(Requests) /\ sendQue[s] \in Seq(Requests)
    BY DEF ReplyTypes
<1>2. Len(Replied(s)) \in 1 .. Len(Replied(s))
    <2>1. Joins(written[s] \o sendQue[s], written[s], sendQue[s])
        BY <1>1, Joined
    <2>2. Len(sendQue[s]) > 0 /\ Len(written[s]) \in Nat
        BY <1>1
    <2>3. Len(Replied(s)) = Len(written[s]) + Len(sendQue[s]) /\ Len(sendQue[s]) \in Nat
        BY <2>1, Zenon DEF Joins, Replied
    <2>4. PICK a, b, c : a = Len(written[s]) /\ b = Len(sendQue[s]) /\ c = Len(Replied(s))
        OBVIOUS
    <2>5. a \in Nat /\ b \in Nat /\ b > 0 /\ c = a + b
        BY <2>2, <2>3, <2>4, Zenon
    <2>6. c \in 1 .. c
        BY <2>5
    <2>7. QED
        BY <2>4, <2>6, Zenon
<1>3. Replied(s)[Len(Replied(s))] \in 1 .. Taken(s)
    BY <1>2 DEF OrderInv, RepliesRise
<1>4. QED
    BY <1>3, TakenTypes

LEMMA EchoInit == ProgramInit => HomeTypes /\ EchoInv
<1> SUFFICES ASSUME ProgramInit
             PROVE  HomeTypes /\ EchoInv
    OBVIOUS
<1>1. Init
    BY DEF ProgramInit
<1>2. ClientTypes /\ SocketTypes /\ NodeTypes /\ ReplyTypes /\ QueueTypes /\ PoolTypes
    BY <1>1, TypeInit DEF TypeInv
<1>3. ReadTypes /\ PeerTypes
    BY <1>2 DEF ClientTypes, NodeTypes, ReadTypes, PeerTypes
<1>4. ByteInv
    <2>1. sessions = {} /\ \A s \in Sessions : sock[s] # "open" /\ rd[s] = "none" /\ writes[s] = <<>>
        BY <1>1 DEF Init
    <2>2. QED
        BY <2>1 DEF ByteInv, RE!OneThingOutstanding
<1>5. QED
    BY <1>1, <1>2, <1>3, <1>4, ThreadInit, ReadInit, WriteInit, OrderInit
       DEF EchoInv, ReadInvs, PoolTypes, HomeTypes, PeerTypes

LEMMA StepOrStutter ==
    ASSUME HomeTypes, [ProgramNext]_programVars
    PROVE  Step /\ program' = program
<1>1. CASE ProgramNext
    BY <1>1, Steps DEF HomeTypes
<1>2. CASE UNCHANGED programVars
    <2>1. UNCHANGED <<dataVars, stopped, threadVars, program>>
        BY <1>2 DEF programVars, vars, dataVars, poolVars
    <2>2. Ended(Acceptor)
        BY <2>1 DEF Ended
    <2>3. QED
        BY <2>1, <2>2, Threading DEF Step
<1>3. QED
    BY <1>1, <1>2

LEMMA EchoStep ==
    ASSUME HomeTypes, EchoInv, [ProgramNext]_programVars
    PROVE  HomeTypes' /\ EchoInv'
<1>1. Step /\ program' = program
    BY StepOrStutter
<1>2. HomeTypes'
    <2>1. CASE ProgramNext
        BY <2>1, HomeStep DEF EchoInv, ReadInvs
    <2>2. CASE UNCHANGED programVars
        BY <2>2 DEF programVars, vars, poolVars, HomeTypes
    <2>3. QED
        BY <2>1, <2>2
<1>3. /\ ReadInvs /\ ReplyTypes /\ WriteInv /\ OrderInv /\ PeerTypes
      /\ ReadTypes /\ SocketTypes /\ ThreadInv
    BY DEF EchoInv, ReadInvs, PeerTypes
<1>4. ClientTypes
    BY <1>3 DEF ClientTypes, ReadTypes, PeerTypes
<1>5. SocketTypes' /\ ClientsKept /\ SocketsKept
    BY <1>1, <1>3, <1>4, SocketStep
<1>6. ThreadInv'
    BY <1>1, <1>3, ThreadsStep
<1>7. ReadTypes' /\ ReadInv'
    BY <1>1, <1>3, <1>5, QueuedAreTaken, ReadStep
<1>8. ReplyMove /\ \A x \in Sessions : Grows(x)
    BY <1>1, <1>3, <1>5, ReplyMoves, GrowsStep
<1>9. ReplyTypes' /\ WriteInv'
    BY <1>1, <1>5, <1>8, ReplyKeeps
<1>10. OrderInv' /\ QueueTypes' /\ ByteInv'
    BY <1>1, <1>5, <1>6, <1>8, OrderStep, QueueTypesStep, ByteStep
<1>11. PeerTypes'
    BY <1>1, <1>3, PeerStep
<1>12. QED
    BY <1>2, <1>5, <1>6, <1>7, <1>9, <1>10, <1>11 DEF EchoInv, ReadInvs, PeerTypes

LEMMA EchoInvariant == ProgramSpec => [](HomeTypes /\ EchoInv)
<1>1. ProgramInit => HomeTypes /\ EchoInv
    BY EchoInit
<1>2. HomeTypes /\ EchoInv /\ [ProgramNext]_programVars => (HomeTypes /\ EchoInv)'
    BY EchoStep
<1>3. QED
    BY <1>1, <1>2, PTL DEF ProgramSpec
-----------------------------------------------------------------------------
(***************************************************************************)
(* The map of sessions, the threads that change it, and the process's end. *)
(***************************************************************************)

\* One thread: the session that it is about to insert is being read.
InsertReads ==
    program \notin Pools /\ pc[Acceptor] = "insert" => rd[cur[Acceptor]] = "head"

MapInvs == InsertReads /\ ErasesInStrand /\ ServerOutlivesHandlers

LEMMA MapInvsInit == ProgramInit => MapInvs
<1> SUFFICES ASSUME ProgramInit
             PROVE  MapInvs
    OBVIOUS
<1>1. \A t \in Threads : pc[t] = "run"
    BY DEF ProgramInit, Init
<1>2. InsertReads /\ ServerOutlivesHandlers
    BY <1>1, Threading DEF InsertReads, ServerOutlivesHandlers
<1>3. ErasesInStrand
    BY <1>1 DEF ErasesInStrand, IT!EveryErasureInItsStrand, IT!PoolThreads, IT!Threads, Threads
<1>4. QED
    BY <1>2, <1>3 DEF MapInvs

\* What one thread does, for the lemmas below.
OfThread(t) ==
    \/ \E s \in Sessions : Starts(t, s) \/ HeadTaken(t, s) \/ Drops(t, s) \/ Enters(t, s)
    \/ GoesOn(t) \/ Clears(t) \/ Inserted(t)

LEMMA ThreadCases ==
    ASSUME ThreadMove
    PROVE  \/ UNCHANGED <<rd, threadVars>> /\ sessions' \subseteq sessions
           \/ program \in ByteServers /\ UNCHANGED <<threadVars, sessions>>
           \/ \E t \in Threads : OnItsThread(t) /\ program \notin ByteServers /\ OfThread(t)
           \/ \E t \in Threads : Ended(t)
BY DEF ThreadMove, OfThread

\* A thread that handles something changes itself only, and was inside or before it.
LEMMA OneThreadMoves ==
    ASSUME ThreadInv, NEW t \in Threads, OfThread(t)
    PROVE  /\ pc[t] \in Busy \cup {"run"} /\ pc'[t] \in Busy \cup {"run"}
           /\ \A u \in Threads \ {t} : pc'[u] = pc[u] /\ cur'[u] = cur[u]
<1>1. pc \in [Threads -> ProgramPCs] /\ cur \in [Threads -> Sessions \cup {NoSession}]
    BY DEF ThreadInv
<1>2. QED
    BY <1>1 DEF OfThread, Starts, HeadTaken, Drops, Enters, GoesOn, Clears, Inserted, AtHandler, Busy,
           Return, Continue, threadVars

LEMMA InsertReadsStep ==
    ASSUME EchoInv, InsertReads, ThreadMove, program' = program
    PROVE  InsertReads'
<1> SUFFICES ASSUME program \notin Pools, pc'[Acceptor] = "insert"
             PROVE  rd'[cur'[Acceptor]] = "head"
    BY DEF InsertReads
<1>1. /\ pc \in [Threads -> ProgramPCs] /\ cur \in [Threads -> Sessions \cup {NoSession}]
      /\ rd \in [Sessions -> {"none", "head", "body"}]
      /\ program \in ByteServers => pc[Acceptor] # "insert"
      /\ pc[Acceptor] = "insert" => rd[cur[Acceptor]] = "head"
      /\ Acceptor \in Threads
    BY Threading DEF EchoInv, ReadInvs, ReadTypes, ThreadInv, Busy, InsertReads
<1>2. CASE UNCHANGED <<rd, threadVars>>
    BY <1>1, <1>2 DEF threadVars
<1>3. CASE program \in ByteServers /\ UNCHANGED threadVars
    BY <1>1, <1>3 DEF threadVars
<1>4. ASSUME OfThread(Acceptor)
      PROVE  rd'[cur'[Acceptor]] = "head"
    BY <1>1, <1>4 DEF OfThread, Starts, HeadTaken, Drops, Enters, GoesOn, Clears, Inserted, AtHandler,
           Return, Continue, threadVars
<1>5. ASSUME NEW t \in Threads, Ended(t)
      PROVE  rd'[cur'[Acceptor]] = "head"
    BY <1>1, <1>5 DEF Ended, dataVars, Continue, threadVars
<1>6. QED
    BY <1>2, <1>3, <1>4, <1>5, ThreadCases DEF OnItsThread

LEMMA ErasesStep ==
    ASSUME EchoInv, ErasesInStrand, ThreadMove, program' = program
    PROVE  ErasesInStrand'
<1> SUFFICES ASSUME program = "IoThreadPool", NEW t \in Threads \ {Acceptor}, NEW u \in Threads \ {Acceptor},
                    t # u, pc'[t] = "clear", pc'[u] = "clear"
             PROVE  cur'[t] # cur'[u]
    BY DEF ErasesInStrand, IT!EveryErasureInItsStrand, IT!PoolThreads, IT!Threads, Threads
<1>1. /\ ThreadInv /\ pc \in [Threads -> ProgramPCs] /\ cur \in [Threads -> Sessions \cup {NoSession}]
      /\ program \notin ByteServers
    BY DEF EchoInv, ReadInvs, ThreadInv, ByteServers
<1>2. \A x, y \in Threads \ {Acceptor} : x # y /\ pc[x] = "clear" /\ pc[y] = "clear" => cur[x] # cur[y]
    BY DEF ErasesInStrand, IT!EveryErasureInItsStrand, IT!PoolThreads, IT!Threads, Threads
<1>3. CASE UNCHANGED threadVars
    BY <1>2, <1>3 DEF threadVars
<1>4. ASSUME NEW x \in Threads, NEW y \in Threads \ {Acceptor}, x # y, OfThread(x),
             pc'[x] = "clear", pc[y] = "clear"
      PROVE  cur'[x] # cur[y]
    <2>1. PICK s \in Sessions : Enters(x, s) /\ Continue(x, "clear", s) /\ InItsStrand(x, s)
        BY <1>1, <1>4 DEF OfThread, Starts, HeadTaken, Drops, Enters, GoesOn, Clears, Inserted, AtHandler,
               Return, Continue, threadVars
    <2>2. cur'[x] = s
        BY <1>1, <2>1 DEF Continue
    <2>3. cur[y] # s
        BY <1>4, <2>1 DEF InItsStrand, IT!InStrand, IT!PoolThreads, IT!Threads, Threads
    <2>4. QED
        BY <2>2, <2>3
<1>5. ASSUME NEW x \in Threads, OfThread(x)
      PROVE  cur'[t] # cur'[u]
    <2>1. \A y \in Threads \ {x} : pc'[y] = pc[y] /\ cur'[y] = cur[y]
        BY <1>1, <1>5, OneThreadMoves
    <2>2. CASE x # t /\ x # u
        BY <1>2, <2>1, <2>2
    <2>3. CASE x = t
        BY <1>4, <1>5, <2>1, <2>3
    <2>4. CASE x = u
        BY <1>4, <1>5, <2>1, <2>4
    <2>5. QED
        BY <2>2, <2>3, <2>4
<1>6. ASSUME NEW x \in Threads, Ended(x)
      PROVE  cur'[t] # cur'[u]
    <2>1. \A y \in {t, u} : pc[y] = "clear" /\ cur'[y] = cur[y]
        BY <1>1, <1>6 DEF Ended, Continue, threadVars
    <2>2. QED
        BY <1>2, <2>1
<1>7. QED
    BY <1>1, <1>3, <1>5, <1>6, ThreadCases

LEMMA OutlivesStep ==
    ASSUME EchoInv, ServerOutlivesHandlers, ThreadMove, program' = program
    PROVE  ServerOutlivesHandlers'
<1> SUFFICES ASSUME program \in Pools, pc'[Acceptor] = "returned", NEW u \in Threads
             PROVE  pc'[u] = "returned"
    BY DEF ServerOutlivesHandlers, Pools
<1>1. /\ ThreadInv /\ pc \in [Threads -> ProgramPCs] /\ Acceptor \in Threads
      /\ pc[Acceptor] = "returned" => \A t \in Threads : pc[t] = "returned"
    BY Threading DEF EchoInv, ReadInvs, ThreadInv, ServerOutlivesHandlers, Pools
<1>2. CASE UNCHANGED threadVars
    BY <1>1, <1>2 DEF threadVars
<1>3. ASSUME NEW t \in Threads, OfThread(t)
      PROVE  pc'[u] = "returned"
    BY <1>1, <1>3, OneThreadMoves DEF Busy
<1>4. ASSUME NEW t \in Threads, Ended(t)
      PROVE  pc'[u] = "returned"
    BY <1>1, <1>4 DEF Ended, Continue, threadVars, Pools
<1>5. QED
    BY <1>2, <1>3, <1>4, ThreadCases

LEMMA MapInvariant == ProgramSpec => [](HomeTypes /\ EchoInv /\ MapInvs)
<1>1. ProgramInit => MapInvs
    BY MapInvsInit
<1>2. ASSUME HomeTypes, EchoInv, MapInvs, [ProgramNext]_programVars
      PROVE  MapInvs'
    <2>1. ThreadMove /\ program' = program
        BY <1>2, StepOrStutter, ThreadMoves
    <2>2. QED
        BY <1>2, <2>1, InsertReadsStep, ErasesStep, OutlivesStep DEF MapInvs
<1>3. QED
    BY <1>1, <1>2, EchoInvariant, PTL DEF ProgramSpec

\* A session that a thread handles leaks in the step in which it is inserted, or not.
LEMMA ThreadLeaks ==
    ASSUME EchoInv, NEW t \in Threads, OfThread(t), NEW s \in Sessions, Leaked(s)', ~Leaked(s)
    PROVE  pc[t] = "insert" /\ cur[t] = s /\ rd[s] = "none"
<1>1. /\ pc \in [Threads -> ProgramPCs] /\ cur \in [Threads -> Sessions \cup {NoSession}]
      /\ rd \in [Sessions -> {"none", "head", "body"}]
      /\ pc[t] \in Busy <=> cur[t] # NoSession
    BY DEF EchoInv, ReadInvs, ReadTypes, ThreadInv
<1>2. /\ s \in sessions' /\ rd'[s] = "none" /\ cur'[t] # s
      /\ \A u \in Threads \ {t} : cur[u] # s
    BY OneThreadMoves DEF Leaked, EchoInv, ReadInvs
<1>3. ASSUME s \in sessions, rd[s] = "none", cur[t] # s
      PROVE  FALSE
    BY <1>2, <1>3 DEF Leaked
<1>4. pc[t] = "run" => cur[t] # s
    BY <1>1, NoSessionAssumption DEF Busy
<1>5. ASSUME NEW x \in Sessions, Starts(t, x) \/ HeadTaken(t, x)
      PROVE  FALSE
    BY <1>1, <1>2, <1>3, <1>4, <1>5 DEF Starts, HeadTaken, Continue
<1>6. ASSUME NEW x \in Sessions, Drops(t, x)
      PROVE  FALSE
    BY <1>1, <1>2, <1>3, <1>4, <1>6 DEF Drops, AtHandler
<1>7. ASSUME NEW x \in Sessions, Enters(t, x)
      PROVE  FALSE
    <2>1. cur'[t] = x
        BY <1>1, <1>7 DEF Enters, Continue
    <2>2. QED
        BY <1>1, <1>2, <1>3, <1>4, <1>7, <2>1 DEF Enters, AtHandler
<1>8. ASSUME GoesOn(t)
      PROVE  FALSE
    BY <1>1, <1>2, <1>3, <1>8 DEF GoesOn, Continue, Return
<1>9. ASSUME Clears(t)
      PROVE  FALSE
    BY <1>1, <1>2, <1>3, <1>9 DEF Clears
<1>10. Inserted(t)
    BY <1>5, <1>6, <1>7, <1>8, <1>9 DEF OfThread
<1>11. QED
    BY <1>2, <1>3, <1>10 DEF Inserted

LEMMA LeakStep ==
    ASSUME EchoInv, InsertReads, ThreadMove, NEW s \in Sessions, Leaked(s)', ~Leaked(s)
    PROVE  program \in Pools /\ \E t \in Threads : pc[t] = "insert" /\ cur[t] = s
<1>1. /\ s \in sessions' /\ rd'[s] = "none" /\ \A t \in Threads : cur'[t] # s
    BY DEF Leaked
<1>2. CASE UNCHANGED <<rd, threadVars>> /\ sessions' \subseteq sessions
    BY <1>1, <1>2 DEF threadVars, Leaked
<1>3. CASE program \in ByteServers /\ UNCHANGED sessions
    BY <1>1, <1>3 DEF EchoInv, ByteInv
<1>4. ASSUME NEW t \in Threads, OnItsThread(t), OfThread(t)
      PROVE  program \in Pools /\ \E u \in Threads : pc[u] = "insert" /\ cur[u] = s
    BY <1>4, ThreadLeaks DEF InsertReads, OnItsThread
<1>5. ASSUME NEW t \in Threads, Ended(t)
      PROVE  FALSE
    <2>1. sessions' = sessions /\ rd' = rd
        BY <1>5 DEF Ended, dataVars
    <2>2. \A u \in Threads : cur[u] # s
        <3>1. /\ cur \in [Threads -> Sessions \cup {NoSession}]
              /\ \A u \in Threads : pc[u] \in {"run", "stop"} => cur[u] # s
            BY NoSessionAssumption DEF EchoInv, ReadInvs, ThreadInv, Busy
        <3>2. QED
            BY <1>1, <1>5, <3>1, Threading DEF Ended, Continue, threadVars
    <2>3. QED
        BY <1>1, <2>1, <2>2 DEF Leaked
<1>6. QED
    BY <1>2, <1>3, <1>4, <1>5, ThreadCases
-----------------------------------------------------------------------------
(***************************************************************************)
(* The theorems.                                                           *)
(***************************************************************************)

\* In every program send, its callers and the handlers of the writes never have two
\* async_writes on one socket, and what is being written is in the queue.
THEOREM ProgramsWriteOneAtATime == ProgramSpec => []OneWriteOutstanding
<1>1. EchoInv => OneWriteOutstanding
    BY DEF EchoInv, WriteInv, OneWriteOutstanding
<1>2. QED
    BY <1>1, EchoInvariant, PTL

\* None of them leaves a reply in the queue without a write that will come to it,
\* unless the client has gone.
THEOREM ProgramsLeaveNoReply == ProgramSpec => []NoReplyStuck
<1>1. EchoInv => NoReplyStuck
    BY DEF EchoInv, WriteInv, NoReplyStuck
<1>2. QED
    BY <1>1, EchoInvariant, PTL

\* A reply that any of the programs writes or queues is to a request of the same
\* session that has a callback, in the order of the requests and each at most once,
\* although handleMsgRead posts a node to the logic worker and reads the next one.
THEOREM ProgramsReplyInOrder == ProgramSpec => []RepliesInOrder
<1>1. ASSUME EchoInv
      PROVE  RepliesInOrder
    <2> SUFFICES ASSUME NEW s \in Sessions
                 PROVE  /\ \A i, j \in DOMAIN Replied(s) : i < j => Replied(s)[i] < Replied(s)[j]
                        /\ \A i \in DOMAIN Replied(s) :
                              \E n \in DOMAIN node[s] : node[s][n] = [id |-> "hello", req |-> Replied(s)[i]]
        BY DEF RepliesInOrder, Replied
    <2>1. /\ ReadInvs /\ node[s] \in Seq(Node) /\ RepliesRise(s)
          /\ DOMAIN Replied(s) = 1 .. Len(Replied(s))
        <3>1. written[s] \in Seq(Requests) /\ sendQue[s] \in Seq(Requests)
            BY <1>1 DEF EchoInv, ReplyTypes
        <3>2. Replied(s) \in Seq(Requests)
            BY <3>1 DEF Replied
        <3>3. QED
            BY <1>1, <3>2 DEF EchoInv, ReadInvs, ReadTypes, OrderInv
    <2>2. ASSUME NEW i \in DOMAIN Replied(s)
          PROVE  \E n \in DOMAIN node[s] : node[s][n] = [id |-> "hello", req |-> Replied(s)[i]]
        <3> DEFINE n == Replied(s)[i]
        <3>1. n \in 1 .. Taken(s) /\ node[s][n].id = "hello"
            BY <2>1, <2>2 DEF RepliesRise
        <3>2. n \in DOMAIN node[s] /\ node[s][n].req = n
            BY <2>1, <3>1, TakenTypes
        <3>3. node[s][n] \in Node
            BY <2>1, <3>2
        <3>4. node[s][n] = [id |-> "hello", req |-> n]
            BY <3>1, <3>2, <3>3 DEF Node
        <3>5. QED
            BY <3>2, <3>4
    <2>3. QED
        BY <2>1, <2>2 DEF RepliesRise
<1>2. QED
    BY <1>1, EchoInvariant, PTL

\* In boost/async and boost/demo a session that is deleted has no read and no write
\* outstanding, and one that is not has exactly one of them: what its handlers do
\* with "this" is always done to a session that exists.
THEOREM EndedSessionsStayIdle == ProgramSpec => []EndedSessionsAreIdle
<1>1. EchoInv => EndedSessionsAreIdle
    BY DEF EchoInv, ByteInv, ByteServers, EndedSessionsAreIdle
<1>2. QED
    BY <1>1, EchoInvariant, PTL

\* In IoThreadPool two threads never erase the same session from the map, whichever
\* of its handlers fail: its strand serialises them.
THEOREM ErasuresInStrand == ProgramSpec => []ErasesInStrand
<1>1. MapInvs => ErasesInStrand
    BY DEF MapInvs
<1>2. QED
    BY <1>1, MapInvariant, PTL

\* When main has returned, and its Server is destroyed, no thread of either pool is
\* inside a handler that uses it: stop() joins them all.
THEOREM ServerOutlives == ProgramSpec => []ServerOutlivesHandlers
<1>1. MapInvs => ServerOutlivesHandlers
    BY DEF MapInvs
<1>2. QED
    BY <1>1, MapInvariant, PTL

\* A session is left in the map for ever only by the insertion of handleAccept that
\* comes after the session's own handler has cleared the map, which needs a second
\* thread: it happens in no program without a pool.
THEOREM LeaksAtInsertOnly == ProgramSpec => LeaksOnlyAtInsert
<1>1. ASSUME HomeTypes, EchoInv, MapInvs, [ProgramNext]_programVars
      PROVE  [\A s \in Sessions : Leaked(s)' /\ ~Leaked(s) =>
                 /\ program \in {"IoServicePool", "IoThreadPool"}
                 /\ \E t \in Threads : pc[t] = "insert" /\ cur[t] = s]_programVars
    <2>1. ThreadMove /\ InsertReads
        BY <1>1, StepOrStutter, ThreadMoves DEF MapInvs
    <2>2. QED
        BY <1>1, <2>1, LeakStep DEF Pools
<1>2. QED
    BY <1>1, MapInvariant, PTL DEF ProgramSpec, LeaksOnlyAtInsert
=============================================================================
