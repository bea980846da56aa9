---------------------------- MODULE EchoPrograms ----------------------------
(***************************************************************************)
(* The echo servers of src/src/boost side by side.  "program" says which   *)
(* one runs; each has its own handlers, and all of them have the same      *)
(* clients and are to be the same service.                                 *)
(***************************************************************************)
EXTENDS EchoServer

CONSTANTS
    Programs,  \* the programs that may run
    Sent       \* the kinds of requests that clients send (bounds the model)

VARIABLE program

LS == INSTANCE LogicServer
IT == INSTANCE IoThreadServer
RL == INSTANCE ReadAtLeastServer
AS == INSTANCE AsyncServer
RE == INSTANCE RawEchoServer
SE == INSTANCE SyncEchoServer

ASSUME ProgramsAssumption ==
    Programs \subseteq {"IoServicePool", "IoThreadPool", "LogicServer",
                        "readAtLeastServer", "asyncServer", "async", "demo"}
ASSUME SentAssumption == Sent \subseteq Kinds

\* The map of IoThreadPool is broken.
Broken == program = "IoThreadPool" /\ IT!MapRace

\* A step of program p.
Is(p) == program = p /\ ~Broken /\ UNCHANGED program

NoPool == UNCHANGED <<next, home>>

\* What a client may send: the servers without ids know valid and invalid requests,
\* the two that read bytes nothing invalid.
Sendable ==
    CASE program \in {"IoServicePool", "IoThreadPool", "LogicServer"} -> Kinds
      [] program \in {"readAtLeastServer", "asyncServer"} -> {"hello", "invalid"}
      [] program \in {"async", "demo"} -> {"hello"}

ProgramInit == Init /\ program \in Programs
-----------------------------------------------------------------------------
\* What the programs call the same thing.
ClientOf(s) ==
    /\ Is(program)
    /\ Connect(s) \/ Leave(s) \/ \E k \in Sendable \cap Sent : Request(s, k)

StartOf(s) ==
    \/ Is("IoServicePool") /\ AcceptStart(s)
    \/ Is("IoThreadPool") /\ \E t \in Threads \ {Acceptor} : IT!StartSession(t, s)
    \/ Is("LogicServer") /\ LS!StartSession(s) /\ NoPool
    \/ Is("readAtLeastServer") /\ RL!StartSession(s) /\ NoPool
    \/ Is("asyncServer") /\ AS!StartSession(s) /\ NoPool
    \/ Is("async") /\ RE!HandleAccept(s)
    \/ Is("demo") /\ SE!AcceptAndStart(s)

\* An accept that fails; nobody owes one.
RefuseOf(s) ==
    \/ Is("IoServicePool") /\ AcceptError(s)
    \/ Is("IoThreadPool") /\ \E t \in Threads \ {Acceptor} : IT!AcceptFails(t, s)
    \/ Is("LogicServer") /\ LS!AcceptFails(s) /\ NoPool
    \/ Is("readAtLeastServer") /\ RL!AcceptFails(s) /\ NoPool
    \/ Is("asyncServer") /\ AS!AcceptFails(s) /\ NoPool
    \/ Is("async") /\ RE!AcceptFails(s)
    \/ Is("demo") /\ SE!AcceptThrows

ReadOf(s) ==
    \/ Is("IoServicePool") /\ Read(home[s], s)
    \/ Is("IoThreadPool") /\ \E t \in Threads \ {Acceptor} : IT!HandleHeadRead(t, s) \/ IT!HandleMsgRead(t, s)
    \/ Is("LogicServer") /\ (LS!HandleHeadRead(s) \/ LS!HandleMsgRead(s)) /\ NoPool
    \/ Is("readAtLeastServer") /\ (RL!HandleHeadRead(s) \/ RL!HandleMsgRead(s)) /\ NoPool
    \/ Is("asyncServer") /\ AS!HandleRead(s) /\ NoPool
    \/ Is("async") /\ RE!HandleRead(s)
    \/ Is("demo") /\ SE!ReadSome(s)

WriteOf(s) ==
    \/ Is("IoServicePool") /\ Write(home[s], s)
    \/ Is("IoThreadPool") /\ \E t \in Threads \ {Acceptor} : IT!HandleWrite(t, s)
    \/ Is("LogicServer") /\ LS!HandleWrite(s) /\ NoPool
    \/ Is("readAtLeastServer") /\ RL!HandleWrite(s) /\ NoPool
    \/ Is("asyncServer") /\ AS!HandleWrite(s) /\ NoPool
    \/ Is("async") /\ RE!HandleWrite(s)
    \/ Is("demo") /\ SE!WriteAll(s)

\* The rest of a handler that was cut, on thread t.
RestOf(t) ==
    \/ Is("IoServicePool") /\ (ReadHeadAgain(t) \/ ClearSession(t) \/ (t = Acceptor /\ AcceptInsert))
    \/ Is("IoThreadPool") /\ t # Acceptor /\ (IT!ReadNextHead(t) \/ IT!EraseSession(t) \/ IT!HandleAccept(t))
    \/ /\ t = Acceptor
       /\ NoPool
       /\ \/ Is("LogicServer") /\ (LS!ReadNextHead \/ LS!EraseSession \/ LS!HandleAccept)
          \/ Is("readAtLeastServer") /\ (RL!SendReply \/ RL!EraseSession \/ RL!HandleAccept)
          \/ Is("asyncServer") /\ (AS!SendReply \/ AS!ReadSome \/ AS!EraseSession \/ AS!HandleAccept)

LogicOf ==
    \/ Is("IoServicePool") /\ Dispatch
    \/ Is("IoThreadPool") /\ IT!SendReply
    \/ Is("LogicServer") /\ LS!SendReply /\ NoPool

SignalOf ==
    \/ Is("IoServicePool") /\ Signal
    \/ Is("IoThreadPool") /\ Signal
    \/ Is("LogicServer") /\ LS!StopOnSignal /\ NoPool

StopOf ==
    \/ Is("IoServicePool") /\ ((\E i \in DOMAIN Pool : StopNext(i)) \/ Join)
    \/ Is("IoThreadPool") /\ (IT!StopService \/ IT!JoinThreads)
    \/ Is("LogicServer") /\ LS!MainReturns /\ NoPool

ReturnOf(t) == (Is("IoServicePool") \/ Is("IoThreadPool")) /\ RunReturns(t)

ProgramNext ==
    \/ \E s \in Sessions : ClientOf(s) \/ StartOf(s) \/ RefuseOf(s) \/ ReadOf(s) \/ WriteOf(s)
    \/ \E t \in Threads : RestOf(t) \/ ReturnOf(t)
    \/ LogicOf
    \/ SignalOf \/ StopOf

programVars == <<vars, program>>

ProgramSpec == ProgramInit /\ [][ProgramNext]_programVars

\* Threads run; an io_context calls its handlers first come, first served, so a
\* completion waits only for those before it (strong fairness: between two of
\* them its thread is busy with others).  Clients read their replies, but they
\* need not connect, send or leave; no accept has to fail and no signal to arrive.
Fairness ==
    /\ \A s \in Sessions :
          SF_programVars(StartOf(s)) /\ SF_programVars(ReadOf(s)) /\ SF_programVars(WriteOf(s))
    /\ \A t \in Threads : WF_programVars(RestOf(t) \/ ReturnOf(t))
    /\ WF_programVars(LogicOf) /\ WF_programVars(StopOf)

FairProgramSpec == ProgramSpec /\ Fairness
-----------------------------------------------------------------------------
\* In the map of sessions, and nothing reads for it: once its replies are written
\* nothing can remove it.  It happens to the session that a thread is about to
\* insert (server.cpp:21-23), when another thread has seen its client leave, or has
\* refused its first head, and has cleared the map too early, and in no other way; so it
\* never happens in a program with one io thread.  (In IoThreadPool the two threads
\* change the map without an order between them, and the model ends there.)
LeaksOnlyAtInsert ==
    [][\A s \in Sessions : Leaked(s)' /\ ~Leaked(s) =>
          /\ program \in {"IoServicePool", "IoThreadPool"}
          /\ \E t \in Threads : pc[t] = "insert" /\ cur[t] = s]_programVars

\* The strand keeps one thread at a time in the handlers of a session: two threads
\* may disagree about the map, but never two that erase the same session, although
\* a read and a write of one session fail at the same time and each erases it.
ErasesInStrand == program = "IoThreadPool" => IT!EveryErasureInItsStrand

\* The handlers keep a plain pointer to the Server that is a local variable of
\* main: no thread is in a handler when main has returned from its joins.
ServerOutlivesHandlers ==
    pc[Acceptor] = "returned" /\ program \in {"IoServicePool", "IoThreadPool"} =>
        \A t \in Threads : pc[t] = "returned"

\* boost/async, boost/demo: delete this, and the end of a session's thread, are the
\* last use of the session: no operation of it is outstanding, and a session that
\* has not ended has one (its owner).
EndedSessionsAreIdle ==
    program \in {"async", "demo"} => \A s \in Sessions : RE!OneThingOutstanding(s)

\* A session whose client has gone is destroyed, once its messages are dealt with
\* and its handlers have run, unless it is one of those that leak.
Destroyed ==
    \A s \in Sessions :
        peer[s] = "gone" /\ sock[s] # "unused" ~> ~Referenced(s) \/ Leaked(s) \/ stopped # {} \/ Broken

\* A request with a callback before which no invalid head came is answered if at
\* most MAX_SENDQUE replies are missing before it, the client stays and the server
\* runs.
Answered ==
    \A s \in Sessions, r \in Requests :
        Asked(s, r) ~> \/ \E i \in DOMAIN written[s] : written[s][i] = r
                       \/ peer[s] = "gone"
                       \/ stopped # {} \/ Broken

\* "elegent exit serve" (asyncServer.cpp): after a signal all threads of the pool
\* leave their io_context, whatever they were doing, and main returns.
SignalEndsMain ==
    stopped # {} /\ program # "demo" ~> pc[Acceptor] = "returned" \/ Broken

\* The requests of s that a handler has read and not yet sent back.
InHand(s) ==
    IF pc[Acceptor] = "send" /\ cur[Acceptor] = s THEN <<RL!LastRead(s)>> ELSE <<>>

\* Each server implements the abstract service: requests are answered in order and
\* a reply is dropped only when the queue is full.
Service == INSTANCE EchoService WITH
    Connections <- Sessions,
    Requests <- Requests,
    Capacity <- MaxSendQue + 1,
    pending <- [s \in Sessions |-> sendQue[s] \o InHand(s) \o WaitingFor(s)],
    replied <- written

ImplementsEchoService == Service!Spec
=============================================================================
