---------------------------- MODULE LogicServer ----------------------------
(***************************************************************************)
(* src/src/boost/LogicServer: the sessions of EchoServer with one          *)
(* io_context, whose thread shares only logicSystem and the send queues    *)
(* with the logic worker.  The map of sessions has no mutex and needs none. *)
(***************************************************************************)
EXTENDS OneContext

\* Session::start and the rest of Server::handleAccept.
StartSession(s) == Io!AcceptStart(s)
HandleAccept == Io!AcceptInsert
AcceptFails(s) == Io!AcceptError(s)

\* The handlers of a Session: each read with and without an error.
HandleHeadRead(s) == Io!HeadRead(Acceptor, s) \/ (rd[s] = "head" /\ Io!ReadError(Acceptor, s))
HandleMsgRead(s) == Io!MsgRead(Acceptor, s) \/ (rd[s] = "body" /\ Io!ReadError(Acceptor, s))
ReadNextHead == Io!ReadHeadAgain(Acceptor)
EraseSession == Io!ClearSession(Acceptor)
HandleWrite(s) == Io!WriteDone(Acceptor, s) \/ Io!WriteError(Acceptor, s)

\* The logic worker calls Session::send through the callback.
SendReply == Io!Dispatch

\* ioc.stop() in the signal handler; run() returns, and main.
StopOnSignal == Io!Signal
MainReturns == Io!Join
=============================================================================
