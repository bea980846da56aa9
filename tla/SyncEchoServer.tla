--------------------------- MODULE SyncEchoServer ---------------------------
(***************************************************************************)
(* src/src/boost/demo/asycServer.cpp: main accepts in a loop and gives     *)
(* each connection a thread, which reads and writes it until one of the    *)
(* two throws.  "head" in rd and a write in writes say in which call the   *)
(* thread of a session is.                                                 *)
(***************************************************************************)
EXTENDS ChunkEcho

\* thread_set: nothing is taken out of it, the joins after the loop are not reached.
ThreadSet == {s \in Sessions : sock[s] \in {"open", "closed"}}

\* accept returns with a connection, its thread is started and kept.
AcceptAndStart(s) == Accepted(s)

\* accept throws: main returns without the joins, and the destructor of thread_set
\* ends the process if it meets a thread that was not joined.
AcceptThrows ==
    /\ Free(Acceptor)
    /\ stopped' = {Acceptor}
    /\ Continue(Acceptor, IF ThreadSet = {} THEN "returned" ELSE "terminated", NoSession)
    /\ UNCHANGED <<clientVars, sock, rd, node, replyVars, sessions, msgQue, next, home>>

\* read_some; it throws when the client is gone, the catch ends the thread.
ReadSome(s) == stopped = {} /\ (ReadThenWrite(s) \/ ReadFails(s))

\* asio::write
WriteAll(s) == stopped = {} /\ (WriteGoesOn(s) \/ WriteThenRead(s) \/ WriteFails(s))
=============================================================================
