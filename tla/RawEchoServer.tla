--------------------------- MODULE RawEchoServer ---------------------------
(***************************************************************************)
(* src/src/boost/async: one thread; a Session is a plain pointer that the  *)
(* handler of its one outstanding operation carries, and the handler that  *)
(* sees an error deletes it ("closed").  There is no map of sessions.      *)
(***************************************************************************)
EXTENDS ChunkEcho

\* start() and the next async_accept; after an error the session is deleted.
HandleAccept(s) == Accepted(s)
AcceptFails(s) == Io!AcceptError(s) /\ NoPool

\* Faulty: reads again before the array is written.
HandleRead_ReadsOn(s) ==
    /\ Free(Acceptor)
    /\ peer[s] = "up"
    /\ rd[s] = "head" /\ inbox[s] # <<>>
    /\ node' = [node EXCEPT ![s] = Append(@, Head(inbox[s]))]
    /\ sendQue' = [sendQue EXCEPT ![s] = Append(@, Head(inbox[s]).req)]
    /\ inbox' = [inbox EXCEPT ![s] = Tail(@)]
    /\ writes' = [writes EXCEPT ![s] = <<"started">>]
    /\ UNCHANGED <<peer, sent, sock, rd, written, sessions, msgQue, poolVars, threadVars>>

HandleRead(s) == Free(Acceptor) /\ (ReadThenWrite(s) \/ ReadFails(s))

HandleWrite(s) == Free(Acceptor) /\ (WriteGoesOn(s) \/ WriteThenRead(s) \/ WriteFails(s))
=============================================================================
