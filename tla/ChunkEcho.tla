----------------------------- MODULE ChunkEcho -----------------------------
(***************************************************************************)
(* The two servers that know no messages: src/src/boost/async and          *)
(* src/src/boost/demo read what has come into an array and write the array *)
(* back before they read again.  A request is here a byte of the stream,   *)
(* all of them "hello"; a session has one array, so sendQue holds what is  *)
(* left of it to write.                                                    *)
(***************************************************************************)
EXTENDS OneContext

\* A read of any number of the bytes that are there, and the write of them.
ReadThenWrite(s) ==
    /\ rd[s] = "head"
    /\ \E k \in DOMAIN inbox[s] :
          /\ node' = [node EXCEPT ![s] = @ \o SubSeq(inbox[s], 1, k)]
          /\ sendQue' = [sendQue EXCEPT ![s] = [i \in 1 .. k |-> inbox[s][i].req]]
          /\ inbox' = [inbox EXCEPT ![s] = SubSeq(@, k + 1, Len(@))]
    /\ rd' = [rd EXCEPT ![s] = "none"]
    /\ writes' = [writes EXCEPT ![s] = Append(@, "started")]
    /\ UNCHANGED <<peer, sent, sock, written, sessions, msgQue, poolVars, threadVars>>

\* The socket takes the next byte; the write is over with the last one.
WriteSome(s) ==
    /\ writes[s] # <<>>
    /\ written' = [written EXCEPT ![s] = Append(@, Head(sendQue[s]))]
    /\ sendQue' = [sendQue EXCEPT ![s] = Tail(@)]

WriteGoesOn(s) ==
    /\ WriteSome(s)
    /\ Len(sendQue[s]) > 1
    /\ UNCHANGED <<clientVars, sock, rd, node, writes, sessions, msgQue, poolVars, threadVars>>

WriteThenRead(s) ==
    /\ WriteSome(s)
    /\ Len(sendQue[s]) = 1
    /\ writes' = [writes EXCEPT ![s] = Tail(@)]
    /\ rd' = [rd EXCEPT ![s] = "head"]
    /\ UNCHANGED <<clientVars, sock, node, sessions, msgQue, poolVars, threadVars>>

\* A read or a write fails: its handler ends the session, the socket is closed.
ReadFails(s) ==
    /\ peer[s] = "gone"
    /\ rd[s] = "head"
    /\ sock' = [sock EXCEPT ![s] = "closed"]
    /\ rd' = [rd EXCEPT ![s] = "none"]
    /\ UNCHANGED <<clientVars, node, replyVars, sessions, msgQue, poolVars, threadVars>>

WriteFails(s) ==
    /\ peer[s] = "gone"
    /\ writes[s] # <<>>
    /\ sock' = [sock EXCEPT ![s] = "closed"]
    /\ writes' = [writes EXCEPT ![s] = Tail(@)]
    /\ UNCHANGED <<clientVars, rd, node, sendQue, written, sessions, msgQue, poolVars, threadVars>>

\* A connection is accepted: the session reads, and the next one is accepted.
Accepted(s) ==
    /\ Free(Acceptor)
    /\ sock[s] = "accepting"
    /\ peer[s] # "none"
    /\ Io!StartAccept([sock EXCEPT ![s] = "open"])
    /\ rd' = [rd EXCEPT ![s] = "head"]
    /\ NoPool
    /\ UNCHANGED <<clientVars, node, replyVars, sessions, msgQue, stopped, threadVars>>

\* Nothing is outstanding for a session that has ended, and one thing, a read or a
\* write, for one that has not.
OneThingOutstanding(s) ==
    CASE sock[s] = "open" -> (rd[s] = "head") # (writes[s] # <<>>)
      [] OTHER -> rd[s] = "none" /\ writes[s] = <<>>
=============================================================================
