---------------------------- MODULE AsyncServer ----------------------------
(***************************************************************************)
(* src/src/boost/asyncServer: one thread, one read for whatever has come.  *)
(* handleRead goes through the requests that are complete, calls           *)
(* Session::send for each, and starts the next read when the bytes are     *)
(* used up.  How it finds the requests is Framing.tla; here a request is   *)
(* one element of inbox, valid ("hello") or of a length that is too large. *)
(***************************************************************************)
EXTENDS OneContext

StartSession(s) == Io!AcceptStart(s)
HandleAccept == Io!AcceptInsert
AcceptFails(s) == Io!AcceptError(s)

\* In the loop of handleRead, at its first round or at a later one.
InLoop(s) == Io!Reading(Acceptor, s, "head") \/ (pc[Acceptor] = "loop" /\ cur[Acceptor] = s)

\* The next request is complete, up to the call of send.
TakeMessage(s) ==
    /\ InLoop(s)
    /\ inbox[s] # <<>>
    /\ Head(inbox[s]).id # "invalid"
    /\ node' = [node EXCEPT ![s] = Append(@, Head(inbox[s]))]
    /\ inbox' = [inbox EXCEPT ![s] = Tail(@)]
    /\ rd' = [rd EXCEPT ![s] = "none"]
    /\ Continue(Acceptor, "send", s)
    /\ UNCHANGED <<peer, sent, sock, replyVars, sessions, msgQue, poolVars>>

\* Its length is too large: the session ends, nothing is read any more.
InvalidLength(s) ==
    /\ InLoop(s)
    /\ inbox[s] # <<>>
    /\ Head(inbox[s]).id = "invalid"
    /\ rd' = [rd EXCEPT ![s] = "none"]
    /\ sessions' = sessions \ {s}
    /\ Return(Acceptor)
    /\ UNCHANGED <<clientVars, sock, node, replyVars, msgQue, poolVars>>

\* send, then on in the loop.
SendReply ==
    /\ pc[Acceptor] = "send"
    /\ Send(cur[Acceptor], LastRead(cur[Acceptor]))
    /\ Continue(Acceptor, "loop", cur[Acceptor])
    /\ UNCHANGED <<clientVars, sock, rd, node, sessions, msgQue, poolVars>>

\* What is left is no complete request, or nothing: the next async_read_some.
ReadSome ==
    /\ pc[Acceptor] = "loop"
    /\ rd' = [rd EXCEPT ![cur[Acceptor]] = "head"]
    /\ Return(Acceptor)
    /\ UNCHANGED <<clientVars, sock, node, replyVars, sessions, msgQue, poolVars>>

HandleRead(s) == TakeMessage(s) \/ InvalidLength(s) \/ Io!ReadError(Acceptor, s)
HandleWrite(s) == Io!WriteDone(Acceptor, s) \/ Io!WriteError(Acceptor, s)
EraseSession == Io!ClearSession(Acceptor)
=============================================================================
