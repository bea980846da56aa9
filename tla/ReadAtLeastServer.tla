------------------------- MODULE ReadAtLeastServer -------------------------
(***************************************************************************)
(* src/src/boost/readAtLeastServer: one thread, no logic worker; the       *)
(* handler that has read a body calls Session::send itself.  How the two   *)
(* exact reads find a request is ReadAtLeast.tla; here it is one element   *)
(* of inbox, with a callback ("hello") or a length that is too large.      *)
(***************************************************************************)
EXTENDS OneContext

StartSession(s) == Io!AcceptStart(s)
HandleAccept == Io!AcceptInsert
AcceptFails(s) == Io!AcceptError(s)

HandleHeadRead(s) == Io!HeadRead(Acceptor, s) \/ (rd[s] = "head" /\ Io!ReadError(Acceptor, s))

\* The body is there, up to the call of send.
MsgComplete(s) ==
    /\ Io!Reading(Acceptor, s, "body")
    /\ inbox[s] # <<>>
    /\ node' = [node EXCEPT ![s][Len(node[s])].req = Head(inbox[s]).req]
    /\ inbox' = [inbox EXCEPT ![s] = Tail(@)]
    /\ rd' = [rd EXCEPT ![s] = "none"]
    /\ Continue(Acceptor, "send", s)
    /\ UNCHANGED <<peer, sent, sock, replyVars, sessions, msgQue, poolVars>>

HandleMsgRead(s) == MsgComplete(s) \/ (rd[s] = "body" /\ Io!ReadError(Acceptor, s))

\* send, and in the same handler the next head.
SendReply ==
    /\ pc[Acceptor] = "send"
    /\ LET s == cur[Acceptor] IN
          /\ Send(s, LastRead(s))
          /\ rd' = [rd EXCEPT ![s] = "head"]
    /\ Return(Acceptor)
    /\ UNCHANGED <<clientVars, sock, node, sessions, msgQue, poolVars>>

HandleWrite(s) == Io!WriteDone(Acceptor, s) \/ Io!WriteError(Acceptor, s)
EraseSession == Io!ClearSession(Acceptor)
=============================================================================
