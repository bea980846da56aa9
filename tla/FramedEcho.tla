---------------------------- MODULE FramedEcho ------------------------------
(***************************************************************************)
(* What the parsers of boost/asyncServer and boost/readAtLeastServer       *)
(* compute, however the network cuts the stream: a message is a head of    *)
(* two bytes that holds the length of its body, and the body.  Each        *)
(* complete message is sent back as it came, and a length above MaxLength  *)
(* ends the session.  The length is a signed one, and no session survives  *)
(* a negative one: the program ends with an exception, or a byte that      *)
(* follows a length of -1 is stored where there is no room for it.         *)
(***************************************************************************)
EXTENDS Wire

VARIABLES
    unread,  \* bytes that were sent and not echoed
    echoed,
    gone,    \* the client has left
    status   \* of the session: "open", "ended" by the server, "exited" with the
             \* program, or "undefined"

vars == <<unread, echoed, gone, status>>

Init ==
    /\ unread = <<>>
    /\ echoed = <<>>
    /\ gone = FALSE
    /\ status = "open"

Send(b) ==
    /\ ~gone /\ status = "open"
    /\ unread' = Append(unread, b)
    /\ UNCHANGED <<echoed, gone, status>>

Leave ==
    /\ ~gone
    /\ gone' = TRUE
    /\ UNCHANGED <<unread, echoed, status>>

FrontLength == HeadValue(SubSeq(unread, 1, HEAD_LENGTH))
HasHead == Len(unread) >= HEAD_LENGTH

Echo ==
    /\ status = "open"
    /\ HasHead
    /\ FrontLength \in 0 .. MaxLength
    /\ Len(unread) >= HEAD_LENGTH + FrontLength
    /\ echoed' = echoed \o SubSeq(unread, 1, HEAD_LENGTH + FrontLength)
    /\ unread' = SubSeq(unread, HEAD_LENGTH + FrontLength + 1, Len(unread))
    /\ UNCHANGED <<gone, status>>

Finish(outcome) ==
    /\ status = "open"
    /\ status' = outcome
    /\ unread' = <<>>
    /\ UNCHANGED <<echoed, gone>>

End == (gone \/ (HasHead /\ FrontLength > MaxLength)) /\ Finish("ended")

Exit == HasHead /\ FrontLength < -1 /\ Finish("exited")

Overrun == HasHead /\ FrontLength = -1 /\ Len(unread) > HEAD_LENGTH /\ Finish("undefined")

Serve == Echo \/ End \/ Exit \/ Overrun

Next == (\E b \in Byte : Send(b)) \/ Leave \/ Serve

\* A complete message is echoed and a session that is over ends.
Spec == Init /\ [][Next]_vars /\ WF_vars(Serve)
=============================================================================
