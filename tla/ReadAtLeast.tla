---------------------------- MODULE ReadAtLeast -----------------------------
(***************************************************************************)
(* The sessions of boost/readAtLeastServer speak the format of             *)
(* boost/asyncServer, but let asio::async_read wait until a whole head, or *)
(* a whole body, has arrived.  Their handleRead, the parser of             *)
(* asyncServer, is no longer called.                                       *)
(***************************************************************************)
EXTENDS Wire

VARIABLES
    net,           \* bytes the client has sent and no read has taken
    gone,          \* the client has left
    wire,          \* history: all that the client has sent
    rd,            \* the read that is outstanding, "head" or "body"; over: "ended",
                   \* "exited" (the exception has left run()), "undefined"
    recvHeadNode,  \* the bytes of the head, <<>> after clear()
    totalLen,      \* of recvMsgNode
    sent           \* the bytes given to send

vars == <<net, gone, wire, rd, recvHeadNode, totalLen, sent>>

\* start().
Init ==
    /\ net = <<>>
    /\ gone = FALSE
    /\ wire = <<>>
    /\ rd = "head"
    /\ recvHeadNode = <<>>
    /\ totalLen = 0
    /\ sent = <<>>

Write(b) ==
    /\ ~gone /\ rd \in {"head", "body"}
    /\ Len(wire) < MaxBytes
    /\ net' = Append(net, b)
    /\ wire' = Append(wire, b)
    /\ UNCHANGED <<gone, rd, recvHeadNode, totalLen, sent>>

Leave ==
    /\ ~gone
    /\ gone' = TRUE
    /\ UNCHANGED <<net, wire, rd, recvHeadNode, totalLen, sent>>

\* async_read of n bytes completes without an error once there are n of them.
Taken(n) == SubSeq(net, 1, n)
Take(n) == Len(net) >= n /\ net' = SubSeq(net, n + 1, Len(net))

\* handleHeadRead: a length that is too large ends the session, and one below -1
\* the program; a node of its length is read for every other.
HeadRead ==
    /\ rd = "head"
    /\ Take(HEAD_LENGTH)
    /\ recvHeadNode' = Taken(HEAD_LENGTH)
    /\ LET dataLen == HeadValue(Taken(HEAD_LENGTH))
       IN \/ dataLen > MaxLength /\ rd' = "ended" /\ UNCHANGED totalLen
          \/ Throws(dataLen) /\ rd' = "exited" /\ UNCHANGED totalLen
          \/ dataLen <= MaxLength /\ ~Throws(dataLen) /\ rd' = "body" /\ totalLen' = dataLen
    /\ UNCHANGED <<gone, wire, sent>>

\* Faulty: the send node is made before the body is complete.
MsgRead_AnyPart ==
    /\ rd = "body"
    /\ \E n \in 0 .. totalLen : Take(n) /\ sent' = sent \o Frame(Taken(n))
    /\ recvHeadNode' = <<>>
    /\ rd' = "head"
    /\ UNCHANGED <<gone, wire, totalLen>>

\* handleMsgRead: echoes the body and reads the next head.
MsgRead ==
    /\ rd = "body" /\ totalLen >= 0
    /\ Take(totalLen)
    /\ sent' = sent \o Frame(Taken(totalLen))
    /\ recvHeadNode' = <<>>
    /\ rd' = "head"
    /\ UNCHANGED <<gone, wire, totalLen>>

\* A buffer of size_t(-1) bytes at an array of none: the read goes on until it
\* fails, and whatever it takes it puts behind the array.
MsgReadOutside ==
    /\ rd = "body" /\ totalLen = -1
    /\ \E n \in 1 .. Len(net) : Take(n)
    /\ rd' = "undefined"
    /\ UNCHANGED <<gone, wire, recvHeadNode, totalLen, sent>>

\* Either of them with an error.
ReadError ==
    /\ rd \in {"head", "body"}
    /\ gone
    /\ rd' = "ended"
    /\ UNCHANGED <<net, gone, wire, recvHeadNode, totalLen, sent>>

Handler == HeadRead \/ MsgRead \/ MsgReadOutside \/ ReadError

Next == (\E b \in Byte : Write(b)) \/ Leave \/ Handler

Spec == Init /\ [][Next]_vars
=============================================================================
