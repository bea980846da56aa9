------------------------------ MODULE Framing -------------------------------
(***************************************************************************)
(* Session::handleRead of boost/asyncServer: async_read_some delivers the  *)
(* bytes of the client in pieces of any size up to MAX_LENGTH, and the     *)
(* handler cuts messages out of them by hand, keeping in recvHeadNode and  *)
(* recvMsgNode what it has of the current one between two calls.           *)
(*                                                                         *)
(* One step is one round of the handler's loop.  Nothing else runs on the  *)
(* session's thread meanwhile; send() only adds to the send queue, here    *)
(* the bytes it will write.                                                *)
(***************************************************************************)
EXTENDS Wire

VARIABLES
    net,         \* bytes the client has sent and the handler has not received
    gone,        \* the client has left
    wire,        \* history: all that the client has sent
    state,       \* "reading" between two calls, "parsing" in the loop; over: "ended",
                 \* "exited" (the exception has left run()), "undefined"
    data,        \* the bytes of this call
    copyLen,     \* how many of them are dealt with
    left,        \* bytesTransfreed
    bHeadParse,
    recvHeadNode, recvMsgNode,  \* [data, curLen, totalLen]; data without its last byte
    sent         \* the bytes given to send

parserVars == <<data, copyLen, left, bHeadParse, recvHeadNode, recvMsgNode, sent>>
vars == <<net, gone, wire, state, parserVars>>

\* msgNode(maxlen), and clear() of one.
EmptyNode(n) == [data |-> [i \in 1 .. n |-> 0], curLen |-> 0, totalLen |-> n]

\* memcpy of n bytes of data, from copyLen on, to the end of what a node has.
Copy(node, n) ==
    [i \in DOMAIN node.data |->
        IF i \in node.curLen + 1 .. node.curLen + n
        THEN data[copyLen + i - node.curLen]
        ELSE node.data[i]]

Init ==
    /\ net = <<>>
    /\ gone = FALSE
    /\ wire = <<>>
    /\ state = "reading"
    /\ data = <<>>
    /\ copyLen = 0
    /\ left = 0
    /\ bHeadParse = FALSE
    /\ recvHeadNode = EmptyNode(HEAD_LENGTH)
    /\ recvMsgNode = EmptyNode(0)
    /\ sent = <<>>
-----------------------------------------------------------------------------
(***************************************************************************)
(* The client.                                                             *)
(***************************************************************************)
Write(b) ==
    /\ ~gone /\ state \in {"reading", "parsing"}
    /\ Len(wire) < MaxBytes
    /\ net' = Append(net, b)
    /\ wire' = Append(wire, b)
    /\ UNCHANGED <<gone, state, parserVars>>

Leave ==
    /\ ~gone
    /\ gone' = TRUE
    /\ UNCHANGED <<net, wire, state, parserVars>>
-----------------------------------------------------------------------------
(***************************************************************************)
(* The calls of handleRead.                                                *)
(***************************************************************************)

\* async_read_some completes with a first piece of what is there.
Receive(n) ==
    /\ state = "reading"
    /\ n \in 1 .. Len(net)
    /\ n <= MaxLength
    /\ data' = SubSeq(net, 1, n)
    /\ net' = SubSeq(net, n + 1, Len(net))
    /\ copyLen' = 0
    /\ left' = n
    /\ state' = "parsing"
    /\ UNCHANGED <<gone, wire, bHeadParse, recvHeadNode, recvMsgNode, sent>>

\* It fails: close() and clearSession.
ReceiveError ==
    /\ state = "reading"
    /\ gone
    /\ state' = "ended"
    /\ UNCHANGED <<net, gone, wire, parserVars>>

\* The next async_read_some.
ReadSome ==
    /\ state' = "reading"
    /\ data' = <<>>

\* The same after a copy into recvMsgNode; what a copy that went on behind the
\* array of its node has overwritten is not defined, and neither is what follows.
ReadSomeMore ==
    /\ state' = IF recvMsgNode'.curLen <= Len(recvMsgNode'.data) THEN "reading" ELSE "undefined"
    /\ data' = <<>>

\* Faulty: forgets that it has a part of the head.
HeadPart_NotCounted ==
    /\ state = "parsing" /\ ~bHeadParse
    /\ left + recvHeadNode.curLen < HEAD_LENGTH
    /\ recvHeadNode' = [recvHeadNode EXCEPT !.data = Copy(recvHeadNode, left)]
    /\ ReadSome
    /\ copyLen' = 0 /\ left' = 0
    /\ UNCHANGED <<net, gone, wire, bHeadParse, recvMsgNode, sent>>

\* What is left of this call does not complete the head.
HeadPart ==
    /\ state = "parsing" /\ ~bHeadParse
    /\ left + recvHeadNode.curLen < HEAD_LENGTH
    /\ recvHeadNode' = [recvHeadNode EXCEPT !.data = Copy(recvHeadNode, left), !.curLen = @ + left]
    /\ ReadSome
    /\ copyLen' = 0 /\ left' = 0
    /\ UNCHANGED <<net, gone, wire, bHeadParse, recvMsgNode, sent>>

headRemain == HEAD_LENGTH - recvHeadNode.curLen
wholeHead == Copy(recvHeadNode, headRemain)
dataLen == HeadValue(wholeHead)

HeadComplete ==
    /\ state = "parsing" /\ ~bHeadParse
    /\ left + recvHeadNode.curLen >= HEAD_LENGTH

\* The length is too large: clearSession, and no read follows.
HeadInvalid ==
    /\ HeadComplete
    /\ dataLen > MaxLength
    /\ state' = "ended"
    /\ UNCHANGED <<net, gone, wire, parserVars>>

\* There can be no node of this length: the exception leaves the handler and run(),
\* and the program ends.
NodeThrows ==
    /\ HeadComplete
    /\ Throws(dataLen)
    /\ state' = "exited"
    /\ UNCHANGED <<net, gone, wire, parserVars>>

\* Faulty: accepts a length that is one too large.
HeadThenPart_OffByOne ==
    /\ HeadComplete
    /\ dataLen <= MaxLength + 1 /\ ~Throws(dataLen)
    /\ SizeLess(left - headRemain, dataLen)
    /\ recvHeadNode' = [recvHeadNode EXCEPT !.data = wholeHead]
    /\ recvMsgNode' =
          [data |-> [i \in 1 .. dataLen |->
                        IF i <= left - headRemain THEN data[copyLen + headRemain + i] ELSE 0],
           curLen |-> left - headRemain,
           totalLen |-> dataLen]
    /\ bHeadParse' = TRUE
    /\ ReadSomeMore
    /\ copyLen' = 0 /\ left' = 0
    /\ UNCHANGED <<net, gone, wire, sent>>

\* The head is complete, its body is not: keep both.  A length of -1 comes here
\* whatever follows it, and its node is an array of no bytes.
HeadThenPart ==
    /\ HeadComplete
    /\ dataLen <= MaxLength /\ ~Throws(dataLen)
    /\ SizeLess(left - headRemain, dataLen)
    /\ recvHeadNode' = [recvHeadNode EXCEPT !.data = wholeHead]
    /\ recvMsgNode' =
          [data |-> [i \in 1 .. dataLen |->
                        IF i <= left - headRemain THEN data[copyLen + headRemain + i] ELSE 0],
           curLen |-> left - headRemain,
           totalLen |-> dataLen]
    /\ bHeadParse' = TRUE
    /\ ReadSomeMore
    /\ copyLen' = 0 /\ left' = 0
    /\ UNCHANGED <<net, gone, wire, sent>>

\* Faulty: one message per call, the rest of the call is lost.
NextMessage_OnePerCall(used) ==
    /\ bHeadParse' = FALSE
    /\ recvHeadNode' = EmptyNode(HEAD_LENGTH)
    /\ ReadSome /\ copyLen' = 0 /\ left' = 0

\* After a message: parse what is left of this call, or read on.
NextMessage(used) ==
    /\ bHeadParse' = FALSE
    /\ recvHeadNode' = EmptyNode(HEAD_LENGTH)
    /\ IF left = used
       THEN ReadSome /\ copyLen' = 0 /\ left' = 0
       ELSE copyLen' = copyLen + used /\ left' = left - used /\ UNCHANGED <<state, data>>

\* The head and the whole body are there.
HeadThenWhole ==
    /\ HeadComplete
    /\ dataLen <= MaxLength
    /\ ~SizeLess(left - headRemain, dataLen)
    /\ LET body == SubSeq(data, copyLen + headRemain + 1, copyLen + headRemain + dataLen)
       IN /\ recvMsgNode' = [data |-> body, curLen |-> dataLen, totalLen |-> dataLen]
          /\ sent' = sent \o Frame(body)
    /\ NextMessage(headRemain + dataLen)
    /\ UNCHANGED <<net, gone, wire>>

remainMsg == recvMsgNode.totalLen - recvMsgNode.curLen

\* Faulty: "<=", a body that ends with the call is taken for an incomplete one.
BodyPart_UpTo ==
    /\ state = "parsing" /\ bHeadParse
    /\ SizeLess(left, remainMsg) \/ left = remainMsg
    /\ recvMsgNode' = [recvMsgNode EXCEPT !.data = Copy(recvMsgNode, left), !.curLen = @ + left]
    /\ ReadSomeMore
    /\ copyLen' = 0 /\ left' = 0
    /\ UNCHANGED <<net, gone, wire, bHeadParse, recvHeadNode, sent>>

\* The body goes on and is still not complete.
BodyPart ==
    /\ state = "parsing" /\ bHeadParse
    /\ SizeLess(left, remainMsg)
    /\ recvMsgNode' = [recvMsgNode EXCEPT !.data = Copy(recvMsgNode, left), !.curLen = @ + left]
    /\ ReadSomeMore
    /\ copyLen' = 0 /\ left' = 0
    /\ UNCHANGED <<net, gone, wire, bHeadParse, recvHeadNode, sent>>

\* The rest of the body is there.
BodyWhole ==
    /\ state = "parsing" /\ bHeadParse
    /\ ~SizeLess(left, remainMsg)
    /\ LET body == Copy(recvMsgNode, remainMsg)
       IN /\ recvMsgNode' = [recvMsgNode EXCEPT !.data = body, !.curLen = @ + remainMsg]
          /\ sent' = sent \o Frame(body)
    /\ NextMessage(remainMsg)
    /\ UNCHANGED <<net, gone, wire>>

Parse == HeadPart \/ HeadInvalid \/ NodeThrows \/ HeadThenPart \/ HeadThenWhole \/ BodyPart \/ BodyWhole

Handler == Parse \/ ReceiveError \/ \E n \in 1 .. Len(net) : Receive(n)

Next == (\E b \in Byte : Write(b)) \/ Leave \/ Handler

Spec == Init /\ [][Next]_vars
-----------------------------------------------------------------------------
\* The bytes of the message that is being put together, and those of this call
\* that are not dealt with.
Held ==
    IF bHeadParse
    THEN recvHeadNode.data \o SubSeq(recvMsgNode.data, 1, recvMsgNode.curLen)
    ELSE SubSeq(recvHeadNode.data, 1, recvHeadNode.curLen)

Rest == SubSeq(data, copyLen + 1, copyLen + left)

\* No memcpy leaves its node or the array data, but for one case: a body that is put
\* together fits its node, a head its two bytes, and what is left lies inside what was
\* received.  The one node that a copy leaves is that of a length of -1.
CopiesFit ==
    /\ copyLen + left <= Len(data)
    /\ Len(data) <= MaxLength
    /\ Len(recvHeadNode.data) = HEAD_LENGTH
    /\ recvHeadNode.curLen < HEAD_LENGTH
    /\ recvMsgNode.totalLen \in -1 .. MaxLength
    /\ recvMsgNode.totalLen = -1 \/ Len(recvMsgNode.data) = recvMsgNode.totalLen
    /\ recvMsgNode.totalLen = -1 \/ recvMsgNode.curLen <= recvMsgNode.totalLen
    /\ state = "undefined" => recvMsgNode.totalLen = -1

\* Between two calls the handler holds no complete message: all of them have been
\* echoed, the last one of a call too and those with an empty body.  (A length of -1
\* is the length of no message.)
NothingHeldBack ==
    state = "reading" =>
        /\ left = 0
        /\ bHeadParse => recvMsgNode.totalLen = -1 \/ recvMsgNode.curLen < recvMsgNode.totalLen
=============================================================================
