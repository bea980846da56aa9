--------------------------- MODULE FramedServers ----------------------------
(***************************************************************************)
(* boost/asyncServer and boost/readAtLeastServer, two programs that cut the *)
(* same format out of a stream: the first by hand (Framing), the second    *)
(* with reads of a known length (ReadAtLeast).  One of the two serves the  *)
(* client, and both have to be the abstract FramedEcho.                    *)
(***************************************************************************)
EXTENDS Framing

VARIABLES
    server,             \* the program that runs
    rd, head, totalLen  \* the session of readAtLeastServer

Exact == INSTANCE ReadAtLeast WITH recvHeadNode <- head

exactVars == <<rd, head, totalLen>>
byHandVars == <<state, data, copyLen, left, bHeadParse, recvHeadNode, recvMsgNode>>
allVars == <<vars, server, exactVars>>

ByHand(step) == server = "asyncServer" /\ step /\ UNCHANGED <<server, exactVars>>
ByLength(step) == server = "readAtLeastServer" /\ step /\ UNCHANGED <<server, byHandVars>>

ServersInit == server \in {"asyncServer", "readAtLeastServer"} /\ Init /\ Exact!Init

ServersNext == ByHand(Next) \/ ByLength(Exact!Next)

ServersSpec == ServersInit /\ [][ServersNext]_allVars

\* The io thread runs, and a read completes when there is something to read.
FairSpec ==
    /\ ServersSpec
    /\ WF_allVars(ByHand(Handler) \/ ByLength(Exact!Handler))
-----------------------------------------------------------------------------
\* What became of the session.
Status ==
    IF server = "asyncServer"
    THEN IF state \in {"reading", "parsing"} THEN "open" ELSE state
    ELSE IF rd \in {"head", "body"} THEN "open" ELSE rd

Open == Status = "open"

\* What a session holds between the client and the send queue.
Kept == IF server = "asyncServer" THEN Held \o Rest ELSE head

\* Whatever the cuts, no byte is lost, repeated or moved as long as the session lasts:
\* what was sent back, what the session holds and what is still under way make up what
\* the client wrote.
StreamPreserved == Open => sent \o Kept \o net = wire

\* Both programs compute what FramedEcho says, for every way to cut the stream: they
\* echo every complete message in the end, and lengths that are too large or negative
\* have the outcome it names for them.
Echoing == INSTANCE FramedEcho WITH
    unread <- IF Open THEN Kept \o net ELSE <<>>,
    echoed <- sent,
    status <- Status

ImplementsFramedEcho == Echoing!Spec
=============================================================================
