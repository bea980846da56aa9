---------------------------- MODULE EPollServer ----------------------------
(***************************************************************************)
(* EPoll/server.cpp: the main thread waits for events with the mutex held  *)
(* and starts a detached thread for each of them; the thread accepts a     *)
(* client, or receives once and sends back what it received, or removes a  *)
(* client that has quit.  The mutex is held across steps by the main       *)
(* thread in epoll_wait only: main # "wait" says that it is free, and lock, *)
(* epoll_ctl, unlock are one step of a thread.                             *)
(*                                                                         *)
(* Two things of the kernel make the order of these threads matter.  File  *)
(* descriptors are numbers and accept takes the lowest free one, so the    *)
(* number a thread was started for may mean another client when the thread *)
(* uses it.  And events are level triggered: until some thread has accepted *)
(* or received, epoll_wait reports them again, and main starts another     *)
(* thread for the same event.                                              *)
(***************************************************************************)
EXTENDS Integers, Sequences, FiniteSets

CONSTANTS
    Clients,
    NoClient,
    MaxSame,     \* threads at work for one descriptor (bounds the model)
    MaxRequests  \* requests of a client (bounds the model)

ASSUME EPollAssumption ==
    /\ IsFiniteSet(Clients) /\ NoClient \notin Clients
    /\ MaxSame \in Nat \ {0} /\ MaxRequests \in Nat

lfd == 0
Fds == 1 .. Cardinality(Clients)
Slots == (Fds \cup {lfd}) \X (1 .. MaxSame)

VARIABLES
    main,      \* the main thread: "lock" before it locks the mutex, "wait" then
    thread,    \* the threads started for each descriptor
    owner,     \* the client behind each open descriptor
    interest,  \* the descriptors registered with epoll
    backlog,   \* clients that have connected and are not accepted
    inbox,     \* the numbers of each client's requests that are not received
    cli,       \* each client: "away", "here" or "gone"
    asked,     \* requests each client has written
    got,       \* replies each client has read, as <<author, number>>
    exited     \* exit was called, or a signal has ended the process

clientVars == <<cli, asked>>
vars == <<main, thread, owner, interest, backlog, inbox, got, exited, clientVars>>

\* A thread: fd is what accept returned, conn the connection recv waits on and
\* the author of what it received, request number n.
Thread(pc, fd, conn, n) == [pc |-> pc, fd |-> fd, conn |-> conn, n |-> n]
Idle == Thread("none", lfd, NoClient, 0)
Started == Thread("start", lfd, NoClient, 0)

\* server(), up to the loop.
Init ==
    /\ main = "lock"
    /\ thread = [t \in Slots |-> Idle]
    /\ owner = [f \in Fds |-> NoClient]
    /\ interest = {}
    /\ backlog = <<>>
    /\ inbox = [c \in Clients |-> <<>>]
    /\ cli = [c \in Clients |-> "away"]
    /\ asked = [c \in Clients |-> 0]
    /\ got = [c \in Clients |-> <<>>]
    /\ exited = FALSE
-----------------------------------------------------------------------------
(***************************************************************************)
(* client.cpp: connects, then writes a request and reads a reply until it  *)
(* is interrupted.                                                         *)
(***************************************************************************)
Connect(c) ==
    /\ cli[c] = "away"
    /\ cli' = [cli EXCEPT ![c] = "here"]
    /\ backlog' = Append(backlog, c)
    /\ UNCHANGED <<main, thread, owner, interest, inbox, asked, got, exited>>

Ask(c) ==
    /\ cli[c] = "here"
    /\ Len(got[c]) = asked[c] /\ asked[c] < MaxRequests
    /\ asked' = [asked EXCEPT ![c] = @ + 1]
    /\ inbox' = [inbox EXCEPT ![c] = Append(@, asked[c] + 1)]
    /\ UNCHANGED <<main, thread, owner, interest, backlog, cli, got, exited>>

Quit(c) ==
    /\ cli[c] = "here"
    /\ cli' = [cli EXCEPT ![c] = "gone"]
    /\ UNCHANGED <<main, thread, owner, interest, backlog, inbox, asked, got, exited>>
-----------------------------------------------------------------------------
(***************************************************************************)
(* The main thread.                                                        *)
(***************************************************************************)
Readable(c) == inbox[c] # <<>> \/ cli[c] = "gone"

\* Faulty: clients are registered without EPOLLIN.
Ready_NoEvents == IF backlog = <<>> THEN {} ELSE {lfd}

Ready == {f \in interest : Readable(owner[f])} \cup (IF backlog = <<>> THEN {} ELSE {lfd})

MainLock ==
    /\ main = "lock"
    /\ main' = "wait"
    /\ UNCHANGED <<thread, owner, interest, backlog, inbox, got, exited, clientVars>>

\* The threads that are started for the events on fds.  MaxSame threads at work for
\* one descriptor stand for any number of them: no further one is started.
Start(fds) ==
    [t \in Slots |->
        IF /\ t[1] \in fds /\ thread[t] = Idle
           /\ \A i \in 1 .. t[2] - 1 : thread[<<t[1], i>>] # Idle
        THEN Started ELSE thread[t]]

\* epoll_wait returns what is ready, the mutex is unlocked, and a thread is started
\* for each event.  (A thread that has not called anything yet is like one that main
\* has still to create, so the loop of pthread_create is one step.)
MainWait ==
    /\ main = "wait" /\ Ready # {}
    /\ main' = "lock"
    /\ thread' = Start(Ready)
    /\ UNCHANGED <<owner, interest, backlog, inbox, got, exited, clientVars>>

Main == MainLock \/ MainWait
-----------------------------------------------------------------------------
(***************************************************************************)
(* connetFunc: accept, and register the client.                            *)
(***************************************************************************)
Free == {f \in Fds : owner[f] = NoClient}
LowestFree == CHOOSE f \in Free : \A g \in Free : f <= g

\* accept blocks until there is a client, also in the threads that were started
\* for an event another thread has dealt with.
Accept(t) ==
    /\ t[1] = lfd /\ thread[t].pc = "start"
    /\ backlog # <<>>
    /\ thread' = [thread EXCEPT ![t] = Thread("add", LowestFree, NoClient, 0)]
    /\ owner' = [owner EXCEPT ![LowestFree] = Head(backlog)]
    /\ backlog' = Tail(backlog)
    /\ UNCHANGED <<main, interest, inbox, got, exited, clientVars>>

\* epoll_ctl ADD under the mutex; it fails for a descriptor that is closed or
\* registered, and errorHandle ends the process.
Add(t) ==
    /\ thread[t].pc = "add" /\ main # "wait"
    /\ LET f == thread[t].fd
       IN IF owner[f] = NoClient \/ f \in interest
          THEN exited' = TRUE /\ UNCHANGED interest
          ELSE interest' = interest \cup {f} /\ UNCHANGED exited
    /\ thread' = [thread EXCEPT ![t] = Idle]
    /\ UNCHANGED <<main, owner, backlog, inbox, got, clientVars>>
-----------------------------------------------------------------------------
(***************************************************************************)
(* commucationFunc: one recv, and what follows from its result.            *)
(***************************************************************************)

\* recv is called: the number becomes the connection behind it at this moment.
\* A closed descriptor is an error, which ends the process.
Recv(t) ==
    /\ t[1] # lfd /\ thread[t].pc = "start"
    /\ LET c == owner[t[1]]
       IN IF c = NoClient
          THEN exited' = TRUE /\ UNCHANGED thread
          ELSE thread' = [thread EXCEPT ![t] = Thread("recv", lfd, c, 0)] /\ UNCHANGED exited
    /\ UNCHANGED <<main, owner, interest, backlog, inbox, got, clientVars>>

\* recv returns a request.
Received(t) ==
    /\ thread[t].pc = "recv"
    /\ LET c == thread[t].conn
       IN /\ inbox[c] # <<>>
          /\ inbox' = [inbox EXCEPT ![c] = Tail(@)]
          /\ thread' = [thread EXCEPT ![t] = Thread("send", lfd, c, Head(inbox[c]))]
    /\ UNCHANGED <<main, owner, interest, backlog, got, exited, clientVars>>

\* recv returns 0: the client has quit.
ReceivedQuit(t) ==
    /\ thread[t].pc = "recv"
    /\ cli[thread[t].conn] = "gone" /\ inbox[thread[t].conn] = <<>>
    /\ thread' = [thread EXCEPT ![t] = Thread("del", lfd, NoClient, 0)]
    /\ UNCHANGED <<main, owner, interest, backlog, inbox, got, exited, clientVars>>

\* Faulty: with a socket that does not block, "nothing yet" is an error as well.
ReceiveError_WouldBlock(t) ==
    /\ thread[t].pc = "recv"
    /\ cli[thread[t].conn] = "gone" \/ inbox[thread[t].conn] = <<>>
    /\ exited' = TRUE
    /\ UNCHANGED <<main, thread, owner, interest, backlog, inbox, got, clientVars>>

\* recv fails, as it may once the client is gone (its connection was reset).
ReceiveError(t) ==
    /\ thread[t].pc = "recv"
    /\ cli[thread[t].conn] = "gone"
    /\ exited' = TRUE
    /\ UNCHANGED <<main, thread, owner, interest, backlog, inbox, got, clientVars>>

\* send goes to whoever is behind the number now.  A closed descriptor is ignored,
\* a connection that was reset may raise SIGPIPE.
Send(t) ==
    /\ thread[t].pc = "send"
    /\ LET c == owner[t[1]]
       IN IF c # NoClient /\ cli[c] = "here"
          THEN /\ got' = [got EXCEPT ![c] = Append(@, <<thread[t].conn, thread[t].n>>)]
               /\ UNCHANGED exited
          ELSE /\ exited' \in {FALSE, c # NoClient}
               /\ UNCHANGED got
    /\ thread' = [thread EXCEPT ![t] = Idle]
    /\ UNCHANGED <<main, owner, interest, backlog, inbox, clientVars>>

\* Faulty: the result of epoll_ctl is not looked at.
Del_Unchecked(t) ==
    /\ thread[t].pc = "del" /\ main # "wait"
    /\ interest' = interest \ {t[1]}
    /\ thread' = [thread EXCEPT ![t] = Thread("close", lfd, NoClient, 0)]
    /\ UNCHANGED <<main, owner, backlog, inbox, got, exited, clientVars>>

\* epoll_ctl DEL under the mutex; it fails unless the descriptor is registered.
Del(t) ==
    /\ thread[t].pc = "del" /\ main # "wait"
    /\ IF t[1] \in interest
       THEN /\ interest' = interest \ {t[1]}
            /\ thread' = [thread EXCEPT ![t] = Thread("close", lfd, NoClient, 0)]
            /\ UNCHANGED exited
       ELSE exited' = TRUE /\ UNCHANGED <<interest, thread>>
    /\ UNCHANGED <<main, owner, backlog, inbox, got, clientVars>>

Close(t) ==
    /\ thread[t].pc = "close"
    /\ owner' = [owner EXCEPT ![t[1]] = NoClient]
    /\ thread' = [thread EXCEPT ![t] = Idle]
    /\ UNCHANGED <<main, interest, backlog, inbox, got, exited, clientVars>>

Acceptor(t) == Accept(t) \/ Add(t)

Communicator(t) ==
    \/ Recv(t) \/ Received(t) \/ ReceivedQuit(t) \/ ReceiveError(t)
    \/ Send(t) \/ Del(t) \/ Close(t)

\* After exit nothing runs.
Next ==
    /\ ~exited
    /\ \/ \E c \in Clients : Connect(c) \/ Ask(c) \/ Quit(c)
       \/ Main
       \/ \E t \in Slots : Acceptor(t) \/ Communicator(t)

Spec == Init /\ [][Next]_vars

\* All threads run.
FairSpec ==
    /\ Spec
    /\ WF_vars(~exited /\ Main)
    /\ \A t \in Slots : WF_vars(~exited /\ (Acceptor(t) \/ Communicator(t)))
-----------------------------------------------------------------------------
TypeOK ==
    /\ main \in {"lock", "wait"}
    /\ thread \in [Slots -> [pc : {"none", "start", "add", "recv", "send", "del", "close"},
                             fd : Fds \cup {lfd}, conn : Clients \cup {NoClient}, n : Nat]]
    /\ owner \in [Fds -> Clients \cup {NoClient}]
    /\ interest \subseteq Fds
    /\ backlog \in Seq(Clients)
    /\ inbox \in [Clients -> Seq(Nat)]
    /\ cli \in [Clients -> {"away", "here", "gone"}]
    /\ asked \in [Clients -> 0 .. MaxRequests]
    /\ got \in [Clients -> Seq(Clients \X Nat)]
    /\ exited \in BOOLEAN

\* The threads that are about to register f, and those about to close it.
Adding(f) == {t \in Slots : thread[t].pc = "add" /\ thread[t].fd = f}
Closing(f) == {t \in Slots : t[1] = f /\ thread[t].pc = "close"}

\* Every open descriptor is in exactly one hand: it is registered, or one thread is
\* about to register it, or one thread is about to close it; a closed one is in
\* none.  So ADD never fails, nothing is closed twice and no descriptor is lost,
\* although threads hold numbers that have meant other clients.
OneOwner ==
    \A f \in Fds :
        Cardinality(Adding(f)) + Cardinality(Closing(f)) + (IF f \in interest THEN 1 ELSE 0)
            = IF owner[f] = NoClient THEN 0 ELSE 1

\* While no client quits, the superfluous threads do no harm: the server does not
\* exit, closes nothing, and each client reads the replies to its own requests in
\* their order.  (Once a client has quit none of this holds.)
HarmlessWhileNobodyQuits ==
    (\A c \in Clients : cli[c] # "gone") =>
        /\ ~exited
        /\ \A f \in Fds : Closing(f) = {}
        /\ \A c \in Clients : got[c] = [i \in DOMAIN got[c] |-> <<c, i>>]

\* A client that is registered is answered, unless it or another one quits.
Answered ==
    \A c \in Clients :
        (Len(got[c]) < asked[c] /\ \E f \in interest : owner[f] = c)
            ~> (Len(got[c]) = asked[c] \/ \E d \in Clients : cli[d] = "gone")
=============================================================================
