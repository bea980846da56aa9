-------------------------- MODULE EPollServerProofs --------------------------
(***************************************************************************)
(* Proofs about EPollServer, for any clients and bounds: accept finds a    *)
(* free descriptor, and every open descriptor is in exactly one hand.      *)
(***************************************************************************)
EXTENDS EPollServer, FiniteSetTheorems, TLAPS

PCs == {"none", "start", "add", "recv", "send", "del", "close"}
Record == [pc : PCs, fd : Fds \cup {lfd}, conn : Clients \cup {NoClient}, n : Nat]

\* What thread t keeps is what its next call needs: a new descriptor to register, or
\* the author of what it sends back.
Fit(t, r) ==
    /\ r.pc = "add" => t[1] = lfd /\ r.fd \in Fds
    /\ r.pc \in {"recv", "send"} => t[1] \in Fds /\ r.conn \in Clients
    /\ r.pc \in {"del", "close"} => t[1] \in Fds

ThreadInv == \A t \in Slots : Fit(t, thread[t])

\* A client has one connection, in the backlog or accepted.
ClientInv ==
    /\ \A i, j \in DOMAIN backlog : backlog[i] = backlog[j] => i = j
    /\ \A f \in Fds : owner[f] # NoClient =>
          /\ cli[owner[f]] # "away"
          /\ \A i \in DOMAIN backlog : backlog[i] # owner[f]
          /\ \A g \in Fds : owner[g] = owner[f] => g = f
    /\ \A i \in DOMAIN backlog : cli[backlog[i]] # "away"

Adds(t, f) == thread[t].pc = "add" /\ thread[t].fd = f
Closes(t, f) == t[1] = f /\ thread[t].pc = "close"

\* OneOwner without counting: who has a descriptor in hand has it alone, and an open
\* one is in somebody's.
HandInv ==
    \A f \in Fds :
        /\ \A t, u \in Slots : Adds(t, f) /\ Adds(u, f) => t = u
        /\ \A t, u \in Slots : Closes(t, f) /\ Closes(u, f) => t = u
        /\ \A t, u \in Slots : ~ (Adds(t, f) /\ Closes(u, f))
        /\ \A t \in Slots : Adds(t, f) \/ Closes(t, f) => f \notin interest /\ owner[f] # NoClient
        /\ f \in interest => owner[f] # NoClient
        /\ owner[f] # NoClient => f \in interest \/ \E t \in Slots : Adds(t, f) \/ Closes(t, f)

IInv == TypeOK /\ ThreadInv /\ ClientInv /\ HandInv
-----------------------------------------------------------------------------
(***************************************************************************)
(* Descriptors.                                                            *)
(***************************************************************************)
LEMMA LeastElement ==
    ASSUME NEW S, IsFiniteSet(S), S \subseteq Nat, S # {}
    PROVE  \E m \in S : \A k \in S : m <= k
<1> DEFINE Below(m) == {k \in S : k <= m}
           Belows == {Below(m) : m \in S}
           R == StrictSubsetOrdering(S)
<1>1. IsWellFoundedOn(R, SUBSET S)
    BY FS_StrictSubsetOrderingWellFounded, FS_FiniteSubsetsOfFinite
<1>2. Belows \subseteq SUBSET S /\ Belows # {}
    OBVIOUS
<1>3. \E x \in Belows : \A y \in Belows : ~ (<<y, x>> \in R)
  <2> HIDE DEF Belows, R
  <2> QED
    BY <1>1, <1>2, WFMin
<1>4. PICK m \in S : \A k \in S : ~ (<<Below(k), Below(m)>> \in R)
    BY <1>3
<1>5. ASSUME NEW k \in S, ~ (m <= k)
      PROVE  FALSE
  <2>. k \in Nat /\ m \in Nat /\ k < m
    BY <1>5
  <2>1. Below(k) \subseteq Below(m)
    <3>1. \A j \in S : j \in Nat
      OBVIOUS
    <3>2. \A j \in S : j <= k => j <= m
      BY <3>1
    <3>3. QED
      BY <3>2
  <2>2. m \notin Below(k) /\ m \in Below(m)
    OBVIOUS
  <2>3. <<Below(k), Below(m)>> \in R
    BY <2>1, <2>2 DEF StrictSubsetOrdering
  <2>4. QED
    BY <1>4, <2>3
<1>6. QED
    BY <1>5

LEMMA FdsFinite ==
    /\ Cardinality(Clients) \in Nat
    /\ Fds \subseteq Nat /\ lfd \notin Fds
    /\ IsFiniteSet(Fds) /\ Cardinality(Fds) = Cardinality(Clients)
<1>1. Cardinality(Clients) \in Nat
    BY EPollAssumption, FS_CardinalityType
<1>2. QED
    BY <1>1, FS_Interval DEF Fds, lfd

\* A slot is a descriptor and a number.
LEMMA SlotParts == \A t \in Slots : t[1] \in Fds \cup {lfd} /\ t[2] \in 1 .. MaxSame
BY DEF Slots

\* There are as many descriptors as clients, and the client that waits in the backlog
\* has none yet: accept finds one that is free.
LEMMA FreeExists ==
    ASSUME TypeOK, ClientInv, backlog # <<>>
    PROVE  /\ LowestFree \in Fds
           /\ owner[LowestFree] = NoClient
<1> DEFINE c == Head(backlog)
<1>1. c \in Clients /\ c = backlog[1] /\ 1 \in DOMAIN backlog
    BY DEF TypeOK
<1>2. Free # {}
  <2>1. SUFFICES ASSUME Free = {}
                 PROVE  FALSE
    OBVIOUS
  <2>2. \A f \in Fds : owner[f] \in Clients \ {c}
    BY <1>1, <2>1 DEF Free, TypeOK, ClientInv
  <2>3. owner \in [Fds -> Clients \ {c}]
    BY <2>2 DEF TypeOK
  <2>4. IsFiniteSet(Clients \ {c}) /\ Cardinality(Clients \ {c}) < Cardinality(Fds)
    <3>1. /\ IsFiniteSet(Clients \ {c})
          /\ Cardinality(Clients \ {c}) = Cardinality(Clients) - 1
      BY <1>1, EPollAssumption, FS_RemoveElement, Zenon
    <3>2. QED
      BY <3>1, FdsFinite
  <2>5. PICK f, g \in Fds : f # g /\ owner[f] = owner[g]
    BY <2>3, <2>4, FdsFinite, FS_PigeonHole
  <2>6. QED
    BY <2>2, <2>5, EPollAssumption DEF ClientInv
<1>3. IsFiniteSet(Free) /\ Free \subseteq Nat
    BY FdsFinite, FS_Subset DEF Free
<1>4. \E f \in Free : \A g \in Free : f <= g
    BY <1>2, <1>3, LeastElement
<1>5. LowestFree \in Free
    BY <1>4 DEF LowestFree
<1>6. QED
    BY <1>5 DEF Free
-----------------------------------------------------------------------------
(***************************************************************************)
(* Types.                                                                  *)
(***************************************************************************)
LEMMA ThreadTypes == TypeOK <=> TypeOK /\ thread \in [Slots -> Record]
BY DEF TypeOK, Record, PCs

\* A step that changes one thread.
LEMMA OneThread ==
    ASSUME TypeOK, ThreadInv, NEW t \in Slots, NEW r \in Record, Fit(t, r),
           thread' = [thread EXCEPT ![t] = r]
    PROVE  thread' \in [Slots -> Record] /\ ThreadInv'
BY ThreadTypes DEF ThreadInv, Fit

LEMMA SameThreads ==
    ASSUME TypeOK, ThreadInv, thread' = thread
    PROVE  thread' \in [Slots -> Record] /\ ThreadInv'
BY ThreadTypes DEF ThreadInv, Fit

LEMMA StartedThreads ==
    ASSUME TypeOK, ThreadInv, NEW fds, thread' = Start(fds)
    PROVE  thread' \in [Slots -> Record] /\ ThreadInv'
<1>1. Started \in Record
    BY EPollAssumption DEF Started, Thread, Record, PCs
<1>2. thread' \in [Slots -> Record]
    BY <1>1, ThreadTypes DEF Start
<1>3. ASSUME NEW t \in Slots
      PROVE  Fit(t, thread'[t])
  <2>1. thread'[t] = thread[t] \/ thread'[t] = Started
    BY DEF Start
  <2>2. QED
    BY <2>1 DEF ThreadInv, Fit, Started, Thread
<1>4. QED
    BY <1>2, <1>3 DEF ThreadInv, Fit

LEMMA ThreadStep ==
    TypeOK /\ ThreadInv /\ ClientInv /\ [Next]_vars
        => thread' \in [Slots -> Record] /\ ThreadInv'
<1> SUFFICES ASSUME TypeOK, ThreadInv, ClientInv, [Next]_vars
             PROVE  thread' \in [Slots -> Record] /\ ThreadInv'
    OBVIOUS
<1> DEFINE Goal == thread' \in [Slots -> Record] /\ ThreadInv'
<1> USE EPollAssumption DEF Thread
<1>idle. Idle \in Record /\ \A t \in Slots : Fit(t, Idle)
    BY DEF Idle, Record, PCs, Fit
<1>1. CASE UNCHANGED thread
    BY <1>1, SameThreads
<1>2. CASE MainWait
    BY <1>2, StartedThreads DEF MainWait
<1>3. ASSUME NEW t \in Slots, Accept(t)
      PROVE  Goal
  <2>1. LowestFree \in Fds
    BY <1>3, FreeExists DEF Accept
  <2>2. Thread("add", LowestFree, NoClient, 0) \in Record
    BY <2>1 DEF Record, PCs
  <2>3. Fit(t, Thread("add", LowestFree, NoClient, 0))
    BY <1>3, <2>1 DEF Accept, Fit
  <2>4. QED
    BY <1>3, <2>2, <2>3, OneThread DEF Accept
<1>4. ASSUME NEW t \in Slots, Add(t) \/ Send(t) \/ Close(t)
      PROVE  Goal
    BY <1>4, <1>idle, OneThread DEF Add, Send, Close
<1>5. ASSUME NEW t \in Slots, Recv(t), owner[t[1]] # NoClient
      PROVE  Goal
  <2>1. t[1] \in Fds /\ owner[t[1]] \in Clients
    BY <1>5, SlotParts DEF Recv, TypeOK
  <2>2. Thread("recv", lfd, owner[t[1]], 0) \in Record
    BY <2>1 DEF Record, PCs
  <2>3. Fit(t, Thread("recv", lfd, owner[t[1]], 0))
    BY <2>1 DEF Fit
  <2>4. QED
    BY <1>5, <2>2, <2>3, OneThread DEF Recv
<1>6. ASSUME NEW t \in Slots, Received(t)
      PROVE  Goal
  <2> DEFINE c == thread[t].conn
  <2>1. t[1] \in Fds /\ c \in Clients
    BY <1>6 DEF Received, ThreadInv, Fit
  <2>2. Head(inbox[c]) \in Nat
    BY <1>6, <2>1 DEF Received, TypeOK
  <2>3. Thread("send", lfd, c, Head(inbox[c])) \in Record
    BY <2>1, <2>2 DEF Record, PCs
  <2>4. Fit(t, Thread("send", lfd, c, Head(inbox[c])))
    BY <2>1 DEF Fit
  <2>5. QED
    BY <1>6, <2>3, <2>4, OneThread DEF Received
<1>7. ASSUME NEW t \in Slots, ReceivedQuit(t) \/ (Del(t) /\ t[1] \in interest)
      PROVE  Goal
  <2>1. t[1] \in Fds
    BY <1>7 DEF ReceivedQuit, Del, ThreadInv, Fit
  <2>2. \A pc \in {"del", "close"} : Thread(pc, lfd, NoClient, 0) \in Record
    BY DEF Record, PCs
  <2>3. \A pc \in {"del", "close"} : Fit(t, Thread(pc, lfd, NoClient, 0))
    BY <2>1 DEF Fit
  <2>4. QED
    BY <1>7, <2>2, <2>3, OneThread DEF ReceivedQuit, Del
<1>8. QED
  <2>1. \/ UNCHANGED thread
        \/ MainWait
        \/ \E t \in Slots :
              \/ Accept(t) \/ Add(t) \/ Send(t) \/ Close(t) \/ Received(t)
              \/ ReceivedQuit(t)
              \/ (Recv(t) /\ owner[t[1]] # NoClient) \/ (Del(t) /\ t[1] \in interest)
    BY DEF Next, vars, Connect, Ask, Quit, Main, MainLock, Acceptor, Communicator,
           Recv, ReceiveError, Del
  <2>2. QED
    BY <1>1, <1>2, <1>3, <1>4, <1>5, <1>6, <1>7, <2>1

LEMMA TypeInit == Init => TypeOK /\ ThreadInv
<1> SUFFICES ASSUME Init
             PROVE  TypeOK /\ ThreadInv
    OBVIOUS
<1>1. Idle \in Record /\ \A t \in Slots : Fit(t, Idle)
    BY DEF Idle, Thread, Record, PCs, Fit
<1>2. thread \in [Slots -> Record] /\ ThreadInv
    BY <1>1 DEF Init, ThreadInv
<1>3. /\ asked \in [Clients -> 0 .. MaxRequests]
      /\ got \in [Clients -> Seq(Clients \X Nat)]
      /\ inbox \in [Clients -> Seq(Nat)]
      /\ backlog \in Seq(Clients)
    BY EPollAssumption DEF Init
<1>4. QED
    BY <1>2, <1>3 DEF Init, TypeOK, Record, PCs

LEMMA TypeStep == TypeOK /\ ThreadInv /\ ClientInv /\ [Next]_vars => TypeOK'
<1> SUFFICES ASSUME TypeOK, ThreadInv, ClientInv, [Next]_vars
             PROVE  TypeOK'
    OBVIOUS
<1>1. thread' \in [Slots -> Record]
    BY ThreadStep
<1>2. main' \in {"lock", "wait"} /\ exited' \in BOOLEAN
    BY ZenonT(40) DEF TypeOK, Next, vars, clientVars, Connect, Ask, Quit, Main, MainLock, MainWait, Acceptor,
        Communicator, Accept, Add, Recv, Received, ReceivedQuit, ReceiveError, Send, Del, Close
<1>3. /\ cli' \in [Clients -> {"away", "here", "gone"}]
      /\ asked' \in [Clients -> 0 .. MaxRequests]
  <2>1. ASSUME NEW c \in Clients, Connect(c) \/ Quit(c)
        PROVE  /\ cli' \in [Clients -> {"away", "here", "gone"}]
               /\ asked' = asked
    BY <2>1 DEF Connect, Quit, TypeOK
  <2>2. ASSUME NEW c \in Clients, Ask(c)
        PROVE  /\ asked' \in [Clients -> 0 .. MaxRequests]
               /\ cli' = cli
    <3>1. asked[c] + 1 \in 0 .. MaxRequests
      BY <2>2, EPollAssumption DEF Ask, TypeOK
    <3>2. QED
      BY <2>2, <3>1 DEF Ask, TypeOK
  <2>3. CASE UNCHANGED clientVars
    BY <2>3 DEF clientVars, TypeOK
  <2>4. QED
    BY <2>1, <2>2, <2>3
       DEF TypeOK, Next, vars, Main, MainLock, MainWait, Acceptor,
        Communicator, Accept, Add, Recv, Received, ReceivedQuit, ReceiveError, Send, Del, Close
<1>4. /\ owner' \in [Fds -> Clients \cup {NoClient}]
      /\ backlog' \in Seq(Clients)
  <2>1. ASSUME NEW c \in Clients, Connect(c)
        PROVE  /\ owner' \in [Fds -> Clients \cup {NoClient}]
               /\ backlog' \in Seq(Clients)
    BY <2>1 DEF Connect, TypeOK
  <2>2. ASSUME NEW t \in Slots, Accept(t)
        PROVE  /\ owner' \in [Fds -> Clients \cup {NoClient}]
               /\ backlog' \in Seq(Clients)
    <3>1. Head(backlog) \in Clients /\ Tail(backlog) \in Seq(Clients)
      BY <2>2 DEF Accept, TypeOK
    <3>2. LowestFree \in Fds
      BY <2>2, FreeExists DEF Accept
    <3>3. QED
      BY <2>2, <3>1, <3>2 DEF Accept, TypeOK
  <2>3. ASSUME NEW t \in Slots, Close(t)
        PROVE  /\ owner' \in [Fds -> Clients \cup {NoClient}]
               /\ backlog' \in Seq(Clients)
    BY <2>3 DEF Close, TypeOK
  <2>4. CASE UNCHANGED <<owner, backlog>>
    BY <2>4 DEF TypeOK
  <2>5. QED
    BY <2>1, <2>2, <2>3, <2>4
       DEF Next, vars, clientVars, Ask, Quit, Main, MainLock, MainWait, Acceptor,
        Communicator, Add, Recv, Received, ReceivedQuit, ReceiveError, Send, Del
<1>5. interest' \subseteq Fds
  <2>1. ASSUME NEW t \in Slots, Add(t) \/ Del(t)
        PROVE  interest' \subseteq Fds
    BY <2>1 DEF Add, Del, TypeOK, ThreadInv, Fit
  <2>2. CASE UNCHANGED interest
    BY <2>2 DEF TypeOK
  <2>3. QED
    BY <2>1, <2>2
       DEF Next, vars, clientVars, Connect, Ask, Quit, Main, MainLock, MainWait, Acceptor,
        Communicator, Accept, Recv, Received, ReceivedQuit, ReceiveError, Send, Close
<1>6. inbox' \in [Clients -> Seq(Nat)]
  <2>1. ASSUME NEW c \in Clients, Ask(c)
        PROVE  inbox' \in [Clients -> Seq(Nat)]
    BY <2>1, EPollAssumption DEF Ask, TypeOK
  <2>2. ASSUME NEW t \in Slots, Received(t)
        PROVE  inbox' \in [Clients -> Seq(Nat)]
    BY <2>2 DEF Received, TypeOK, ThreadInv, Fit
  <2>3. CASE UNCHANGED inbox
    BY <2>3 DEF TypeOK
  <2>4. QED
    BY <2>1, <2>2, <2>3
       DEF Next, vars, clientVars, Connect, Quit, Main, MainLock, MainWait, Acceptor,
        Communicator, Accept, Add, Recv, ReceivedQuit, ReceiveError, Send, Del, Close
<1>7. got' \in [Clients -> Seq(Clients \X Nat)]
  <2>1. ASSUME NEW t \in Slots, Send(t)
        PROVE  got' \in [Clients -> Seq(Clients \X Nat)]
    <3>1. t[1] \in Fds /\ thread[t].conn \in Clients /\ thread[t].n \in Nat
      BY <2>1, ThreadTypes DEF Send, ThreadInv, Fit, Record
    <3>2. owner[t[1]] \in Clients \cup {NoClient}
      BY <3>1 DEF TypeOK
    <3>3. <<thread[t].conn, thread[t].n>> \in Clients \X Nat
      BY <3>1
    <3>4. CASE got' = got
      BY <3>4 DEF TypeOK
    <3>5. ASSUME owner[t[1]] \in Clients,
                 got' = [got EXCEPT ![owner[t[1]]] = Append(@, <<thread[t].conn, thread[t].n>>)]
          PROVE  got' \in [Clients -> Seq(Clients \X Nat)]
      <4> DEFINE reply == <<thread[t].conn, thread[t].n>>
      <4>1. reply \in Clients \X Nat
        BY <3>3
      <4>2. got[owner[t[1]]] \in Seq(Clients \X Nat)
        BY <3>5 DEF TypeOK
      <4> HIDE DEF reply
      <4>3. Append(got[owner[t[1]]], reply) \in Seq(Clients \X Nat)
        BY <4>1, <4>2
      <4>4. got' = [got EXCEPT ![owner[t[1]]] = Append(got[owner[t[1]]], reply)]
        BY <3>5 DEF reply
      <4>5. QED
        BY <4>3, <4>4, <3>5 DEF TypeOK
    <3>6. QED
      BY <2>1, <3>2, <3>4, <3>5 DEF Send
  <2>2. CASE UNCHANGED got
    BY <2>2 DEF TypeOK
  <2>3. QED
    BY <2>1, <2>2
       DEF Next, vars, clientVars, Connect, Ask, Quit, Main, MainLock, MainWait, Acceptor,
        Communicator, Accept, Add, Recv, Received, ReceivedQuit, ReceiveError, Del, Close
<1>8. QED
    BY <1>1, <1>2, <1>3, <1>4, <1>5, <1>6, <1>7, Zenon DEF TypeOK, Record, PCs
-----------------------------------------------------------------------------
(***************************************************************************)
(* Clients.                                                                *)
(***************************************************************************)
LEMMA ClientInit == Init => ClientInv
BY DEF Init, ClientInv

LEMMA ClientStep == TypeOK /\ ClientInv /\ [Next]_vars => ClientInv'
<1> SUFFICES ASSUME TypeOK, ClientInv, [Next]_vars
             PROVE  ClientInv'
    OBVIOUS
<1>1. ASSUME NEW c \in Clients, Connect(c)
      PROVE  ClientInv'
  <2>1. \A i \in DOMAIN backlog : backlog[i] \in Clients /\ backlog[i] # c
    BY <1>1 DEF Connect, ClientInv, TypeOK
  <2>2. \A f \in Fds : owner[f] # NoClient => owner[f] \in Clients /\ owner[f] # c
    BY <1>1 DEF Connect, ClientInv, TypeOK
  <2>3. /\ DOMAIN backlog' = 1 .. Len(backlog) + 1
        /\ \A i \in DOMAIN backlog : backlog'[i] = backlog[i]
        /\ backlog'[Len(backlog) + 1] = c
        /\ DOMAIN backlog = 1 .. Len(backlog) /\ Len(backlog) \in Nat
    BY <1>1 DEF Connect, TypeOK
  <2>4. \A d \in Clients : cli[d] # "away" => cli'[d] # "away"
    BY <1>1 DEF Connect, TypeOK
  <2>5. cli'[c] # "away" /\ owner' = owner
    BY <1>1 DEF Connect, TypeOK
  <2>6. QED
    BY <2>1, <2>2, <2>3, <2>4, <2>5 DEF ClientInv
<1>2. ASSUME NEW c \in Clients, Quit(c)
      PROVE  ClientInv'
  <2>1. \A d \in Clients : cli[d] # "away" => cli'[d] # "away"
    BY <1>2 DEF Quit, TypeOK
  <2>2. UNCHANGED <<owner, backlog>>
    BY <1>2 DEF Quit
  <2>3. /\ \A i \in DOMAIN backlog : backlog[i] \in Clients
        /\ \A f \in Fds : owner[f] # NoClient => owner[f] \in Clients
    BY DEF TypeOK
  <2>4. QED
    BY <2>1, <2>2, <2>3 DEF ClientInv
<1>3. ASSUME NEW t \in Slots, Accept(t)
      PROVE  ClientInv'
  <2> DEFINE f0 == LowestFree
  <2>1. f0 \in Fds /\ owner[f0] = NoClient
    BY <1>3, FreeExists DEF Accept
  <2>2. /\ 1 \in DOMAIN backlog
        /\ DOMAIN backlog = 1 .. Len(backlog) /\ Len(backlog) \in Nat
        /\ DOMAIN backlog' = 1 .. Len(backlog) - 1
        /\ \A i \in DOMAIN backlog' : backlog'[i] = backlog[i + 1]
    BY <1>3 DEF Accept, TypeOK
  <2>3. owner'[f0] = backlog[1] /\ \A f \in Fds : f # f0 => owner'[f] = owner[f]
    BY <1>3, <2>1, <2>2 DEF Accept, TypeOK
  <2>4. cli' = cli
    BY <1>3 DEF Accept, clientVars
  <2> HIDE DEF f0
  <2>5. QED
    BY <2>1, <2>2, <2>3, <2>4 DEF ClientInv
<1>4. ASSUME NEW t \in Slots, Close(t)
      PROVE  ClientInv'
  <2>1. \A f \in Fds : owner'[f] = owner[f] \/ owner'[f] = NoClient
    BY <1>4 DEF Close, TypeOK
  <2>2. UNCHANGED <<cli, backlog>>
    BY <1>4 DEF Close, clientVars
  <2>3. QED
    BY <2>1, <2>2 DEF ClientInv
<1>5. CASE UNCHANGED <<owner, backlog, cli>>
    BY <1>5 DEF ClientInv
<1>6. QED
    BY <1>1, <1>2, <1>3, <1>4, <1>5
       DEF Next, vars, clientVars, Ask, Main, MainLock, MainWait, Acceptor,
        Communicator, Add, Recv, Received, ReceivedQuit, ReceiveError, Send, Del
-----------------------------------------------------------------------------
(***************************************************************************)
(* Descriptors and the threads that have them in hand.                     *)
(***************************************************************************)
LEMMA HandInit == Init => HandInv
BY DEF Init, HandInv, Adds, Closes, Idle, Thread

\* A step after which the same threads are about to register or close a descriptor.
LEMMA SameHands ==
    ASSUME HandInv, UNCHANGED <<owner, interest>>,
           \A t \in Slots, f \in Fds : (Adds(t, f)' <=> Adds(t, f)) /\ (Closes(t, f)' <=> Closes(t, f))
    PROVE  HandInv'
BY DEF HandInv

\* The same for a step of one thread, which has no descriptor in hand before or after.
LEMMA EmptyHand ==
    ASSUME TypeOK, HandInv, UNCHANGED <<owner, interest>>, NEW t \in Slots,
           NEW pc, NEW fd, NEW c, NEW n,
           thread[t].pc \notin {"add", "close"}, pc \notin {"add", "close"},
           thread' = [thread EXCEPT ![t] = Thread(pc, fd, c, n)]
    PROVE  HandInv'
<1>1. /\ thread'[t].pc = pc
      /\ \A u \in Slots : u # t => thread'[u] = thread[u]
    BY ThreadTypes DEF Thread
<1>2. QED
    BY <1>1, SameHands DEF Adds, Closes

\* What accept returns is in nobody's hand; the thread has it from now on.
LEMMA AcceptHands ==
    ASSUME TypeOK, ClientInv, HandInv, NEW t \in Slots, Accept(t)
    PROVE  HandInv'
<1> DEFINE f0 == LowestFree
<1>1. f0 \in Fds /\ owner[f0] = NoClient
    BY FreeExists DEF Accept
<1>2. owner'[f0] # NoClient /\ \A f \in Fds : f # f0 => owner'[f] = owner[f]
    BY <1>1, EPollAssumption DEF Accept, TypeOK
<1>3. interest' = interest
    BY DEF Accept
<1>4. /\ thread[t].pc = "start"
      /\ thread'[t].pc = "add" /\ thread'[t].fd = f0
      /\ \A u \in Slots : u # t => thread'[u] = thread[u]
    BY ThreadTypes DEF Accept, Thread
<1> HIDE DEF f0
<1>5. \A u \in Slots : ~ Adds(u, f0) /\ ~ Closes(u, f0)
    BY <1>1 DEF HandInv
<1>6. f0 \notin interest
    BY <1>1 DEF HandInv
<1>7. \A f \in Fds, u \in Slots : Adds(u, f)' <=> Adds(u, f) \/ (u = t /\ f = f0)
    BY <1>4 DEF Adds
<1>8. \A f \in Fds, u \in Slots : Closes(u, f)' <=> Closes(u, f)
    BY <1>4 DEF Closes
<1>9. ASSUME NEW f \in Fds, f # f0
      PROVE  \A u \in Slots : (Adds(u, f)' <=> Adds(u, f)) /\ (Closes(u, f)' <=> Closes(u, f))
    BY <1>7, <1>8, <1>9
<1>10. QED
    BY <1>1, <1>2, <1>3, <1>5, <1>6, <1>7, <1>8, <1>9 DEF HandInv

\* ADD never fails: the descriptor passes from the thread to the list.
LEMMA AddHands ==
    ASSUME TypeOK, ThreadInv, HandInv, NEW t \in Slots, Add(t)
    PROVE  HandInv'
<1> DEFINE f0 == thread[t].fd
<1>1. f0 \in Fds /\ Adds(t, f0)
    BY DEF Add, ThreadInv, Fit, Adds
<1>2. owner[f0] # NoClient /\ f0 \notin interest
    BY <1>1 DEF HandInv
<1>3. interest' = interest \cup {f0} /\ owner' = owner
    BY <1>2 DEF Add
<1>4. /\ thread'[t].pc = "none"
      /\ \A u \in Slots : u # t => thread'[u] = thread[u]
    BY ThreadTypes DEF Add, Idle, Thread
<1>5. \A f \in Fds, u \in Slots : Adds(u, f)' <=> Adds(u, f) /\ u # t
    BY <1>4 DEF Adds
<1>6. \A f \in Fds, u \in Slots : Closes(u, f)' <=> Closes(u, f)
    BY <1>4 DEF Closes, Add
<1>7. \A f \in Fds : Adds(t, f) => f = f0
    BY DEF Adds
<1> HIDE DEF f0
<1>8. QED
    BY <1>1, <1>2, <1>3, <1>5, <1>6, <1>7 DEF HandInv

\* DEL succeeds for one thread, which has the descriptor in hand from then on.
LEMMA DelHands ==
    ASSUME TypeOK, ThreadInv, HandInv, NEW t \in Slots, Del(t)
    PROVE  HandInv'
<1>1. CASE t[1] \notin interest
    BY <1>1, SameHands DEF Del, Adds, Closes
<1>2. CASE t[1] \in interest
  <2> DEFINE f0 == t[1]
  <2>1. f0 \in Fds
    BY DEF Del, ThreadInv, Fit
  <2>2. interest' = interest \ {f0} /\ owner' = owner
    BY <1>2 DEF Del
  <2>3. /\ thread[t].pc = "del" /\ thread'[t].pc = "close"
        /\ \A u \in Slots : u # t => thread'[u] = thread[u]
    BY <1>2, ThreadTypes DEF Del, Thread
  <2>4. \A f \in Fds, u \in Slots : Adds(u, f)' <=> Adds(u, f)
    BY <2>3 DEF Adds
  <2>5. \A f \in Fds, u \in Slots : Closes(u, f)' <=> Closes(u, f) \/ (u = t /\ f = f0)
    BY <2>3 DEF Closes
  <2> HIDE DEF f0
  <2>6. \A u \in Slots : ~ Adds(u, f0) /\ ~ Closes(u, f0)
    BY <1>2, <2>1 DEF HandInv, f0
  <2>7. owner[f0] # NoClient
    BY <1>2, <2>1 DEF HandInv, f0
  <2>8. QED
    BY <2>1, <2>2, <2>4, <2>5, <2>6, <2>7 DEF HandInv
<1>3. QED
    BY <1>1, <1>2

\* close ends what DEL began.
LEMMA CloseHands ==
    ASSUME TypeOK, ThreadInv, HandInv, NEW t \in Slots, Close(t)
    PROVE  HandInv'
<1> DEFINE f0 == t[1]
<1>1. f0 \in Fds /\ Closes(t, f0)
    BY DEF Close, ThreadInv, Fit, Closes
<1>2. /\ owner'[f0] = NoClient
      /\ \A f \in Fds : f # f0 => owner'[f] = owner[f]
      /\ interest' = interest
    BY <1>1 DEF Close, TypeOK
<1>3. /\ thread'[t].pc = "none"
      /\ \A u \in Slots : u # t => thread'[u] = thread[u]
    BY ThreadTypes DEF Close, Idle, Thread
<1>4. \A f \in Fds, u \in Slots : Adds(u, f)' <=> Adds(u, f)
    BY <1>3 DEF Adds, Close
<1>5. \A f \in Fds, u \in Slots : Closes(u, f)' <=> Closes(u, f) /\ u # t
    BY <1>3 DEF Closes
<1>6. \A f \in Fds : Closes(t, f) => f = f0
    BY DEF Closes
<1> HIDE DEF f0
<1>7. QED
    BY <1>1, <1>2, <1>4, <1>5, <1>6 DEF HandInv

LEMMA HandStep == TypeOK /\ ThreadInv /\ ClientInv /\ HandInv /\ [Next]_vars => HandInv'
<1> SUFFICES ASSUME TypeOK, ThreadInv, ClientInv, HandInv, [Next]_vars
             PROVE  HandInv'
    OBVIOUS
<1>1. CASE UNCHANGED <<thread, owner, interest>>
    BY <1>1, SameHands DEF Adds, Closes
<1>2. CASE MainWait
  <2>1. \A t \in Slots :
            \/ thread'[t] = thread[t]
            \/ thread[t].pc = "none" /\ thread'[t].pc = "start"
    BY <1>2 DEF MainWait, Start, Idle, Started, Thread
  <2>2. UNCHANGED <<owner, interest>>
    BY <1>2 DEF MainWait
  <2>3. QED
    BY <2>1, <2>2, SameHands DEF Adds, Closes
<1>3. ASSUME NEW t \in Slots, Recv(t) \/ Received(t) \/ ReceivedQuit(t) \/ Send(t)
      PROVE  HandInv'
  <2>1. UNCHANGED <<owner, interest>> /\ thread[t].pc \in {"start", "recv", "send"}
    BY <1>3 DEF Recv, Received, ReceivedQuit, Send
  <2>2. CASE Recv(t)
    BY <1>1, <2>1, <2>2, EmptyHand DEF Recv
  <2>3. CASE Received(t)
    <3>1. thread' = [thread EXCEPT ![t] =
                       Thread("send", lfd, thread[t].conn, Head(inbox[thread[t].conn]))]
      BY <2>3 DEF Received
    <3>2. QED
      BY <2>1, <3>1, EmptyHand, "send" \notin {"add", "close"}
  <2>4. CASE ReceivedQuit(t)
    <3>1. thread' = [thread EXCEPT ![t] = Thread("del", lfd, NoClient, 0)]
      BY <2>4 DEF ReceivedQuit
    <3>2. QED
      BY <2>1, <3>1, EmptyHand, "del" \notin {"add", "close"}
  <2>5. CASE Send(t)
    <3>1. thread' = [thread EXCEPT ![t] = Thread("none", lfd, NoClient, 0)]
      BY <2>5 DEF Send, Idle
    <3>2. QED
      BY <2>1, <3>1, EmptyHand, "none" \notin {"add", "close"}
  <2>6. QED
    BY <1>3, <2>2, <2>3, <2>4, <2>5
<1>4. ASSUME NEW t \in Slots, Accept(t) \/ Add(t) \/ Del(t) \/ Close(t)
      PROVE  HandInv'
    BY <1>4, AcceptHands, AddHands, DelHands, CloseHands
<1>5. QED
    BY <1>1, <1>2, <1>3, <1>4
       DEF Next, vars, clientVars, Connect, Ask, Quit, Main, MainLock, Acceptor, Communicator,
           ReceiveError
-----------------------------------------------------------------------------
(***************************************************************************)
(* While no client quits.                                                  *)
(***************************************************************************)
NobodyQuit == \A c \in Clients : cli[c] # "gone"

\* A thread that was started for a descriptor finds the same client behind it all the
\* time, and nothing is being closed.
SameOwner(t) ==
    t[1] \in Fds =>
        /\ thread[t].pc # "none" => owner[t[1]] # NoClient
        /\ thread[t].pc \in {"recv", "send"} => owner[t[1]] = thread[t].conn
        /\ thread[t].pc \notin {"del", "close"}

Replying(t, c) == thread[t].pc = "send" /\ thread[t].conn = c

\* A client waits for the reply to its last request: the request is on its way, or
\* one thread has it and is about to send it back.
Answering(c) ==
    \/ Len(got[c]) = asked[c] /\ inbox[c] = <<>> /\ \A t \in Slots : ~Replying(t, c)
    \/ /\ Len(got[c]) + 1 = asked[c]
       /\ inbox[c] = <<asked[c]>> /\ \A t \in Slots : ~Replying(t, c)
    \/ /\ Len(got[c]) + 1 = asked[c]
       /\ inbox[c] = <<>>
       /\ \E t \in Slots : /\ Replying(t, c) /\ thread[t].n = asked[c]
                           /\ \A u \in Slots : Replying(u, c) => u = t

OwnReplies(c) == \A i \in 1 .. Len(got[c]) : got[c][i] = <<c, i>>

QuietInv ==
    NobodyQuit =>
        /\ ~exited
        /\ \A t \in Slots : SameOwner(t)
        /\ \A c \in Clients : Answering(c) /\ OwnReplies(c)

LEMMA QuietInit == Init => QuietInv
<1> SUFFICES ASSUME Init
             PROVE  QuietInv
    OBVIOUS
<1>1. \A t \in Slots : thread[t].pc = "none"
    BY DEF Init, Idle, Thread
<1>2. \A c \in Clients : asked[c] = 0 /\ inbox[c] = <<>> /\ Len(got[c]) = 0
    BY DEF Init
<1>3. QED
    BY <1>1, <1>2 DEF Init, QuietInv, SameOwner, Answering, OwnReplies, Replying

\* A step in which no request is written, received or sent back.
LEMMA AnswersKept ==
    ASSUME NEW c \in Clients, Answering(c), OwnReplies(c),
           asked'[c] = asked[c], inbox'[c] = inbox[c], got'[c] = got[c],
           \A t \in Slots : Replying(t, c)' <=> Replying(t, c),
           \A t \in Slots : Replying(t, c) => thread'[t].n = thread[t].n
    PROVE  Answering(c)' /\ OwnReplies(c)'
BY DEF Answering, OwnReplies

\* The client writes its next request, after the reply to the last.
LEMMA AskAnswers ==
    ASSUME TypeOK, NEW c \in Clients, Ask(c), \A d \in Clients : Answering(d) /\ OwnReplies(d)
    PROVE  \A d \in Clients : Answering(d)' /\ OwnReplies(d)'
<1>1. /\ asked[c] \in Nat /\ Len(got[c]) \in Nat /\ Len(got[c]) = asked[c]
      /\ asked' = [asked EXCEPT ![c] = asked[c] + 1] /\ asked'[c] = asked[c] + 1
      /\ inbox'[c] = Append(inbox[c], asked[c] + 1)
      /\ UNCHANGED <<thread, got>>
      /\ \A d \in Clients \ {c} : asked'[d] = asked[d] /\ inbox'[d] = inbox[d]
    BY DEF Ask, TypeOK
<1>2. \A t \in Slots, d \in Clients : Replying(t, d)' <=> Replying(t, d)
    BY <1>1 DEF Replying
<1>3. inbox[c] = <<>> /\ \A t \in Slots : ~Replying(t, c)
    BY <1>1 DEF Answering
<1>4. inbox'[c] = <<asked'[c]>>
    BY <1>1, <1>3
<1>5. Answering(c)' /\ OwnReplies(c)'
    BY <1>1, <1>2, <1>3, <1>4 DEF Answering, OwnReplies
<1>6. \A d \in Clients \ {c} : Answering(d)' /\ OwnReplies(d)'
    BY <1>1, <1>2, AnswersKept
<1>7. QED
    BY <1>5, <1>6

\* A thread receives it: the only one that has it.
LEMMA ReceivedAnswers ==
    ASSUME IInv, NEW t \in Slots, Received(t), \A d \in Clients : Answering(d) /\ OwnReplies(d)
    PROVE  \A d \in Clients : Answering(d)' /\ OwnReplies(d)'
<1>0. PICK c \in Clients : thread[t].conn = c
    BY DEF Received, IInv, ThreadInv, Fit
<1>1. c \in Clients /\ thread[t].conn = c /\ thread[t].pc = "recv"
    BY <1>0 DEF Received
<1>2. /\ inbox[c] # <<>>
      /\ inbox'[c] = Tail(inbox[c])
      /\ \A d \in Clients \ {c} : inbox'[d] = inbox[d]
      /\ UNCHANGED <<got, asked>>
    BY <1>1 DEF Received, IInv, TypeOK, clientVars
<1>3. /\ thread'[t].pc = "send" /\ thread'[t].conn = c /\ thread'[t].n = Head(inbox[c])
      /\ \A u \in Slots \ {t} : thread'[u] = thread[u]
    BY <1>1, ThreadTypes DEF Received, Thread, IInv
<1>4. inbox[c] = <<asked[c]>> /\ Len(got[c]) + 1 = asked[c] /\ \A u \in Slots : ~Replying(u, c)
    BY <1>1, <1>2 DEF Answering
<1>5. inbox'[c] = <<>> /\ thread'[t].n = asked'[c]
    BY <1>2, <1>3, <1>4
<1>6. Replying(t, c)' /\ \A u \in Slots : Replying(u, c)' => u = t
    BY <1>3, <1>4 DEF Replying
<1>7. Answering(c)' /\ OwnReplies(c)'
    BY <1>1, <1>2, <1>4, <1>5, <1>6 DEF Answering, OwnReplies
<1>8. \A d \in Clients \ {c} : Answering(d)' /\ OwnReplies(d)'
    <2> SUFFICES ASSUME NEW d \in Clients \ {c}
                 PROVE  Answering(d)' /\ OwnReplies(d)'
        OBVIOUS
    <2>1. \A u \in Slots : /\ Replying(u, d)' <=> Replying(u, d)
                           /\ Replying(u, d) => thread'[u].n = thread[u].n
        BY <1>1, <1>3 DEF Replying
    <2>2. QED
        BY <1>2, <2>1, AnswersKept
<1>9. QED
    BY <1>7, <1>8

\* It sends the reply to the client that asked.
LEMMA SendAnswers ==
    ASSUME IInv, NEW t \in Slots, Send(t), SameOwner(t), NobodyQuit, ~exited,
           \A d \in Clients : Answering(d) /\ OwnReplies(d)
    PROVE  ~exited' /\ \A d \in Clients : Answering(d)' /\ OwnReplies(d)'
<1>0. PICK c \in Clients : thread[t].conn = c
    BY DEF Send, IInv, ThreadInv, Fit
<1> DEFINE reply == <<c, thread[t].n>>
<1>1. thread[t].pc = "send" /\ thread[t].conn = c /\ owner[t[1]] = c /\ t[1] \in Fds
    BY <1>0 DEF Send, IInv, ThreadInv, Fit, SameOwner
<1>2. cli[c] = "here"
    BY <1>1, EPollAssumption DEF IInv, ClientInv, TypeOK, NobodyQuit
<1>3. /\ ~exited'
      /\ got' = [got EXCEPT ![c] = Append(got[c], reply)]
      /\ UNCHANGED <<inbox, asked>>
    <2>1. c # NoClient
        BY EPollAssumption
    <2>2. /\ got' = [got EXCEPT ![c] = Append(got[c], <<thread[t].conn, thread[t].n>>)]
          /\ exited' = exited
        BY <1>1, <1>2, <2>1 DEF Send
    <2>3. UNCHANGED <<inbox, asked>>
        BY DEF Send, clientVars
    <2>4. QED
        BY <1>1, <2>2, <2>3
<1>4. thread'[t].pc = "none" /\ \A u \in Slots \ {t} : thread'[u] = thread[u]
    BY ThreadTypes DEF Send, Idle, Thread, IInv
<1>5. Replying(t, c)
    BY <1>1 DEF Replying
<1>6. /\ Len(got[c]) + 1 = asked[c] /\ inbox[c] = <<>> /\ thread[t].n = asked[c]
      /\ \A u \in Slots : Replying(u, c) => u = t
    BY <1>1, <1>5 DEF Answering
<1>7. /\ Len(got'[c]) = Len(got[c]) + 1 /\ Len(got[c]) \in Nat
      /\ got'[c][Len(got[c]) + 1] = reply
      /\ \A i \in 1 .. Len(got[c]) : got'[c][i] = got[c][i]
      /\ \A d \in Clients \ {c} : got'[d] = got[d]
    <2>1. got[c] \in Seq(Clients \X Nat) /\ DOMAIN got = Clients
        BY <1>1 DEF IInv, TypeOK
    <2> HIDE DEF reply
    <2>2. QED
        BY <1>1, <1>3, <2>1
<1>8. reply = <<c, Len(got[c]) + 1>>
    BY <1>6
<1> HIDE DEF reply
<1>9. Answering(c)'
    <2>1. \A u \in Slots : ~Replying(u, c)'
        BY <1>4, <1>6 DEF Replying
    <2>2. QED
        BY <1>1, <1>3, <1>6, <1>7, <2>1 DEF Answering
<1>10. OwnReplies(c)'
    <2> SUFFICES ASSUME NEW i \in 1 .. Len(got'[c])
                 PROVE  got'[c][i] = <<c, i>>
        BY DEF OwnReplies
    <2>1. CASE i = Len(got[c]) + 1
        BY <1>7, <1>8, <2>1
    <2>2. CASE i # Len(got[c]) + 1
        <3>1. i \in 1 .. Len(got[c])
            BY <1>7, <2>2
        <3>2. got[c][i] = <<c, i>>
            BY <3>1 DEF OwnReplies
        <3>3. QED
            BY <1>7, <3>1, <3>2
    <2>3. QED
        BY <2>1, <2>2
<1>11. \A d \in Clients \ {c} : Answering(d)' /\ OwnReplies(d)'
    <2> SUFFICES ASSUME NEW d \in Clients \ {c}
                 PROVE  Answering(d)' /\ OwnReplies(d)'
        OBVIOUS
    <2>1. \A u \in Slots : /\ Replying(u, d)' <=> Replying(u, d)
                           /\ Replying(u, d) => thread'[u].n = thread[u].n
        <3>1. ~Replying(t, d)
            BY <1>1 DEF Replying
        <3>2. QED
            BY <1>4, <3>1 DEF Replying
    <2>2. QED
        BY <1>3, <1>7, <2>1, AnswersKept
<1>12. QED
    BY <1>3, <1>9, <1>10, <1>11

\* A step of one thread that goes on with the client behind its descriptor.
LEMMA OwnerKept ==
    ASSUME TypeOK, \A u \in Slots : SameOwner(u), owner' = owner,
           NEW t \in Slots, NEW pc \in PCs \ {"del", "close"}, NEW fd, NEW c, NEW n,
           t[1] \in Fds /\ pc \in {"recv", "send"} => owner[t[1]] = c,
           t[1] \in Fds => owner[t[1]] # NoClient,
           thread' = [thread EXCEPT ![t] = Thread(pc, fd, c, n)]
    PROVE  \A u \in Slots : SameOwner(u)'
<1>1. /\ thread'[t].pc = pc /\ thread'[t].conn = c
      /\ \A u \in Slots \ {t} : thread'[u] = thread[u]
    BY ThreadTypes DEF Thread
<1>2. SameOwner(t)'
    BY <1>1 DEF SameOwner
<1>3. \A u \in Slots \ {t} : SameOwner(u)'
    BY <1>1, Zenon DEF SameOwner
<1>4. QED
    BY <1>2, <1>3

\* A client that has quit does not come back.
LEMMA QuitIsFinal == TypeOK /\ [Next]_vars /\ NobodyQuit' => NobodyQuit
<1> SUFFICES ASSUME TypeOK, [Next]_vars, NEW c \in Clients, cli[c] = "gone"
             PROVE  cli'[c] = "gone"
    BY DEF NobodyQuit
<1>1. ASSUME NEW d \in Clients, Connect(d) \/ Quit(d)
      PROVE  cli'[c] = "gone"
    BY <1>1 DEF Connect, Quit, TypeOK
<1>2. CASE UNCHANGED cli
    BY <1>2
<1>3. QED
    BY <1>1, <1>2
       DEF Next, vars, clientVars, Ask, Main, MainLock, MainWait, Acceptor, Communicator, Accept, Add,
           Recv, Received, ReceivedQuit, ReceiveError, Send, Del, Close

LEMMA QuietStep == IInv /\ QuietInv /\ [Next]_vars => QuietInv'
<1> SUFFICES ASSUME IInv, QuietInv, [Next]_vars, NobodyQuit'
             PROVE  /\ ~exited'
                    /\ \A t \in Slots : SameOwner(t)'
                    /\ \A c \in Clients : Answering(c)' /\ OwnReplies(c)'
    BY DEF QuietInv
<1>1. TypeOK /\ ThreadInv /\ ClientInv /\ HandInv
    BY DEF IInv
<1>2. /\ NobodyQuit /\ ~exited
      /\ \A t \in Slots : SameOwner(t)
      /\ \A c \in Clients : Answering(c) /\ OwnReplies(c)
    BY <1>1, QuitIsFinal DEF QuietInv
<1> DEFINE Owners == \A t \in Slots : SameOwner(t)'
           Answers == \A c \in Clients : Answering(c)' /\ OwnReplies(c)'
           Goal == ~exited' /\ Owners /\ Answers
<1>3. ASSUME UNCHANGED <<inbox, got, asked>>,
             \A t \in Slots : thread[t].pc = "send" \/ thread'[t].pc = "send" => thread'[t] = thread[t]
      PROVE  Answers
    BY <1>2, <1>3, AnswersKept DEF Replying
<1>4. CASE UNCHANGED <<thread, owner, inbox, got, asked, exited>>
    <2>1. Owners
        BY <1>2, <1>4 DEF SameOwner
    <2>2. Answers
        BY <1>3, <1>4
    <2>3. QED
        BY <1>2, <1>4, <2>1, <2>2
<1>5. ASSUME NEW c \in Clients, Ask(c)
      PROVE  Goal
    <2>1. Owners /\ ~exited'
        BY <1>2, <1>5 DEF SameOwner, Ask
    <2>2. QED
        BY <1>1, <1>2, <1>5, <2>1, AskAnswers
<1>6. CASE MainWait
    <2>1. \A t \in Slots :
             \/ thread'[t] = thread[t]
             \/ thread[t].pc = "none" /\ thread'[t].pc = "start" /\ t[1] \in Ready
        BY <1>6 DEF MainWait, Start, Idle, Started, Thread
    <2>2. UNCHANGED <<owner, inbox, got, asked, exited>>
        BY <1>6 DEF MainWait, clientVars
    <2>3. \A t \in Slots : t[1] \in Fds /\ t[1] \in Ready => owner[t[1]] # NoClient
        BY <1>1 DEF Ready, HandInv, Fds, lfd
    <2>4. Owners
        BY <1>2, <2>1, <2>2, <2>3 DEF SameOwner
    <2>5. Answers
        BY <1>3, <2>1, <2>2
    <2>6. QED
        BY <1>2, <2>2, <2>4, <2>5
<1>7. ASSUME NEW t \in Slots, Accept(t)
      PROVE  Goal
    <2>1. LowestFree \in Fds /\ owner[LowestFree] = NoClient
        BY <1>1, <1>7, FreeExists DEF Accept
    <2>2. /\ \A f \in Fds \ {LowestFree} : owner'[f] = owner[f]
          /\ UNCHANGED <<inbox, got, asked, exited>>
        BY <1>1, <1>7 DEF Accept, TypeOK, clientVars
    <2>3. /\ t[1] \notin Fds /\ thread[t].pc = "start" /\ thread'[t].pc = "add"
          /\ \A u \in Slots \ {t} : thread'[u] = thread[u]
        BY <1>1, <1>7, ThreadTypes DEF Accept, Thread, lfd, Fds
    <2>4. Owners
        BY <1>2, <2>1, <2>2, <2>3 DEF SameOwner
    <2>5. Answers
        BY <1>3, <2>2, <2>3
    <2>6. QED
        BY <1>2, <2>2, <2>4, <2>5
<1>8. ASSUME NEW t \in Slots, Add(t)
      PROVE  Goal
    <2>1. /\ thread[t].pc = "add" /\ thread[t].fd \in Fds /\ Adds(t, thread[t].fd) /\ t[1] \notin Fds
        BY <1>1, <1>8 DEF Add, ThreadInv, Fit, Adds, lfd, Fds
    <2>2. ~exited' /\ UNCHANGED <<owner, inbox, got, asked>>
        BY <1>1, <1>2, <1>8, <2>1 DEF Add, HandInv, clientVars
    <2>3. thread' = [thread EXCEPT ![t] = Thread("none", lfd, NoClient, 0)]
        BY <1>8 DEF Add, Idle
    <2>4. thread'[t].pc = "none" /\ \A u \in Slots \ {t} : thread'[u] = thread[u]
        BY <1>1, <2>3, ThreadTypes DEF Thread
    <2>5. Owners
        BY <1>2, <2>1, <2>2, <2>4 DEF SameOwner
    <2>6. Answers
        BY <1>3, <2>1, <2>2, <2>4
    <2>7. QED
        BY <2>2, <2>5, <2>6
<1>9. ASSUME NEW t \in Slots, Recv(t)
      PROVE  Goal
    <2>1. thread[t].pc = "start" /\ t[1] \in Fds /\ owner[t[1]] # NoClient
        BY <1>2, <1>9 DEF Recv, SameOwner, Slots
    <2>2. /\ thread' = [thread EXCEPT ![t] = Thread("recv", lfd, owner[t[1]], 0)]
          /\ UNCHANGED <<exited, owner, inbox, got, asked>>
        BY <1>9, <2>1 DEF Recv, clientVars
    <2>3. Owners
        BY <1>1, <1>2, <2>1, <2>2, OwnerKept DEF PCs
    <2>4. thread'[t].pc = "recv" /\ \A u \in Slots \ {t} : thread'[u] = thread[u]
        BY <1>1, <2>2, ThreadTypes DEF Thread
    <2>5. Answers
        BY <1>3, <2>1, <2>2, <2>4
    <2>6. QED
        BY <1>2, <2>2, <2>3, <2>5
<1>10. ASSUME NEW t \in Slots, Received(t)
       PROVE  Goal
    <2> DEFINE c == thread[t].conn
    <2>1. t[1] \in Fds /\ owner[t[1]] = c /\ owner[t[1]] # NoClient
        BY <1>1, <1>2, <1>10 DEF Received, ThreadInv, Fit, SameOwner
    <2>2. /\ thread' = [thread EXCEPT ![t] = Thread("send", lfd, c, Head(inbox[c]))]
          /\ UNCHANGED <<exited, owner>>
        BY <1>10 DEF Received
    <2>3. Owners
        BY <1>1, <1>2, <2>1, <2>2, OwnerKept DEF PCs
    <2>4. QED
        BY <1>2, <1>10, <2>2, <2>3, ReceivedAnswers
<1>11. ASSUME NEW t \in Slots, Send(t)
       PROVE  Goal
    <2>1. thread' = [thread EXCEPT ![t] = Thread("none", lfd, NoClient, 0)] /\ owner' = owner
        BY <1>11 DEF Send, Idle
    <2>2. t[1] \in Fds /\ owner[t[1]] # NoClient
        BY <1>1, <1>2, <1>11 DEF Send, ThreadInv, Fit, SameOwner
    <2>3. Owners
        BY <1>1, <1>2, <2>1, <2>2, OwnerKept DEF PCs
    <2>4. QED
        BY <1>1, <1>2, <1>11, <2>3, SendAnswers
<1>12. ASSUME NEW t \in Slots, ReceivedQuit(t) \/ ReceiveError(t) \/ Del(t) \/ Close(t)
       PROVE  FALSE
    BY <1>1, <1>2, <1>12 DEF ReceivedQuit, ReceiveError, Del, Close, ThreadInv, Fit, SameOwner, NobodyQuit
<1> HIDE DEF Goal
<1>13. ASSUME NEW t \in Slots, Acceptor(t) \/ Communicator(t)
       PROVE  Goal
    BY <1>7, <1>8, <1>9, <1>10, <1>11, <1>12, <1>13 DEF Acceptor, Communicator
<1>14. ASSUME Main
       PROVE  Goal
    <2>1. CASE MainLock
        BY <1>4, <2>1 DEF MainLock, clientVars, Goal
    <2>2. QED
        BY <1>6, <1>14, <2>1 DEF Main, Goal
<1>15. ASSUME NEW c \in Clients, Connect(c) \/ Ask(c) \/ Quit(c)
       PROVE  Goal
    <2>1. CASE Connect(c) \/ Quit(c)
        BY <1>4, <2>1 DEF Connect, Quit, Goal
    <2>2. QED
        BY <1>5, <1>15, <2>1
<1>16. ASSUME UNCHANGED vars
       PROVE  Goal
    BY <1>4, <1>16 DEF vars, clientVars, Goal
<1>17. Goal
    BY <1>13, <1>14, <1>15, <1>16 DEF Next
<1>18. QED
    BY <1>17 DEF Goal
-----------------------------------------------------------------------------
LEMMA Invariant == Spec => []IInv
<1>1. Init => IInv
    BY TypeInit, ClientInit, HandInit DEF IInv
<1>2. IInv /\ [Next]_vars => IInv'
    BY TypeStep, ThreadStep, ClientStep, HandStep DEF IInv
<1>3. QED
    BY <1>1, <1>2, PTL DEF Spec

\* Every variable of the epoll server keeps its type: recv and accept are called
\* with descriptors, and accept finds one that is free.
THEOREM TypeCorrect == Spec => []TypeOK
<1>1. IInv => TypeOK
    BY DEF IInv
<1>2. QED
    BY <1>1, Invariant, PTL

\* Every open descriptor is registered, or about to be registered by one thread, or
\* about to be closed by one thread.
THEOREM OneOwnerHolds == Spec => []OneOwner
<1>1. IInv => OneOwner
  <2> SUFFICES ASSUME IInv, NEW f \in Fds
               PROVE  Cardinality(Adding(f)) + Cardinality(Closing(f))
                          + (IF f \in interest THEN 1 ELSE 0)
                        = IF owner[f] = NoClient THEN 0 ELSE 1
    BY DEF OneOwner
  <2>1. /\ \A t \in Slots : t \in Adding(f) <=> Adds(t, f)
        /\ \A t \in Slots : t \in Closing(f) <=> Closes(t, f)
        /\ Adding(f) \subseteq Slots /\ Closing(f) \subseteq Slots
    BY DEF Adding, Closing, Adds, Closes
  <2>2. \A t, u \in Adding(f) : t = u
    BY <2>1 DEF IInv, HandInv
  <2>3. \A t, u \in Closing(f) : t = u
    BY <2>1 DEF IInv, HandInv
  <2>4. Adding(f) = {} \/ \E t : Adding(f) = {t}
    BY <2>2
  <2>5. Closing(f) = {} \/ \E t : Closing(f) = {t}
    BY <2>3
  <2>6. Cardinality(Adding(f)) = IF Adding(f) = {} THEN 0 ELSE 1
    BY <2>4, FS_EmptySet, FS_Singleton
  <2>7. Cardinality(Closing(f)) = IF Closing(f) = {} THEN 0 ELSE 1
    BY <2>5, FS_EmptySet, FS_Singleton
  <2>8. /\ Adding(f) # {} => Closing(f) = {} /\ f \notin interest /\ owner[f] # NoClient
        /\ Closing(f) # {} => f \notin interest /\ owner[f] # NoClient
        /\ f \in interest => owner[f] # NoClient
        /\ owner[f] # NoClient => f \in interest \/ Adding(f) # {} \/ Closing(f) # {}
    BY <2>1 DEF IInv, HandInv
  <2>9. QED
    BY <2>6, <2>7, <2>8
<1>2. QED
    BY <1>1, Invariant, PTL

\* As long as no client quits, the server runs and closes nothing, and each client
\* reads the replies to its own requests in their order, however many superfluous
\* threads the level-triggered events have started.
THEOREM HarmlessThreads == Spec => []HarmlessWhileNobodyQuits
<1>1. QuietInv /\ IInv => HarmlessWhileNobodyQuits
  <2> SUFFICES ASSUME QuietInv, IInv, NobodyQuit
               PROVE  /\ ~exited
                      /\ \A f \in Fds : Closing(f) = {}
                      /\ \A c \in Clients : got[c] = [i \in DOMAIN got[c] |-> <<c, i>>]
    BY DEF HarmlessWhileNobodyQuits, NobodyQuit
  <2>1. ~exited /\ \A f \in Fds : Closing(f) = {}
    BY DEF QuietInv, Closing, SameOwner
  <2>2. ASSUME NEW c \in Clients
        PROVE  got[c] = [i \in DOMAIN got[c] |-> <<c, i>>]
    <3>1. got[c] \in Seq(Clients \X Nat)
      BY DEF IInv, TypeOK
    <3>2. DOMAIN got[c] = 1 .. Len(got[c])
      BY <3>1
    <3>3. \A i \in DOMAIN got[c] : got[c][i] = <<c, i>>
      BY <3>2 DEF QuietInv, OwnReplies
    <3>4. got[c] = [i \in DOMAIN got[c] |-> got[c][i]]
      BY <3>1
    <3>5. QED
      BY <3>3, <3>4
  <2>3. QED
    BY <2>1, <2>2
<1>2. Init => QuietInv
    BY QuietInit
<1>3. IInv /\ QuietInv /\ [Next]_vars => QuietInv'
    BY QuietStep
<1>4. QED
    BY <1>1, <1>2, <1>3, Invariant, PTL DEF Spec
=============================================================================
