------------------------------ MODULE ConnPool ------------------------------
(***************************************************************************)
(* The connection pool of src/src/Mysql: a producer thread that keeps      *)
(* minSize connections idle, a recycler thread that closes connections     *)
(* that were idle for too long, and client threads that borrow a           *)
(* connection through getMysqlConn and give it back when the shared_ptr    *)
(* they got goes out of scope.                                             *)
(*                                                                         *)
(* Everything happens under m_mutex, so a critical section is one action;  *)
(* waiting on m_cond splits it in two.  Time is kept as the age of each    *)
(* idle connection, getAliveTime(): only its comparison with maxIdleTime   *)
(* matters, so ages stop growing there.                                    *)
(***************************************************************************)
EXTENDS Integers, Sequences, FiniteSets

CONSTANTS
    Clients,   \* threads that run opt2
    Conns,     \* names (addresses) for connections; a closed one may be reused
    NoConn,
    MinSize,   \* m_minSize
    MaxIdle,   \* m_maxIdleTime, in ticks
    Requests   \* connections each client asks for in its life (bounds the model)

ASSUME PoolAssumption == MinSize \in Nat /\ MaxIdle \in Nat /\ Requests \in Nat
ASSUME ConnAssumption == NoConn \notin Conns
ASSUME ClientsAssumption == IsFiniteSet(Clients)

VARIABLES
    m_connPoolQ, \* the idle connections, oldest first
    age,         \* how long each idle connection has been idle
    conn,        \* the connection each client holds
    cpc,         \* where each client is
    left,        \* requests each client still has to make
    ppc          \* where the producer is; none: it does not run

vars == <<m_connPoolQ, age, conn, cpc, left, ppc>>

Idle == {m_connPoolQ[i] : i \in DOMAIN m_connPoolQ}
Held == {conn[c] : c \in Clients} \ {NoConn}
Size == Len(m_connPoolQ)

\* The constructor, after dbconf.json was parsed: minSize connections and the two
\* threads.
Configured ==
    /\ m_connPoolQ \in {q \in [1 .. MinSize -> Conns] :
                           \A i, j \in 1 .. MinSize : q[i] = q[j] => i = j}
    /\ ppc = "run"

\* It was not: the pool is there all the same, without connections and threads, and
\* clients wait in it for ever.
Unconfigured == m_connPoolQ = <<>> /\ ppc = "none"

Init ==
    /\ Configured \/ Unconfigured
    /\ age = [k \in Conns |-> 0]
    /\ conn = [c \in Clients |-> NoConn]
    /\ cpc = [c \in Clients |-> "out"]
    /\ left = [c \in Clients |-> Requests]

\* Faulty: nobody is woken.
NotifyAll_Nobody(pcs) == cpc' = pcs /\ ppc' = ppc

\* m_cond.notify_all(): producer and clients wait on the same condition.  pcs
\* is what the step itself makes of cpc.
NotifyAll(pcs) ==
    /\ cpc' = [c \in Clients |-> IF pcs[c] = "waiting" THEN "woken" ELSE pcs[c]]
    /\ ppc' = IF ppc = "waiting" THEN "run" ELSE ppc
-----------------------------------------------------------------------------
(***************************************************************************)
(* Clients.                                                                *)
(***************************************************************************)

\* getMysqlConn finds the pool empty: wait_for releases m_mutex.
ClientWait(c) ==
    /\ cpc[c] = "woken" \/ (cpc[c] = "out" /\ left[c] > 0)
    /\ m_connPoolQ = <<>>
    /\ cpc' = [cpc EXCEPT ![c] = "waiting"]
    /\ UNCHANGED <<m_connPoolQ, age, conn, left, ppc>>

\* getMysqlConn takes the connection at the front and notifies.
ClientTake(c) ==
    /\ cpc[c] = "woken" \/ (cpc[c] = "out" /\ left[c] > 0)
    /\ m_connPoolQ # <<>>
    /\ conn' = [conn EXCEPT ![c] = Head(m_connPoolQ)]
    /\ m_connPoolQ' = Tail(m_connPoolQ)
    /\ NotifyAll([cpc EXCEPT ![c] = "using"])
    /\ UNCHANGED <<age, left>>

\* Faulty: waits without a limit.
ClientTimeout_Never(c) == cpc[c] = "waiting" /\ UNCHANGED vars

\* wait_for ends by itself: its m_timeout passed, or a spurious wake-up.  Either
\* way the loop tests the queue again.
ClientTimeout(c) ==
    /\ cpc[c] = "waiting"
    /\ cpc' = [cpc EXCEPT ![c] = "woken"]
    /\ UNCHANGED <<m_connPoolQ, age, conn, left, ppc>>

\* Faulty: the connection keeps the time of its previous use.
ClientRelease_NoRefresh(c) ==
    /\ cpc[c] = "using"
    /\ age' = [age EXCEPT ![conn[c]] = MaxIdle]
    /\ m_connPoolQ' = Append(m_connPoolQ, conn[c])
    /\ conn' = [conn EXCEPT ![c] = NoConn]
    /\ cpc' = [cpc EXCEPT ![c] = "out"]
    /\ left' = [left EXCEPT ![c] = @ - 1]
    /\ UNCHANGED ppc

\* Faulty: the client goes on using the connection it gave back.
ClientRelease_KeepsPointer(c) ==
    /\ cpc[c] = "using"
    /\ age' = [age EXCEPT ![conn[c]] = 0]
    /\ m_connPoolQ' = Append(m_connPoolQ, conn[c])
    /\ left' = [left EXCEPT ![c] = @ - 1]
    /\ UNCHANGED <<conn, cpc, ppc>>

\* The deleter of the shared_ptr: refreshes the connection, puts it at the back
\* and notifies nobody.
ClientRelease(c) ==
    /\ cpc[c] = "using"
    /\ age' = [age EXCEPT ![conn[c]] = 0]
    /\ m_connPoolQ' = Append(m_connPoolQ, conn[c])
    /\ conn' = [conn EXCEPT ![c] = NoConn]
    /\ cpc' = [cpc EXCEPT ![c] = "out"]
    /\ left' = [left EXCEPT ![c] = @ - 1]
    /\ UNCHANGED ppc

ClientStep(c) == ClientWait(c) \/ ClientTake(c) \/ ClientRelease(c)
-----------------------------------------------------------------------------
(***************************************************************************)
(* The producer.                                                           *)
(***************************************************************************)
ProducerWait ==
    /\ ppc = "run"
    /\ Size >= MinSize
    /\ ppc' = "waiting"
    /\ UNCHANGED <<m_connPoolQ, age, conn, cpc, left>>

\* Faulty: counts with "greater than".
ProducerCreate_OneMore ==
    /\ ppc = "run"
    /\ Size <= MinSize
    /\ \E k \in Conns \ (Idle \cup Held) :
          /\ m_connPoolQ' = Append(m_connPoolQ, k)
          /\ age' = [age EXCEPT ![k] = 0]
    /\ NotifyAll(cpc)
    /\ UNCHANGED <<conn, left>>

\* Creates one connection and notifies.  It keeps m_mutex while it connects;
\* the result of connect is not looked at.
ProducerCreate ==
    /\ ppc = "run"
    /\ Size < MinSize
    /\ \E k \in Conns \ (Idle \cup Held) :
          /\ m_connPoolQ' = Append(m_connPoolQ, k)
          /\ age' = [age EXCEPT ![k] = 0]
    /\ NotifyAll(cpc)
    /\ UNCHANGED <<conn, left>>

\* m_cond.wait may return without a notification.
ProducerSpurious ==
    /\ ppc = "waiting"
    /\ ppc' = "run"
    /\ UNCHANGED <<m_connPoolQ, age, conn, cpc, left>>
-----------------------------------------------------------------------------
(***************************************************************************)
(* Time and the recycler.                                                  *)
(***************************************************************************)
Tick ==
    /\ age' = [k \in Conns |-> IF k \in Idle /\ age[k] < MaxIdle THEN age[k] + 1 ELSE age[k]]
    /\ UNCHANGED <<m_connPoolQ, conn, cpc, left, ppc>>

Expired(i) == age[m_connPoolQ[i]] >= MaxIdle

\* Faulty: stops after one connection.
RecycleCount_OnlyFirst(n) == n = IF Size > MinSize /\ Expired(1) THEN 1 ELSE 0

\* Faulty: keeps one connection more than the minimum.
RecycleCount_KeepsOneMore(n) ==
    /\ \A i \in 1 .. n : Expired(i) /\ Size - i > MinSize
    /\ n < Size => ~Expired(n + 1) \/ Size - n <= MinSize + 1

\* The loop of recycleConn closes the first n connections: it closes one while
\* more than minSize are idle and the one at the front has expired, and stops
\* as soon as one of the two fails.
RecycleCount(n) ==
    /\ \A i \in 1 .. n : Expired(i) /\ Size - i >= MinSize
    /\ n < Size => ~Expired(n + 1) \/ Size - n <= MinSize

\* One round of recycleConn; its sleep only says that a round comes now and then.
Recycle ==
    /\ \E n \in 0 .. Size :
          /\ RecycleCount(n)
          /\ m_connPoolQ' = SubSeq(m_connPoolQ, n + 1, Size)
    /\ UNCHANGED <<age, conn, cpc, left, ppc>>

\* The destructor of the static pool, when main has joined the clients: it deletes
\* what is in the queue, and the two detached threads end with the process.  It
\* takes no lock: what a round of the recycler at the same time does to the queue
\* has no definition.
Destroy ==
    /\ \A c \in Clients : cpc[c] = "out" /\ left[c] = 0
    /\ m_connPoolQ' = <<>>
    /\ ppc' = "none"
    /\ UNCHANGED <<age, conn, cpc, left>>
-----------------------------------------------------------------------------
Next ==
    \/ \E c \in Clients : ClientStep(c) \/ ClientTimeout(c)
    \/ ProducerWait \/ ProducerCreate \/ ProducerSpurious
    \/ Tick
    \/ Recycle
    \/ Destroy

Spec == Init /\ [][Next]_vars

\* Threads that can run do run, time passes, wait_for ends when m_timeout is over
\* and the recycler wakes up again and again.  Spurious wake-ups are not relied on.
Fairness ==
    /\ \A c \in Clients : WF_vars(ClientStep(c)) /\ WF_vars(ClientTimeout(c))
    /\ WF_vars(ProducerWait \/ ProducerCreate)
    /\ WF_vars(Tick)
    /\ WF_vars(Recycle)

FairSpec == Spec /\ Fairness
-----------------------------------------------------------------------------
(***************************************************************************)
(* Safety.                                                                 *)
(***************************************************************************)
TypeOK ==
    /\ m_connPoolQ \in Seq(Conns)
    /\ age \in [Conns -> 0 .. MaxIdle]
    /\ conn \in [Clients -> Conns \cup {NoConn}]
    /\ cpc \in [Clients -> {"out", "waiting", "woken", "using"}]
    /\ left \in [Clients -> 0 .. Requests]
    /\ ppc \in {"run", "waiting", "none"}

\* A connection is in the queue once or with one client, never both: nobody
\* else uses, recycles or hands out a connection that a client holds.
ExclusiveConns ==
    /\ \A i, j \in DOMAIN m_connPoolQ : m_connPoolQ[i] = m_connPoolQ[j] => i = j
    /\ \A c, d \in Clients : conn[c] # NoConn /\ conn[c] = conn[d] => c = d
    /\ Idle \cap Held = {}

\* The idle connections are ordered by the time of their last use.  The
\* recycler's "else break" (52) relies on it.
OldestFirst ==
    \A i, j \in DOMAIN m_connPoolQ : i <= j => age[m_connPoolQ[i]] >= age[m_connPoolQ[j]]

\* No wake-up of the producer is lost: it sleeps only while the pool has its
\* minimum, although the deleter and the recycler change the queue and never
\* notify.
ProducerAwake == ppc = "waiting" => Size >= MinSize

\* The pool never has more connections than the minimum and one per client.
SizeBound == Size + Cardinality(Held) <= MinSize + Cardinality(Clients)

\* A round of the recycler leaves no expired connection beyond the minimum,
\* although it looks at the front of the queue only.
RecyclesAllExpired ==
    [][Recycle => Size' <= MinSize \/ \A i \in DOMAIN m_connPoolQ' : ~Expired(i)']_vars

(***************************************************************************)
(* Liveness, under FairSpec.                                               *)
(***************************************************************************)

\* Every client of a configured pool gets all the connections it asks for.  The timeout of wait_for is
\* what makes it so: a connection that is given back wakes nobody, and when it
\* brings the pool to its minimum the producer does not notify either.
AllServed == ppc # "none" => <>(\A c \in Clients : left[c] = 0 /\ cpc[c] = "out")

\* The connections made for a burst of clients are closed again, down to minSize,
\* and the pool stays so until it is destroyed.
ShrinksToMin == <>[](Size = MinSize \/ ppc = "none")
=============================================================================
