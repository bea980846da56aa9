-------------------------- MODULE DbProgramsProofs --------------------------
(***************************************************************************)
(* Proofs about the connection pool, for any number of clients and         *)
(* connections and any sizes; and about DbPrograms, whose behaviours are,  *)
(* each seen through its own variables, those of ConnPool, MysqlConn and   *)
(* RedisConn.  What RedisConn keeps is proved here, MysqlConnProofs has    *)
(* the proofs about MysqlConn.                                             *)
(***************************************************************************)
EXTENDS DbPrograms, FiniteSetTheorems, TLAPS

\* A client in "using" is one that holds a connection, and one that is inside
\* getMysqlConn or beyond has a request left.
UsingHolds ==
    \A c \in Clients :
        /\ cpc[c] = "using" <=> conn[c] # NoConn
        /\ cpc[c] # "out" => left[c] > 0

TypeInv == TypeOK /\ UsingHolds

\* The recycler keeps a suffix of the queue.
LEMMA Suffix ==
    ASSUME NEW S, NEW q \in Seq(S), NEW n \in 0 .. Len(q)
    PROVE  /\ SubSeq(q, n + 1, Len(q)) \in Seq(S)
           /\ Len(SubSeq(q, n + 1, Len(q))) = Len(q) - n
           /\ \A i \in 1 .. Len(q) - n : SubSeq(q, n + 1, Len(q))[i] = q[n + i]
OBVIOUS

LEMMA TypeInit == Init => TypeInv
<1> SUFFICES ASSUME Init
             PROVE  TypeInv
    OBVIOUS
<1> USE PoolAssumption, ConnAssumption DEF Init, Configured, Unconfigured
<1>1. m_connPoolQ \in Seq(Conns)
    <2>1. CASE m_connPoolQ = <<>>
        BY <2>1
    <2>2. CASE m_connPoolQ \in [1 .. MinSize -> Conns]
        BY <2>2
    <2>3. QED
        BY <2>1, <2>2
<1>2. TypeOK
    BY <1>1 DEF TypeOK
<1>3. UsingHolds
    BY DEF UsingHolds
<1>4. QED
    BY <1>2, <1>3 DEF TypeInv

LEMMA TypeStep == TypeInv /\ [Next]_vars => TypeInv'
<1> SUFFICES ASSUME TypeInv, [Next]_vars
             PROVE  TypeInv'
    OBVIOUS
<1> USE PoolAssumption, ConnAssumption DEF TypeInv, TypeOK, UsingHolds
<1>1. ASSUME NEW c \in Clients, ClientWait(c)
      PROVE  TypeInv'
    BY <1>1 DEF ClientWait
<1>2. ASSUME NEW c \in Clients, ClientTake(c)
      PROVE  TypeInv'
    <2>1. Head(m_connPoolQ) \in Conns /\ m_connPoolQ' \in Seq(Conns)
        BY <1>2 DEF ClientTake
    <2>2. /\ cpc' = [d \in Clients |-> IF [cpc EXCEPT ![c] = "using"][d] = "waiting"
                                       THEN "woken" ELSE [cpc EXCEPT ![c] = "using"][d]]
          /\ ppc' = IF ppc = "waiting" THEN "run" ELSE ppc
        BY <1>2 DEF ClientTake, NotifyAll
    <2>3. /\ cpc'[c] = "using"
          /\ \A d \in Clients \ {c} : cpc'[d] = IF cpc[d] = "waiting" THEN "woken" ELSE cpc[d]
        BY <2>2
    <2>4. cpc' \in [Clients -> {"out", "waiting", "woken", "using"}] /\ ppc' \in {"run", "none"}
        BY <2>2, <2>3
    <2>5. QED
        BY <1>2, <2>1, <2>3, <2>4 DEF ClientTake
<1>3. ASSUME NEW c \in Clients, ClientRelease(c)
      PROVE  TypeInv'
    <2>0. cpc[c] = "using" /\ left[c] \in 0 .. Requests
        BY <1>3 DEF ClientRelease
    <2>1. conn[c] \in Conns /\ left[c] - 1 \in 0 .. Requests
        <3>1. conn[c] # NoConn /\ left[c] > 0
            BY <2>0
        <3>2. QED
            BY <2>0, <3>1
    <2>2. m_connPoolQ' \in Seq(Conns) /\ age' \in [Conns -> 0 .. MaxIdle]
        BY <1>3, <2>1 DEF ClientRelease
    <2>3. /\ conn' \in [Clients -> Conns \cup {NoConn}]
          /\ cpc' \in [Clients -> {"out", "waiting", "woken", "using"}]
          /\ left' \in [Clients -> 0 .. Requests]
          /\ ppc' = ppc
        BY <1>3, <2>1 DEF ClientRelease
    <2>4. UsingHolds'
        BY <1>3 DEF ClientRelease
    <2>5. QED
        BY <2>2, <2>3, <2>4
<1>4. ASSUME NEW c \in Clients, ClientTimeout(c)
      PROVE  TypeInv'
    BY <1>4 DEF ClientTimeout
<1>5. CASE ProducerWait
    BY <1>5 DEF ProducerWait
<1>6. CASE ProducerCreate
    <2>1. /\ cpc' = [d \in Clients |-> IF cpc[d] = "waiting" THEN "woken" ELSE cpc[d]]
          /\ ppc' = "run"
        BY <1>6 DEF ProducerCreate, NotifyAll
    <2>2. QED
        BY <1>6, <2>1 DEF ProducerCreate
<1>7. CASE ProducerSpurious
    BY <1>7 DEF ProducerSpurious
<1>8. CASE Tick
    BY <1>8 DEF Tick
<1>9. CASE Recycle
    BY <1>9, Suffix DEF Recycle, Size
<1>10. CASE Destroy
    BY <1>10 DEF Destroy
<1>11. CASE UNCHANGED vars
    BY <1>11 DEF vars
<1>12. QED
    BY <1>1, <1>2, <1>3, <1>4, <1>5, <1>6, <1>7, <1>8, <1>9, <1>10, <1>11 DEF Next, ClientStep

LEMMA TypeInvariant == Spec => []TypeInv
BY TypeInit, TypeStep, PTL DEF Spec

\* Every variable keeps its type.
THEOREM TypeCorrect == Spec => []TypeOK
<1>1. TypeInv => TypeOK
    BY DEF TypeInv
<1>2. QED
    BY <1>1, TypeInvariant, PTL

-----------------------------------------------------------------------------
(***************************************************************************)
(* The producer.                                                           *)
(***************************************************************************)

\* The producer sleeps only while at least minSize connections are idle: the
\* only step that can bring the pool below the minimum notifies.
THEOREM ProducerAwakeHolds == Spec => []ProducerAwake
<1>1. Init => ProducerAwake
    BY DEF Init, Configured, Unconfigured, ProducerAwake
<1>2. TypeInv /\ ProducerAwake /\ [Next]_vars => ProducerAwake'
    <2> SUFFICES ASSUME TypeInv, ProducerAwake, [Next]_vars
                 PROVE  ProducerAwake'
        OBVIOUS
    <2> USE PoolAssumption DEF TypeInv, TypeOK, ProducerAwake, Size
    <2>1. ASSUME NEW c \in Clients, ClientWait(c) \/ ClientTimeout(c)
          PROVE  ProducerAwake'
        BY <2>1 DEF ClientWait, ClientTimeout
    <2>2. ASSUME NEW c \in Clients, ClientTake(c)
          PROVE  ProducerAwake'
        BY <2>2 DEF ClientTake, NotifyAll
    <2>3. ASSUME NEW c \in Clients, ClientRelease(c)
          PROVE  ProducerAwake'
        <3>1. conn[c] \in Conns /\ m_connPoolQ' = Append(m_connPoolQ, conn[c]) /\ ppc' = ppc
            BY <2>3 DEF ClientRelease, UsingHolds
        <3>2. QED
            BY <3>1
    <2>4. CASE ProducerWait
        BY <2>4 DEF ProducerWait
    <2>5. CASE ProducerCreate
        BY <2>5 DEF ProducerCreate, NotifyAll
    <2>6. CASE ProducerSpurious \/ Tick \/ UNCHANGED vars
        BY <2>6 DEF ProducerSpurious, Tick, vars
    <2>7. CASE Recycle
        <3>1. PICK n \in 0 .. Len(m_connPoolQ) :
                 RecycleCount(n) /\ m_connPoolQ' = SubSeq(m_connPoolQ, n + 1, Len(m_connPoolQ))
            BY <2>7 DEF Recycle
        <3>2. Len(m_connPoolQ') = Len(m_connPoolQ) - n
            BY <3>1, Suffix
        <3>3. n > 0 => Len(m_connPoolQ) - n >= MinSize
            BY <3>1 DEF RecycleCount
        <3>4. QED
            BY <2>7, <3>2, <3>3 DEF Recycle
    <2>8. CASE Destroy
        BY <2>8 DEF Destroy
    <2>9. QED
        BY <2>1, <2>2, <2>3, <2>4, <2>5, <2>6, <2>7, <2>8 DEF Next, ClientStep
<1>3. QED
    BY <1>1, <1>2, TypeInvariant, PTL DEF Spec

-----------------------------------------------------------------------------
(***************************************************************************)
(* Ownership.                                                              *)
(***************************************************************************)

\* ExclusiveConns without the sets: no entry of the queue equals another, no
\* client's connection equals another's, and no entry equals a client's.
QueueOnce == \A i, j \in 1 .. Len(m_connPoolQ) : m_connPoolQ[i] = m_connPoolQ[j] => i = j
HeldOnce == \A c, d \in Clients : conn[c] # NoConn /\ conn[c] = conn[d] => c = d
Apart == \A i \in 1 .. Len(m_connPoolQ), c \in Clients : m_connPoolQ[i] # conn[c]
OwnedOnce == QueueOnce /\ HeldOnce /\ Apart

LEMMA OwnedOnceSuffices == TypeInv /\ OwnedOnce => ExclusiveConns
<1> SUFFICES ASSUME TypeInv, OwnedOnce
             PROVE  ExclusiveConns
    OBVIOUS
<1>1. m_connPoolQ \in Seq(Conns) /\ DOMAIN m_connPoolQ = 1 .. Len(m_connPoolQ)
    BY DEF TypeInv, TypeOK
<1>2. Idle \cap Held = {}
    BY <1>1 DEF OwnedOnce, Apart, Idle, Held
<1>3. QED
    BY <1>1, <1>2 DEF OwnedOnce, QueueOnce, HeldOnce, ExclusiveConns

LEMMA OwnedOnceInit == Init => OwnedOnce
<1> SUFFICES ASSUME Init
             PROVE  OwnedOnce
    OBVIOUS
<1>1. \/ m_connPoolQ = <<>>
      \/ /\ Len(m_connPoolQ) = MinSize
         /\ \A i \in 1 .. MinSize : m_connPoolQ[i] \in Conns
         /\ \A i, j \in 1 .. MinSize : m_connPoolQ[i] = m_connPoolQ[j] => i = j
    BY PoolAssumption DEF Init, Configured, Unconfigured
<1>2. \A c \in Clients : conn[c] = NoConn
    BY DEF Init
<1>3. QED
    BY <1>1, <1>2, ConnAssumption DEF OwnedOnce, QueueOnce, HeldOnce, Apart

LEMMA OwnedOnceStep ==
    TypeInv /\ OwnedOnce /\ [Next]_vars => OwnedOnce'
<1> SUFFICES ASSUME TypeInv, OwnedOnce, [Next]_vars
             PROVE  OwnedOnce'
    OBVIOUS
<1> DEFINE N == Len(m_connPoolQ)
<1>q. /\ m_connPoolQ \in Seq(Conns) /\ N \in Nat
      /\ \A i \in 1 .. N : m_connPoolQ[i] \in Conns
      /\ conn \in [Clients -> Conns \cup {NoConn}]
    BY DEF TypeInv, TypeOK
<1>a. ASSUME UNCHANGED <<m_connPoolQ, conn>>
      PROVE  OwnedOnce'
    BY <1>a DEF OwnedOnce, QueueOnce, HeldOnce, Apart
<1>1. ASSUME NEW c \in Clients, ClientWait(c) \/ ClientTimeout(c)
      PROVE  OwnedOnce'
    BY <1>1, <1>a DEF ClientWait, ClientTimeout
<1>2. ASSUME NEW c \in Clients, ClientTake(c)
      PROVE  OwnedOnce'
    <2>1. /\ conn' = [conn EXCEPT ![c] = m_connPoolQ[1]]
          /\ N > 0
          /\ Len(m_connPoolQ') = N - 1
          /\ \A i \in 1 .. N - 1 : m_connPoolQ'[i] = m_connPoolQ[i + 1]
        BY <1>2, <1>q DEF ClientTake
    <2>2. QueueOnce'
        BY <1>q, <2>1 DEF OwnedOnce, QueueOnce
    <2>3. HeldOnce'
        BY <1>q, <2>1 DEF OwnedOnce, Apart, HeldOnce
    <2>4. Apart'
        BY <1>q, <2>1 DEF OwnedOnce, QueueOnce, Apart
    <2>5. QED
        BY <2>2, <2>3, <2>4 DEF OwnedOnce
<1>3. ASSUME NEW c \in Clients, ClientRelease(c)
      PROVE  OwnedOnce'
    <2>1. /\ conn' = [conn EXCEPT ![c] = NoConn]
          /\ conn[c] \in Conns
          /\ Len(m_connPoolQ') = N + 1
          /\ \A i \in 1 .. N : m_connPoolQ'[i] = m_connPoolQ[i]
          /\ m_connPoolQ'[N + 1] = conn[c]
        BY <1>3, <1>q DEF ClientRelease, TypeInv, UsingHolds
    <2>2. QueueOnce'
        BY <1>q, <2>1 DEF OwnedOnce, QueueOnce, Apart
    <2>3. HeldOnce'
        BY <1>q, <2>1 DEF OwnedOnce, HeldOnce
    <2>4. Apart'
        BY <1>q, <2>1, ConnAssumption DEF OwnedOnce, HeldOnce, Apart
    <2>5. QED
        BY <2>2, <2>3, <2>4 DEF OwnedOnce
<1>4. CASE ProducerWait \/ ProducerSpurious \/ Tick \/ UNCHANGED vars
    BY <1>4, <1>a DEF ProducerWait, ProducerSpurious, Tick, vars
<1>5. CASE ProducerCreate
    <2>1. PICK k \in Conns \ (Idle \cup Held) : m_connPoolQ' = Append(m_connPoolQ, k)
        BY <1>5 DEF ProducerCreate
    <2>2. /\ conn' = conn
          /\ Len(m_connPoolQ') = N + 1
          /\ \A i \in 1 .. N : m_connPoolQ'[i] = m_connPoolQ[i]
          /\ m_connPoolQ'[N + 1] = k
        BY <1>5, <1>q, <2>1 DEF ProducerCreate
    <2>3. \A i \in 1 .. N : m_connPoolQ[i] # k
        BY <1>q, <2>1 DEF Idle
    <2>4. \A d \in Clients : conn[d] # k
        BY <2>1, ConnAssumption DEF Held
    <2>5. QueueOnce'
        BY <1>q, <2>2, <2>3 DEF OwnedOnce, QueueOnce
    <2>6. HeldOnce' /\ Apart'
        BY <1>q, <2>2, <2>4 DEF OwnedOnce, HeldOnce, Apart
    <2>7. QED
        BY <2>5, <2>6 DEF OwnedOnce
<1>6. CASE Recycle
    <2>1. PICK n \in 0 .. N : m_connPoolQ' = SubSeq(m_connPoolQ, n + 1, N)
        BY <1>6 DEF Recycle, Size
    <2>2. /\ conn' = conn
          /\ Len(m_connPoolQ') = N - n
          /\ \A i \in 1 .. N - n : m_connPoolQ'[i] = m_connPoolQ[n + i]
        BY <1>6, <1>q, <2>1, Suffix DEF Recycle
    <2>3. \A i \in 1 .. N - n : n + i \in 1 .. N
        BY <1>q
    <2>4. QueueOnce'
        <3>1. SUFFICES ASSUME NEW i \in 1 .. N - n, NEW j \in 1 .. N - n,
                              m_connPoolQ'[i] = m_connPoolQ'[j]
                       PROVE  i = j
            BY <2>2 DEF QueueOnce
        <3>2. m_connPoolQ[n + i] = m_connPoolQ[n + j]
            BY <2>2, <3>1
        <3>3. n + i = n + j
            BY <2>3, <3>2 DEF OwnedOnce, QueueOnce
        <3>4. QED
            BY <1>q, <3>3
    <2>5. HeldOnce' /\ Apart'
        BY <1>q, <2>2, <2>3 DEF OwnedOnce, HeldOnce, Apart
    <2>6. QED
        BY <2>4, <2>5 DEF OwnedOnce
<1>7. CASE Destroy
    <2>1. m_connPoolQ' = <<>> /\ conn' = conn
        BY <1>7 DEF Destroy
    <2>2. QED
        BY <2>1 DEF OwnedOnce, QueueOnce, HeldOnce, Apart
<1>8. QED
    BY <1>1, <1>2, <1>3, <1>4, <1>5, <1>6, <1>7 DEF Next, ClientStep

\* A connection is idle or with one client, never both or twice.
THEOREM ExclusiveConnsHolds == Spec => []ExclusiveConns
<1>1. QED
    BY OwnedOnceInit, OwnedOnceStep, OwnedOnceSuffices, TypeInvariant, PTL DEF Spec

-----------------------------------------------------------------------------
(***************************************************************************)
(* Ages.  A connection enters the queue with age 0 and all ages grow       *)
(* together, so the queue stays sorted.                                    *)
(***************************************************************************)
Sorted == \A i, j \in 1 .. Len(m_connPoolQ) : i <= j => age[m_connPoolQ[i]] >= age[m_connPoolQ[j]]

LEMMA SortedStep ==
    TypeInv /\ OwnedOnce /\ Sorted /\ [Next]_vars => Sorted'
<1> SUFFICES ASSUME TypeInv, OwnedOnce, Sorted, [Next]_vars
             PROVE  Sorted'
    OBVIOUS
<1> DEFINE N == Len(m_connPoolQ)
<1>q. /\ m_connPoolQ \in Seq(Conns) /\ N \in Nat
      /\ \A i \in 1 .. N : m_connPoolQ[i] \in Conns
      /\ age \in [Conns -> 0 .. MaxIdle]
      /\ \A k \in Conns : age[k] \in Nat /\ age[k] <= MaxIdle
      /\ MaxIdle \in Nat
    BY PoolAssumption DEF TypeInv, TypeOK
<1>a. ASSUME UNCHANGED <<m_connPoolQ, age>>
      PROVE  Sorted'
    BY <1>a DEF Sorted
<1>1. ASSUME NEW c \in Clients, ClientWait(c) \/ ClientTimeout(c)
      PROVE  Sorted'
    BY <1>1, <1>a DEF ClientWait, ClientTimeout
<1>2. ASSUME NEW c \in Clients, ClientTake(c)
      PROVE  Sorted'
    <2>1. /\ age' = age
          /\ Len(m_connPoolQ') = N - 1
          /\ \A i \in 1 .. N - 1 : m_connPoolQ'[i] = m_connPoolQ[i + 1]
        BY <1>2, <1>q DEF ClientTake
    <2>2. ASSUME NEW i \in 1 .. N - 1, NEW j \in 1 .. N - 1, i <= j
          PROVE  age[m_connPoolQ[i + 1]] >= age[m_connPoolQ[j + 1]]
        <3>1. i + 1 \in 1 .. N /\ j + 1 \in 1 .. N /\ i + 1 <= j + 1
            BY <1>q, <2>2
        <3>2. QED
            BY <3>1 DEF Sorted
    <2>3. QED
        BY <1>q, <2>1, <2>2 DEF Sorted
<1>b. ASSUME NEW k \in Conns, \A i \in 1 .. N : m_connPoolQ[i] # k,
             m_connPoolQ' = Append(m_connPoolQ, k), age' = [age EXCEPT ![k] = 0]
      PROVE  Sorted'
    <2>1. /\ Len(m_connPoolQ') = N + 1
          /\ \A i \in 1 .. N : m_connPoolQ'[i] = m_connPoolQ[i]
          /\ m_connPoolQ'[N + 1] = k
        BY <1>q, <1>b
    <2>2. /\ age'[k] = 0
          /\ \A i \in 1 .. N : age'[m_connPoolQ[i]] = age[m_connPoolQ[i]] /\ age[m_connPoolQ[i]] >= 0
        BY <1>q, <1>b
    <2>3. ASSUME NEW i \in 1 .. N + 1, NEW j \in 1 .. N + 1, i <= j
          PROVE  age'[m_connPoolQ'[i]] >= age'[m_connPoolQ'[j]]
        <3>1. CASE j = N + 1 /\ i = N + 1
            BY <2>1, <2>2, <3>1
        <3>2. CASE j = N + 1 /\ i \in 1 .. N
            BY <2>1, <2>2, <3>2
        <3>3. CASE i \in 1 .. N /\ j \in 1 .. N
            BY <2>1, <2>2, <2>3, <3>3 DEF Sorted
        <3>4. QED
            BY <1>q, <2>3, <3>1, <3>2, <3>3
    <2>4. QED
        BY <2>1, <2>3 DEF Sorted
<1>3. ASSUME NEW c \in Clients, ClientRelease(c)
      PROVE  Sorted'
    <2>1. /\ conn[c] \in Conns
          /\ m_connPoolQ' = Append(m_connPoolQ, conn[c])
          /\ age' = [age EXCEPT ![conn[c]] = 0]
        BY <1>3 DEF ClientRelease, TypeInv, TypeOK, UsingHolds
    <2>2. \A i \in 1 .. N : m_connPoolQ[i] # conn[c]
        BY DEF OwnedOnce, Apart
    <2>3. PICK k \in Conns : k = conn[c]
        BY <2>1
    <2>4. QED
        BY <1>b, <2>1, <2>2, <2>3
<1>4. CASE ProducerWait \/ ProducerSpurious \/ UNCHANGED vars
    BY <1>4, <1>a DEF ProducerWait, ProducerSpurious, vars
<1>5. CASE ProducerCreate
    <2>1. PICK k \in Conns \ (Idle \cup Held) :
             m_connPoolQ' = Append(m_connPoolQ, k) /\ age' = [age EXCEPT ![k] = 0]
        BY <1>5 DEF ProducerCreate
    <2>2. \A i \in 1 .. N : m_connPoolQ[i] # k
        BY <1>q, <2>1 DEF Idle
    <2>3. QED
        BY <1>b, <2>1, <2>2
<1>6. CASE Tick
    <2>1. \A i \in 1 .. N : m_connPoolQ[i] \in Idle
        BY <1>q DEF Idle
    <2>2. /\ m_connPoolQ' = m_connPoolQ
          /\ \A k \in Idle \cap Conns : age'[k] = IF age[k] < MaxIdle THEN age[k] + 1 ELSE age[k]
        BY <1>6 DEF Tick
    <2>3. \A i \in 1 .. N :
             age'[m_connPoolQ[i]] = IF age[m_connPoolQ[i]] < MaxIdle
                                    THEN age[m_connPoolQ[i]] + 1 ELSE age[m_connPoolQ[i]]
        BY <1>q, <2>1, <2>2
    <2>4. \A i \in 1 .. N : age[m_connPoolQ[i]] \in Nat /\ age[m_connPoolQ[i]] <= MaxIdle
        BY <1>q
    <2>5. QED
        BY <1>q, <2>2, <2>3, <2>4 DEF Sorted
<1>7. CASE Recycle
    <2>1. PICK n \in 0 .. N : m_connPoolQ' = SubSeq(m_connPoolQ, n + 1, N)
        BY <1>7 DEF Recycle, Size
    <2>2. /\ age' = age
          /\ Len(m_connPoolQ') = N - n
          /\ \A i \in 1 .. N - n : m_connPoolQ'[i] = m_connPoolQ[n + i]
        BY <1>7, <1>q, <2>1, Suffix DEF Recycle
    <2>3. ASSUME NEW i \in 1 .. N - n, NEW j \in 1 .. N - n, i <= j
          PROVE  age[m_connPoolQ[n + i]] >= age[m_connPoolQ[n + j]]
        <3>1. n + i \in 1 .. N /\ n + j \in 1 .. N /\ n + i <= n + j
            BY <1>q, <2>3
        <3>2. QED
            BY <3>1 DEF Sorted
    <2>4. QED
        BY <1>q, <2>2, <2>3 DEF Sorted
<1>8. CASE Destroy
    <2>1. m_connPoolQ' = <<>>
        BY <1>8 DEF Destroy
    <2>2. QED
        BY <2>1 DEF Sorted
<1>9. QED
    BY <1>1, <1>2, <1>3, <1>4, <1>5, <1>6, <1>7, <1>8 DEF Next, ClientStep

LEMMA SortedInvariant == Spec => []Sorted
<1>1. Init => Sorted
    <2> SUFFICES ASSUME Init
                 PROVE  Sorted
        OBVIOUS
    <2>1. \/ m_connPoolQ = <<>>
          \/ Len(m_connPoolQ) = MinSize /\ \A i \in 1 .. MinSize : age[m_connPoolQ[i]] = 0
        BY PoolAssumption DEF Init, Configured, Unconfigured
    <2>2. QED
        BY <2>1 DEF Sorted
<1>2. QED
    BY <1>1, OwnedOnceInit, OwnedOnceStep, SortedStep, TypeInvariant, PTL DEF Spec

\* The idle connections are ordered by the time of their last use.
THEOREM OldestFirstHolds == Spec => []OldestFirst
<1>1. TypeInv /\ Sorted => OldestFirst
    <2>1. TypeInv => DOMAIN m_connPoolQ = 1 .. Len(m_connPoolQ)
        BY DEF TypeInv, TypeOK
    <2>2. QED
        BY <2>1 DEF Sorted, OldestFirst
<1>2. QED
    BY <1>1, SortedInvariant, TypeInvariant, PTL

-----------------------------------------------------------------------------
(***************************************************************************)
(* The recycler.                                                           *)
(***************************************************************************)

\* Looking at the front of the queue only, a round of the recycler still closes
\* every expired connection beyond the minimum.
THEOREM RecyclerComplete == Spec => RecyclesAllExpired
<1> DEFINE N == Len(m_connPoolQ)
           Complete == Size' <= MinSize \/ \A i \in DOMAIN m_connPoolQ' : ~Expired(i)'
<1>1. TypeInv /\ Sorted /\ [Next]_vars => [Recycle => Complete]_vars
    <2> SUFFICES ASSUME TypeInv, Sorted, Recycle
                 PROVE  Complete
        OBVIOUS
    <2>q. /\ m_connPoolQ \in Seq(Conns) /\ N \in Nat
          /\ \A i \in 1 .. N : m_connPoolQ[i] \in Conns /\ age[m_connPoolQ[i]] \in Int
          /\ MaxIdle \in Nat /\ MinSize \in Nat
        BY PoolAssumption DEF TypeInv, TypeOK
    <2>1. PICK n \in 0 .. N : RecycleCount(n) /\ m_connPoolQ' = SubSeq(m_connPoolQ, n + 1, N)
        BY DEF Recycle, Size
    <2>2. /\ age' = age
          /\ m_connPoolQ' \in Seq(Conns)
          /\ Len(m_connPoolQ') = N - n
          /\ \A i \in 1 .. N - n : m_connPoolQ'[i] = m_connPoolQ[n + i]
        BY <2>q, <2>1, Suffix DEF Recycle
    <2>3. CASE n = N
        BY <2>q, <2>2, <2>3 DEF Size
    <2>4. CASE n < N /\ N - n <= MinSize
        BY <2>2, <2>4 DEF Size
    <2>5. CASE n < N /\ ~Expired(n + 1)
        <3>1. n + 1 \in 1 .. N /\ age[m_connPoolQ[n + 1]] < MaxIdle
            BY <2>q, <2>5 DEF Expired
        <3>2. \A i \in 1 .. N - n : age'[m_connPoolQ'[i]] < MaxIdle
            <4> TAKE i \in 1 .. N - n
            <4>1. n + i \in 1 .. N /\ n + 1 <= n + i
                BY <2>q
            <4>2. age[m_connPoolQ[n + i]] <= age[m_connPoolQ[n + 1]]
                BY <2>q, <3>1, <4>1 DEF Sorted
            <4>3. QED
                BY <2>q, <2>2, <3>1, <4>1, <4>2
        <3>3. DOMAIN m_connPoolQ' = 1 .. N - n /\ \A i \in 1 .. N - n : age'[m_connPoolQ'[i]] \in Int
            BY <2>q, <2>2
        <3>4. QED
            BY <2>q, <3>2, <3>3 DEF Expired
    <2>6. QED
        BY <2>q, <2>1, <2>3, <2>4, <2>5 DEF RecycleCount, Size
<1>2. QED
    BY <1>1, SortedInvariant, TypeInvariant, PTL DEF Spec, RecyclesAllExpired
-----------------------------------------------------------------------------
(***************************************************************************)
(* How many connections there are.  The producer adds one to the queue     *)
(* while it is short, when even all clients together hold no more than     *)
(* one each; a connection that changes hands is counted once.              *)
(***************************************************************************)
HeldBounded ==
    /\ IsFiniteSet(Held)
    /\ Cardinality(Held) \in Nat /\ Cardinality(Clients) \in Nat
    /\ Cardinality(Held) <= Cardinality(Clients)

LEMMA HeldCount == TypeInv => HeldBounded
<1> SUFFICES ASSUME TypeInv
             PROVE  HeldBounded
    OBVIOUS
<1> DEFINE all == {conn[c] : c \in Clients}
<1>1. conn \in Surjection(Clients, all)
    BY DEF TypeInv, TypeOK, Surjection
<1>2. IsFiniteSet(all) /\ Cardinality(all) <= Cardinality(Clients)
    BY <1>1, ClientsAssumption, FS_Surjection
<1>3. Held \in SUBSET all
    BY DEF Held
<1>4. IsFiniteSet(Held) /\ Cardinality(Held) <= Cardinality(all)
    BY <1>2, <1>3, FS_Subset
<1>5. Cardinality(Held) \in Nat /\ Cardinality(all) \in Nat /\ Cardinality(Clients) \in Nat
    BY <1>2, <1>4, ClientsAssumption, FS_CardinalityType
<1>6. QED
    BY <1>2, <1>4, <1>5 DEF HeldBounded

LEMMA SizeInit == Init => SizeBound
<1> SUFFICES ASSUME Init
             PROVE  SizeBound
    OBVIOUS
<1>1. Held = {}
    BY DEF Init, Held
<1>2. Size \in Nat /\ Size <= MinSize
    BY PoolAssumption DEF Init, Configured, Unconfigured, Size
<1>3. Cardinality(Held) = 0 /\ Cardinality(Clients) \in Nat
    BY <1>1, ClientsAssumption, FS_EmptySet, FS_CardinalityType
<1>4. QED
    BY <1>2, <1>3, PoolAssumption DEF SizeBound

LEMMA SizeStep ==
    TypeInv /\ OwnedOnce /\ HeldBounded /\ HeldBounded' /\ SizeBound /\ [Next]_vars => SizeBound'
<1> SUFFICES ASSUME TypeInv, OwnedOnce, HeldBounded, HeldBounded', SizeBound, [Next]_vars
             PROVE  SizeBound'
    OBVIOUS
<1>q. /\ m_connPoolQ \in Seq(Conns) /\ Len(m_connPoolQ) \in Nat
      /\ conn \in [Clients -> Conns \cup {NoConn}]
      /\ MinSize \in Nat
    BY PoolAssumption DEF TypeInv, TypeOK
<1>h. /\ IsFiniteSet(Held)
      /\ Cardinality(Held) \in Nat /\ Cardinality(Clients) \in Nat
      /\ Cardinality(Held) <= Cardinality(Clients)
    BY DEF HeldBounded
<1>n. Cardinality(Held') \in Nat /\ Cardinality(Held') <= Cardinality(Clients)
    BY DEF HeldBounded
<1>s. Len(m_connPoolQ) + Cardinality(Held) <= MinSize + Cardinality(Clients)
    BY DEF SizeBound, Size
<1>p. (Len(m_connPoolQ') + Cardinality(Held') <= MinSize + Cardinality(Clients)) => SizeBound'
    BY DEF SizeBound, Size
<1>a. ASSUME conn' = conn, Len(m_connPoolQ') \in Nat, Len(m_connPoolQ') <= Len(m_connPoolQ)
      PROVE  SizeBound'
    <2>1. Held' = Held
        BY <1>a DEF Held
    <2>2. QED
        BY <1>q, <1>h, <1>s, <1>p, <1>a, <2>1
<1>1. ASSUME NEW c \in Clients, ClientWait(c) \/ ClientTimeout(c)
      PROVE  SizeBound'
    BY <1>1, <1>a, <1>q DEF ClientWait, ClientTimeout
<1>2. ASSUME NEW c \in Clients, ClientTake(c)
      PROVE  SizeBound'
    <2>1. /\ conn' = [conn EXCEPT ![c] = Head(m_connPoolQ)]
          /\ Len(m_connPoolQ') = Len(m_connPoolQ) - 1
        BY <1>2, <1>q DEF ClientTake
    <2>2. Held' \in SUBSET (Held \cup {Head(m_connPoolQ)})
        BY <1>q, <2>1 DEF Held
    <2>3. /\ IsFiniteSet(Held \cup {Head(m_connPoolQ)})
          /\ Cardinality(Held \cup {Head(m_connPoolQ)}) <= Cardinality(Held) + 1
        <3>1. /\ IsFiniteSet(Held \cup {Head(m_connPoolQ)})
              /\ \/ Cardinality(Held \cup {Head(m_connPoolQ)}) = Cardinality(Held)
                 \/ Cardinality(Held \cup {Head(m_connPoolQ)}) = Cardinality(Held) + 1
            BY <1>h, FS_AddElement, Zenon
        <3>2. QED
            BY <1>h, <3>1
    <2>4. Cardinality(Held \cup {Head(m_connPoolQ)}) \in Nat
        BY <2>3, FS_CardinalityType
    <2>5. Cardinality(Held') <= Cardinality(Held \cup {Head(m_connPoolQ)})
        BY <2>2, <2>3, FS_Subset
    <2>6. QED
        BY <1>q, <1>h, <1>n, <1>s, <1>p, <2>1, <2>3, <2>4, <2>5
<1>3. ASSUME NEW c \in Clients, ClientRelease(c)
      PROVE  SizeBound'
    <2>1. /\ conn' = [conn EXCEPT ![c] = NoConn]
          /\ conn[c] \in Conns
          /\ Len(m_connPoolQ') = Len(m_connPoolQ) + 1
        BY <1>3, <1>q DEF ClientRelease, TypeInv, UsingHolds
    <2>2. conn[c] \in Held
        BY <2>1, ConnAssumption DEF Held
    <2>3. \A d \in Clients \ {c} : conn[d] # conn[c]
        BY <2>1, ConnAssumption DEF OwnedOnce, HeldOnce
    <2>4. Held' \in SUBSET (Held \ {conn[c]})
        BY <1>q, <2>1, <2>3 DEF Held
    <2>5. IsFiniteSet(Held \ {conn[c]}) /\ Cardinality(Held \ {conn[c]}) = Cardinality(Held) - 1
        BY <1>h, <2>2, FS_RemoveElement
    <2>6. Cardinality(Held') <= Cardinality(Held \ {conn[c]})
        BY <2>4, <2>5, FS_Subset
    <2>7. QED
        BY <1>q, <1>h, <1>n, <1>s, <1>p, <2>1, <2>5, <2>6
<1>4. CASE ProducerWait \/ ProducerSpurious \/ Tick \/ UNCHANGED vars
    BY <1>4, <1>a, <1>q DEF ProducerWait, ProducerSpurious, Tick, vars
<1>5. CASE ProducerCreate
    <2>1. Len(m_connPoolQ') = Len(m_connPoolQ) + 1 /\ Len(m_connPoolQ) < MinSize
        BY <1>5, <1>q DEF ProducerCreate, Size
    <2>2. QED
        BY <1>q, <1>h, <1>n, <1>p, <2>1
<1>6. CASE Recycle
    <2>1. PICK n \in 0 .. Len(m_connPoolQ) : m_connPoolQ' = SubSeq(m_connPoolQ, n + 1, Len(m_connPoolQ))
        BY <1>6 DEF Recycle, Size
    <2>2. conn' = conn /\ Len(m_connPoolQ') = Len(m_connPoolQ) - n
        BY <1>6, <1>q, <2>1, Suffix DEF Recycle
    <2>3. QED
        BY <1>a, <1>q, <2>1, <2>2
<1>7. CASE Destroy
    BY <1>7, <1>a, <1>q DEF Destroy
<1>8. QED
    BY <1>1, <1>2, <1>3, <1>4, <1>5, <1>6, <1>7 DEF Next, ClientStep

\* There are never more connections than the minimum and one for each client: the
\* producer counts only those that are idle, and all the others come back.
THEOREM SizeBoundHolds == Spec => []SizeBound
<1>1. QED
    BY SizeInit, SizeStep, HeldCount, OwnedOnceInit, OwnedOnceStep, TypeInvariant, PTL DEF Spec

-----------------------------------------------------------------------------
(***************************************************************************)
(* The redis connection, for any keys and strings.                         *)
(***************************************************************************)
\* A command leaves every other key alone, and its own with a string.
LEMMA RedisStored ==
    ASSUME Redis!TypeOK, NEW command, NEW key \in Keys, NEW value \in Redis!Strings
    PROVE  /\ Redis!Stored(command, key, value) \in [Keys -> Redis!Strings]
           /\ \A k \in Keys \ {key} : Redis!Stored(command, key, value)[k] = store[k]
           /\ Redis!Stored("GET", key, value) = store
           /\ Redis!Stored("SET", key, value)[key] = value
BY DEF Redis!TypeOK, Redis!Stored

\* What execute does to the database, whatever it returns.
LEMMA RedisExecute ==
    ASSUME Redis!TypeOK, NEW type, NEW key \in Keys, NEW value \in Redis!Strings, NEW res,
           Redis!Execute(type, key, value, res)
    PROVE  /\ r_redis' \in {"live", "freed"} /\ failed' \in BOOLEAN
           /\ store' \in {store, Redis!Stored(Redis!Sent(type, value), key, value)}
           /\ store' \in [Keys -> Redis!Strings]
           /\ \A k \in Keys \ {key} : store'[k] = store[k]
<1>1. store' \in {store, Redis!Stored(Redis!Sent(type, value), key, value)}
    BY DEF Redis!Execute, Redis!Answer, Redis!Refuse, Redis!NoReply
<1>2. r_redis' \in {"live", "freed"} /\ failed' \in BOOLEAN
    BY DEF Redis!Execute, Redis!Answer, Redis!Refuse, Redis!NoReply, Redis!TypeOK
<1>3. DEFINE new == Redis!Stored(Redis!Sent(type, value), key, value)
<1>4. new \in [Keys -> Redis!Strings] /\ \A k \in Keys \ {key} : new[k] = store[k]
    BY RedisStored
<1>5. store \in [Keys -> Redis!Strings]
    BY DEF Redis!TypeOK
<1>6. QED
    BY <1>1, <1>2, <1>4, <1>5

\* The knowledge about a key is replaced by values that hold its string.
LEMMA RedisLearned ==
    ASSUME Redis!TypeOK, Redis!BelievedIsStored,
           NEW key \in Keys, NEW values \in SUBSET Redis!Strings,
           Redis!Learn(key, values), store'[key] \in values,
           \A k \in Keys \ {key} : store'[k] = store[k]
    PROVE  believed' \in [Keys -> SUBSET Redis!Strings] /\ Redis!BelievedIsStored'
BY DEF Redis!TypeOK, Redis!Learn, Redis!BelievedIsStored

\* A GET shows the string that is stored; a SET that has a result has stored the
\* value; every other command leaves all strings possible.
LEMMA RedisStep ==
    Redis!TypeOK /\ Redis!BelievedIsStored /\ [Redis!Next]_(Redis!vars)
    => Redis!TypeOK' /\ Redis!BelievedIsStored'
<1> SUFFICES ASSUME Redis!TypeOK, Redis!BelievedIsStored, [Redis!Next]_(Redis!vars)
             PROVE  Redis!TypeOK' /\ Redis!BelievedIsStored'
    OBVIOUS
<1>1. CASE Redis!Connect \/ Redis!CommandOnNothing \/ UNCHANGED Redis!vars
    BY <1>1 DEF Redis!Connect, Redis!CommandOnNothing, Redis!vars, Redis!TypeOK, Redis!BelievedIsStored
<1>2. ASSUME NEW k \in Keys, Redis!Get(k)
      PROVE  Redis!TypeOK' /\ Redis!BelievedIsStored'
    <2>1. PICK res \in Redis!Strings :
             /\ Redis!Execute("GET", k, Empty, res)
             /\ Redis!Learn(k, IF res # Empty THEN {res} ELSE believed[k])
        BY <1>2 DEF Redis!Get
    <2>2. Empty \in Redis!Strings /\ Redis!Sent("GET", Empty) = "GET"
        BY DEF Redis!Strings, Redis!Sent
    <2>3. store' = store
        <3>1. store' \in {store, Redis!Stored(Redis!Sent("GET", Empty), k, Empty)}
            BY <2>1, <2>2, RedisExecute
        <3>2. Redis!Stored(Redis!Sent("GET", Empty), k, Empty) = store
            BY <2>2, RedisStored
        <3>3. QED
            BY <3>1, <3>2
    <2>4. res # Empty => res = store[k]
        BY <2>1, <2>2 DEF Redis!Execute, Redis!Reply
    <2>5. DEFINE values == IF res # Empty THEN {res} ELSE believed[k]
    <2>6. values \in SUBSET Redis!Strings /\ store'[k] \in values
        BY <2>3, <2>4 DEF Redis!TypeOK, Redis!BelievedIsStored
    <2>7. QED
        BY <2>1, <2>2, <2>3, <2>6, RedisExecute, RedisLearned DEF Redis!TypeOK
<1>3. ASSUME NEW k \in Keys, Redis!Del(k)
      PROVE  Redis!TypeOK' /\ Redis!BelievedIsStored'
    <2>1. Redis!Execute("DEL", k, Empty, Empty) /\ Redis!Learn(k, Redis!Strings) /\ Empty \in Redis!Strings
        BY <1>3 DEF Redis!Del, Redis!Strings
    <2>2. QED
        BY <2>1, RedisExecute, RedisLearned DEF Redis!TypeOK
<1>4. ASSUME NEW k \in Keys, NEW v \in Redis!Strings, Redis!Set(k, v)
      PROVE  Redis!TypeOK' /\ Redis!BelievedIsStored'
    <2>1. PICK res \in {OK, Empty} :
             /\ Redis!Execute("SET", k, v, res)
             /\ Redis!Learn(k, IF res # Empty THEN {v} ELSE Redis!Strings)
        BY <1>4 DEF Redis!Set
    <2>2. ASSUME res # Empty
          PROVE  store'[k] = v
        <3>1. res = Redis!Reply(Redis!Sent("SET", v), k) /\ Redis!Answer(Redis!Sent("SET", v), k, v)
            BY <2>1, <2>2 DEF Redis!Execute
        <3>2. Redis!Sent("SET", v) = "SET"
            BY <2>2, <3>1 DEF Redis!Sent, Redis!Reply
        <3>3. QED
            BY <3>1, <3>2, RedisStored DEF Redis!Answer
    <2>3. QED
        BY <2>1, <2>2, RedisExecute, RedisLearned DEF Redis!TypeOK
<1>5. ASSUME NEW k \in Keys, NEW v \in Redis!Strings, Redis!Update(k, v)
      PROVE  Redis!TypeOK' /\ Redis!BelievedIsStored'
    <2>1. /\ r_redis' \in {"live", "freed"} /\ failed' \in BOOLEAN
          /\ store' \in {store, Redis!Stored("SET", k, v)}
          /\ Redis!Learn(k, Redis!Strings)
        BY <1>5 DEF Redis!Update, Redis!Answer, Redis!Refuse, Redis!NoReply, Redis!TypeOK
    <2>2. store' \in [Keys -> Redis!Strings] /\ \A j \in Keys \ {k} : store'[j] = store[j]
        BY <2>1, RedisStored DEF Redis!TypeOK
    <2>3. QED
        BY <2>1, <2>2, RedisLearned DEF Redis!TypeOK
<1>6. QED
    BY <1>1, <1>2, <1>3, <1>4, <1>5 DEF Redis!Next

LEMMA RedisStart == Redis!Init => Redis!TypeOK /\ Redis!BelievedIsStored
BY DEF Redis!Init, Redis!TypeOK, Redis!BelievedIsStored, Redis!Strings

-----------------------------------------------------------------------------
(***************************************************************************)
(* The programs side by side.                                              *)
(***************************************************************************)
MysqlProofs == INSTANCE MysqlConnProofs WITH Clients <- Borrowers, Conns <- Handles

\* What the programs do to the pool is what ConnPool allows.
LEMMA PoolProgram == DbSpec => Spec
<1>1. DbInit => Init
    BY DEF DbInit
<1>2. [DbNext]_dbVars => [Next]_vars
    BY DEF DbNext, InPool, dbVars
<1>3. QED
    BY <1>1, <1>2, PTL DEF DbSpec, Spec

\* What the programs do to the MySQL connections is what MysqlConn allows.
LEMMA MysqlProgram == DbSpec => MysqlProofs!Spec
<1>1. Mysql!Init => MysqlProofs!Init
    BY DEF Mysql!Init, MysqlProofs!Init, Mysql!NoResult, MysqlProofs!NoResult
<1>2. Mysql!Next => MysqlProofs!Next
    BY DEF Mysql!Next, MysqlProofs!Next,
           Mysql!Create, MysqlProofs!Create,
           Mysql!Delete, MysqlProofs!Delete,
           Mysql!Disconnect, MysqlProofs!Disconnect,
           Mysql!Take, MysqlProofs!Take,
           Mysql!GiveBack, MysqlProofs!GiveBack,
           Mysql!Query, MysqlProofs!Query,
           Mysql!NextRow, MysqlProofs!NextRow,
           Mysql!Transaction, MysqlProofs!Transaction,
           Mysql!Commit, MysqlProofs!Commit,
           Mysql!Rollback, MysqlProofs!Rollback,
           Mysql!Update, MysqlProofs!Update,
           Mysql!Freespace, MysqlProofs!Freespace,
           Mysql!Execute, MysqlProofs!Execute,
           Mysql!RowAfterFree, MysqlProofs!RowAfterFree,
           Mysql!NoResult, MysqlProofs!NoResult,
           Mysql!objectVars, MysqlProofs!objectVars,
           Mysql!serverVars, MysqlProofs!serverVars
<1>3. DbInit => MysqlProofs!Init
    BY <1>1 DEF DbInit
<1>4. [DbNext]_dbVars => [MysqlProofs!Next]_(MysqlProofs!vars)
    BY <1>2 DEF DbNext, InPool, dbVars, mysqlVars, MysqlProofs!vars,
                MysqlProofs!objectVars, MysqlProofs!serverVars
<1>5. QED
    BY <1>3, <1>4, PTL DEF DbSpec, MysqlProofs!Spec

\* What the programs do to the redis connection keeps its type, and what is
\* believed of it true.
LEMMA RedisProgram == DbSpec => [](Redis!TypeOK /\ Redis!BelievedIsStored)
<1>1. DbInit => Redis!TypeOK /\ Redis!BelievedIsStored
    BY RedisStart DEF DbInit
<1>2. [DbNext]_dbVars => [Redis!Next]_(Redis!vars)
    BY DEF DbNext, InPool, dbVars, redisVars, Redis!vars
<1>3. QED
    BY <1>1, <1>2, RedisStep, PTL DEF DbSpec

\* In every program no connection is handed out twice or recycled under a client,
\* and the producer does not sleep through a shortage.
THEOREM PoolHolds == DbSpec => [](ExclusiveConns /\ OldestFirst /\ ProducerAwake)
BY PoolProgram, ExclusiveConnsHolds, OldestFirstHolds, ProducerAwakeHolds, PTL

\* Who holds a MySQL connection reads no row of another client once it has
\* called query (mysqlConn.cpp, query and next).
THEOREM RowsAreOwnHolds == DbSpec => []RowsAreOwn
<1>1. MysqlProofs!RowsAreOwn => RowsAreOwn
    BY DEF MysqlProofs!RowsAreOwn, RowsAreOwn, Mysql!RowsAreOwn, Mysql!NoResult, MysqlProofs!NoResult
<1>2. QED
    BY <1>1, MysqlProgram, MysqlProofs!RowsAreOwnHolds, PTL

\* An update that returned true is not lost on a connection where nobody has
\* called transaction (mysqlConn.cpp, update).
THEOREM DurableHolds == DbSpec => []DurableUnlessTransaction
<1>1. MysqlProofs!DurableUnlessTransaction => DurableUnlessTransaction
    BY DEF MysqlProofs!DurableUnlessTransaction, DurableUnlessTransaction, Mysql!DurableUnlessTransaction
<1>2. QED
    BY <1>1, MysqlProgram, MysqlProofs!DurableHolds, PTL

\* Every variable of the redis connection keeps its type.
THEOREM RedisTypeCorrect == DbSpec => []Redis!TypeOK
BY RedisProgram, PTL

\* The results of set and get on the redis connection can be believed, for any
\* commands in any order and whichever of them the server refuses or leaves without
\* an answer (redisConn.cpp, set and get).
THEOREM BelievedIsStoredHolds == DbSpec => []BelievedIsStored
<1>1. Redis!BelievedIsStored => BelievedIsStored
    BY DEF BelievedIsStored
<1>2. QED
    BY <1>1, RedisProgram, PTL
=============================================================================
