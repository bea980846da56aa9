------------------------- MODULE LogicSystemProofs -------------------------
(***************************************************************************)
(* Proofs about LogicSystem, for any messages and any number of io threads.*)
(***************************************************************************)
EXTENDS LogicSystem, TLAPS

\* What the worker knows while it owns lmutex: nobody else can change the queue.
WorkerKnows ==
    /\ lmutex <=> wpc \in {"test", "sleep", "bstop?", "front", "undefined"}
    /\ wpc = "sleep" => msgQue = <<>>
    /\ wpc \in {"bstop?", "front"} /\ ~bstop => msgQue # <<>>

Inv == TypeOK /\ WorkerKnows /\ WakeUpPending

LEMMA DrainedQueue ==
    ASSUME NEW S, NEW q \in Seq(S), NEW n \in 0 .. Len(q)
    PROVE  SubSeq(q, n + 1, Len(q)) \in Seq(S)
OBVIOUS

LEMMA InvInit == Init => Inv
<1> SUFFICES ASSUME Init
             PROVE  Inv
    OBVIOUS
<1>1. msgQue \in Seq(Msgs) /\ handled \in Seq(Known) /\ posted \in Seq(Msgs)
    BY DEF Init
<1>2. ppc \in [Posters -> {"idle", "notify"}]
    BY DEF Init
<1>3. TypeOK
    BY <1>1, <1>2 DEF Init, TypeOK, WorkerPCs
<1>4. WorkerKnows /\ WakeUpPending
    BY DEF Init, WorkerKnows, WakeUpPending
<1>5. QED
    BY <1>3, <1>4 DEF Inv

LEMMA InvStep == Inv /\ [Next]_vars => Inv'
<1> SUFFICES ASSUME Inv, [Next]_vars
             PROVE  Inv'
    OBVIOUS
<1> USE KnownAssumption DEF Inv, TypeOK, WorkerKnows, WakeUpPending, WorkerPCs
<1>1. ASSUME NEW p \in Posters, PostNotify(p)
      PROVE  Inv'
    BY <1>1 DEF PostNotify, NotifyOne
<1>2. ASSUME NEW p \in Posters, NEW m \in Msgs, Post(p, m)
      PROVE  Inv'
    <2>0. msgQue' = Append(msgQue, m) /\ posted' = Append(posted, m)
        BY <1>2 DEF Post
    <2>1. msgQue' \in Seq(Msgs) /\ msgQue' # <<>> /\ posted' \in Seq(Msgs)
        <3>1. msgQue \in Seq(Msgs) /\ posted \in Seq(Msgs)
            OBVIOUS
        <3>2. QED
            BY ONLY <1>2, <2>0, <3>1
    <2>2. (msgQue = <<>>) <=> NotifyNeeded
        BY DEF NotifyNeeded
    <2>3. /\ ppc[p] = "idle" /\ ppc' \in [Posters -> {"idle", "notify"}]
          /\ \A q \in Posters \ {p} : ppc'[q] = ppc[q]
          /\ ppc'[p] = "notify" <=> NotifyNeeded
        BY <1>2 DEF Post
    <2>4. UNCHANGED <<lmutex, bstop, wpc, dpc, handled>> /\ ~lmutex
        BY <1>2 DEF Post
    <2>5. QED
        BY <2>1, <2>2, <2>3, <2>4
<1>3. CASE WorkerLock
    BY <1>3 DEF WorkerLock
<1>4. CASE WorkerTest
    BY <1>4 DEF WorkerTest
<1>5. CASE WorkerSleep
    BY <1>5 DEF WorkerSleep
<1>6. CASE WorkerDrain
    <2>1. CASE bstop
        <3>1. PICK n \in 0 .. Len(msgQue) : msgQue' = SubSeq(msgQue, n + 1, Len(msgQue))
            BY <1>6, <2>1 DEF WorkerDrain
        <3>2. msgQue' \in Seq(Msgs)
            BY <3>1, DrainedQueue
        <3>3. QED
            BY <1>6, <2>1, <3>2 DEF WorkerDrain
    <2>2. CASE ~bstop
        BY <1>6, <2>2 DEF WorkerDrain
    <2>3. QED
        BY <2>1, <2>2
<1>7. CASE WorkerFront
    <2>1. msgQue' \in Seq(Msgs) /\ Head(msgQue) \in Msgs
        BY <1>7 DEF WorkerFront
    <2>2. handled' \in Seq(Known)
        BY <1>7 DEF WorkerFront
    <2>3. wpc' = "lock" /\ lmutex' = FALSE /\ UNCHANGED <<bstop, ppc, dpc, posted>>
        BY <1>7 DEF WorkerFront
    <2>4. QED
        BY <2>1, <2>2, <2>3
<1>8. CASE WorkerFrontOfEmpty
    BY <1>8 DEF WorkerFrontOfEmpty
<1>9. CASE WorkerSpurious
    BY <1>9 DEF WorkerSpurious
<1>10. CASE DestructorStop
    BY <1>10 DEF DestructorStop
<1>11. CASE DestructorNotify
    BY <1>11 DEF DestructorNotify, NotifyOne
<1>12. CASE UNCHANGED vars
    BY <1>12 DEF vars
<1>13. QED
    BY <1>1, <1>2, <1>3, <1>4, <1>5, <1>6, <1>7, <1>8, <1>9, <1>10, <1>11, <1>12
    DEF Next, WorkerStep, Undefined

LEMMA Invariant == Spec => []Inv
BY InvInit, InvStep, PTL DEF Spec

\* Every variable keeps its type; in particular only messages that have a
\* callback are ever handled.
THEOREM TypeCorrect == Spec => []TypeOK
<1>1. Inv => TypeOK
    BY DEF Inv
<1>2. QED
    BY <1>1, Invariant, PTL

\* No wake-up is lost, although a poster notifies only for the first message of
\* an empty queue and without holding lmutex.
THEOREM WakeUpPendingHolds == Spec => []WakeUpPending
<1>1. Inv => WakeUpPending
    BY DEF Inv
<1>2. QED
    BY <1>1, Invariant, PTL

\* Until the destructor sets bstop, front() is called on a non-empty queue only.
THEOREM FrontExistsHolds == Spec => []FrontExists
<1>1. Inv => FrontExists
    BY DEF Inv, WorkerKnows, FrontExists
<1>2. QED
    BY <1>1, Invariant, PTL
-----------------------------------------------------------------------------
(***************************************************************************)
(* The order of the messages.  No message is posted twice, so its place in *)
(* posted is its name.  First what the operations do to three sequences:   *)
(* the posted messages p, the queue q and the handled ones h, when t       *)
(* messages have left the queue.                                           *)
(***************************************************************************)
Behind(p, q, t) ==
    /\ t \in Nat /\ Len(q) \in Nat /\ Len(p) = t + Len(q)
    /\ \A i \in 1 .. Len(q) : q[i] = p[t + i]

Served(p, h, t) ==
    /\ \A i \in 1 .. t : p[i] \in Known => \E k \in 1 .. Len(h) : h[k] = p[i]
    /\ \A k \in 1 .. Len(h) : h[k] \in Known /\ \E i \in 1 .. t : h[k] = p[i]
    /\ \A k, l \in 1 .. Len(h), i, j \in 1 .. t :
          k < l /\ h[k] = p[i] /\ h[l] = p[j] => i < j

Once(p) == \A i, j \in 1 .. Len(p) : p[i] = p[j] => i = j

LEMMA Appended ==
    ASSUME NEW S, NEW q \in Seq(S), NEW e \in S
    PROVE  /\ Append(q, e) \in Seq(S)
           /\ Len(q) \in Nat /\ Len(Append(q, e)) = Len(q) + 1
           /\ \A i \in 1 .. Len(q) : Append(q, e)[i] = q[i]
           /\ Append(q, e)[Len(q) + 1] = e
OBVIOUS

LEMMA PostedBehind ==
    ASSUME NEW p \in Seq(Msgs), NEW q \in Seq(Msgs), NEW t, Behind(p, q, t), NEW m \in Msgs
    PROVE  Behind(Append(p, m), Append(q, m), t)
<1>1. t \in Nat /\ Len(q) \in Nat /\ Len(p) = t + Len(q) /\ \A i \in 1 .. Len(q) : q[i] = p[t + i]
    BY DEF Behind
<1>2. PICK p1, q1 : p1 = Append(p, m) /\ q1 = Append(q, m)
    OBVIOUS
<1>3. Len(p1) = Len(p) + 1 /\ (\A i \in 1 .. Len(p) : p1[i] = p[i]) /\ p1[Len(p) + 1] = m
    BY <1>2, Appended
<1>4. Len(q1) = Len(q) + 1 /\ (\A i \in 1 .. Len(q) : q1[i] = q[i]) /\ q1[Len(q) + 1] = m
    BY <1>2, Appended
<1>5. ASSUME NEW i \in 1 .. Len(q) + 1
      PROVE  q1[i] = p1[t + i]
    <2>1. CASE i \in 1 .. Len(q)
        BY <1>1, <1>3, <1>4, <2>1
    <2>2. CASE i \notin 1 .. Len(q)
        <3>1. i = Len(q) + 1
            BY <1>1, <2>2
        <3>2. t + i = Len(p) + 1
            BY <1>1, <3>1
        <3>3. QED
            BY <1>3, <1>4, <3>1, <3>2
    <2>3. QED
        BY <2>1, <2>2
<1>6. Behind(p1, q1, t)
    BY <1>1, <1>3, <1>4, <1>5 DEF Behind
<1>7. QED
    BY <1>2, <1>6

LEMMA PostedServed ==
    ASSUME NEW p \in Seq(Msgs), NEW h \in Seq(Known), NEW t \in 0 .. Len(p), Served(p, h, t), NEW m \in Msgs
    PROVE  Served(Append(p, m), h, t)
<1>1. PICK p1 : p1 = Append(p, m)
    OBVIOUS
<1>2. \A i \in 1 .. t : p1[i] = p[i]
    BY <1>1, Appended
<1>3. Served(p1, h, t)
    BY <1>2 DEF Served
<1>4. QED
    BY <1>1, <1>3

LEMMA PostedOnce ==
    ASSUME NEW p \in Seq(Msgs), Once(p), NEW m \in Msgs, \A i \in 1 .. Len(p) : p[i] # m
    PROVE  Once(Append(p, m))
<1>1. PICK p1 : p1 = Append(p, m)
    OBVIOUS
<1>2. /\ Len(p) \in Nat /\ Len(p1) = Len(p) + 1
      /\ (\A i \in 1 .. Len(p) : p1[i] = p[i]) /\ p1[Len(p) + 1] = m
    BY <1>1, Appended
<1>3. \A i \in 1 .. Len(p1) : i \in 1 .. Len(p) \/ i = Len(p) + 1
    BY <1>2
<1>4. Once(p1)
    BY <1>2, <1>3 DEF Once
<1>5. QED
    BY <1>1, <1>4

\* The first n messages leave the queue.
LEMMA LeftBehind ==
    ASSUME NEW p \in Seq(Msgs), NEW q \in Seq(Msgs), NEW t, Behind(p, q, t), NEW n \in 0 .. Len(q)
    PROVE  /\ Behind(p, SubSeq(q, n + 1, Len(q)), t + n)
           /\ t \in Nat /\ t + n <= Len(p)
           /\ \A i \in 1 .. n : p[t + i] = q[i]
<1>1. t \in Nat /\ Len(q) \in Nat /\ Len(p) = t + Len(q) /\ \A i \in 1 .. Len(q) : q[i] = p[t + i]
    BY DEF Behind
<1>2. n \in Nat /\ n <= Len(q)
    BY <1>1
<1>3. PICK q1 : q1 = SubSeq(q, n + 1, Len(q))
    OBVIOUS
<1>4. Len(q1) = Len(q) - n /\ \A i \in 1 .. Len(q) - n : q1[i] = q[n + i]
    BY <1>1, <1>2, <1>3
<1>5. ASSUME NEW i \in 1 .. Len(q) - n
      PROVE  q1[i] = p[(t + n) + i]
    <2>1. n + i \in 1 .. Len(q) /\ t + (n + i) = (t + n) + i
        BY <1>1, <1>2
    <2>2. QED
        BY <1>1, <1>4, <2>1
<1>6. Behind(p, q1, t + n)
    BY <1>1, <1>2, <1>4, <1>5 DEF Behind
<1>7. QED
    BY <1>1, <1>2, <1>3, <1>6

\* They have no callback.
LEMMA DroppedServed ==
    ASSUME NEW p, NEW h, NEW t \in Nat, NEW n \in Nat, Served(p, h, t),
           \A i \in 1 .. n : p[t + i] \notin Known
    PROVE  Served(p, h, t + n)
<1>1. ASSUME NEW i \in 1 .. t + n, p[i] \in Known
      PROVE  i \in 1 .. t
    <2> SUFFICES ASSUME i \notin 1 .. t
                 PROVE  FALSE
        OBVIOUS
    <2>1. i - t \in 1 .. n /\ t + (i - t) = i
        OBVIOUS
    <2>2. QED
        BY <1>1, <2>1
<1>2. 1 .. t \subseteq 1 .. t + n
    OBVIOUS
<1>3. QED
    BY <1>1, <1>2 DEF Served

\* The first one has a callback and is given to it.
LEMMA HandledServed ==
    ASSUME NEW p, NEW h \in Seq(Known), NEW t \in Nat, Served(p, h, t), Once(p), Len(p) \in Nat, t + 1 <= Len(p),
           NEW m \in Known, p[t + 1] = m
    PROVE  Served(p, Append(h, m), t + 1)
<1>1. PICK h1 : h1 = Append(h, m)
    OBVIOUS
<1> DEFINE c == Len(h)
<1>0. c \in Nat
    OBVIOUS
<1>2. Len(h1) = c + 1 /\ (\A k \in 1 .. c : h1[k] = h[k]) /\ h1[c + 1] = m
    BY <1>1, Appended
<1>3. \A i, j \in 1 .. t + 1 : p[i] = p[j] => i = j
    BY DEF Once
<1>4. /\ \A i \in 1 .. t : p[i] \in Known => \E k \in 1 .. c : h[k] = p[i]
      /\ \A k \in 1 .. c : h[k] \in Known /\ \E i \in 1 .. t : h[k] = p[i]
      /\ \A k, l \in 1 .. c, i, j \in 1 .. t : k < l /\ h[k] = p[i] /\ h[l] = p[j] => i < j
    BY DEF Served
<1> HIDE DEF c
<1>5. /\ \A i \in 1 .. t + 1 : i \in 1 .. t \/ i = t + 1
      /\ \A k \in 1 .. c + 1 : k \in 1 .. c \/ k = c + 1
      /\ c + 1 \in 1 .. c + 1 /\ 1 .. c \subseteq 1 .. c + 1
      /\ t + 1 \in 1 .. t + 1 /\ 1 .. t \subseteq 1 .. t + 1
    BY <1>0
<1>6. \A i \in 1 .. t + 1 : p[i] \in Known => \E k \in 1 .. c + 1 : h1[k] = p[i]
    BY <1>2, <1>4, <1>5
<1>7. \A k \in 1 .. c + 1 : h1[k] \in Known /\ \E i \in 1 .. t + 1 : h1[k] = p[i]
    BY <1>2, <1>4, <1>5
<1>8. ASSUME NEW k \in 1 .. c + 1, NEW l \in 1 .. c + 1, NEW i \in 1 .. t + 1, NEW j \in 1 .. t + 1,
             k < l, h1[k] = p[i], h1[l] = p[j]
      PROVE  i < j
    <2>1. k \in 1 .. c
        BY <1>0, <1>8
    <2>2. PICK x \in 1 .. t : h[k] = p[x]
        BY <1>4, <2>1
    <2>3. i = x
        BY <1>2, <1>3, <1>5, <1>8, <2>1, <2>2
    <2>4. CASE l = c + 1
        <3>1. j = t + 1
            BY <1>2, <1>3, <1>5, <1>8, <2>4
        <3>2. QED
            BY <2>2, <2>3, <3>1
    <2>5. CASE l \in 1 .. c
        <3>1. PICK y \in 1 .. t : h[l] = p[y]
            BY <1>4, <2>5
        <3>2. j = y
            BY <1>2, <1>3, <1>5, <1>8, <2>5, <3>1
        <3>3. QED
            BY <1>4, <1>8, <2>1, <2>2, <2>3, <2>5, <3>1, <3>2
    <2>6. QED
        BY <1>5, <2>4, <2>5
<1>9. Served(p, h1, t + 1)
    BY <1>2, <1>6, <1>7, <1>8 DEF Served
<1>10. QED
    BY <1>1, <1>9

OrderInv ==
    \E t \in Nat : Behind(posted, msgQue, t) /\ Served(posted, handled, t) /\ Once(posted)

LEMMA OrderInit == Init => OrderInv
<1> SUFFICES ASSUME Init
             PROVE  OrderInv
    OBVIOUS
<1>1. posted = <<>> /\ msgQue = <<>> /\ handled = <<>>
    BY DEF Init
<1>2. Behind(<<>>, <<>>, 0) /\ Served(<<>>, <<>>, 0) /\ Once(<<>>)
    BY DEF Behind, Served, Once
<1>3. QED
    BY <1>1, <1>2 DEF OrderInv

LEMMA OrderStep == Inv /\ OrderInv /\ [Next]_vars => OrderInv'
<1> SUFFICES ASSUME Inv, OrderInv, [Next]_vars
             PROVE  OrderInv'
    OBVIOUS
<1>1. posted \in Seq(Msgs) /\ msgQue \in Seq(Msgs) /\ handled \in Seq(Known)
    BY DEF Inv, TypeOK
<1>2. PICK t \in Nat : Behind(posted, msgQue, t) /\ Served(posted, handled, t) /\ Once(posted)
    BY DEF OrderInv
<1>3. ASSUME UNCHANGED <<msgQue, posted, handled>>
      PROVE  OrderInv'
    BY <1>2, <1>3 DEF OrderInv
<1>4. ASSUME NEW p \in Posters, NEW m \in Msgs, Post(p, m)
      PROVE  OrderInv'
    <2>1. /\ msgQue' = Append(msgQue, m) /\ posted' = Append(posted, m) /\ handled' = handled
          /\ \A i \in 1 .. Len(posted) : posted[i] # m
        BY <1>1, <1>4 DEF Post
    <2>2. t \in 0 .. Len(posted)
        BY <1>2 DEF Behind
    <2>3. Behind(posted', msgQue', t)
        BY <1>1, <1>2, <2>1, PostedBehind
    <2>4. Served(posted', handled', t)
        BY <1>1, <1>2, <2>1, <2>2, PostedServed
    <2>5. Once(posted')
        BY <1>1, <1>2, <2>1, PostedOnce
    <2>6. QED
        BY <2>3, <2>4, <2>5 DEF OrderInv
<1>5. ASSUME NEW n \in 0 .. Len(msgQue), \A i \in 1 .. n : msgQue[i] \notin Known,
             msgQue' = SubSeq(msgQue, n + 1, Len(msgQue)), UNCHANGED <<posted, handled>>
      PROVE  OrderInv'
    <2>1. /\ Behind(posted, msgQue', t + n)
          /\ \A i \in 1 .. n : posted[t + i] = msgQue[i]
        BY <1>1, <1>2, <1>5, LeftBehind
    <2>2. n \in Nat /\ t + n \in Nat
        BY <1>1
    <2>3. Served(posted, handled, t + n)
        BY <1>2, <1>5, <2>1, <2>2, DroppedServed
    <2>4. QED
        BY <1>2, <1>5, <2>1, <2>2, <2>3 DEF OrderInv
<1>6. ASSUME msgQue # <<>>, Head(msgQue) \in Known, handled' = Append(handled, Head(msgQue)),
             msgQue' = Tail(msgQue), posted' = posted
      PROVE  OrderInv'
    <2>1. /\ 1 \in 0 .. Len(msgQue) /\ Head(msgQue) = msgQue[1] /\ 1 \in 1 .. 1
          /\ Tail(msgQue) = SubSeq(msgQue, 1 + 1, Len(msgQue))
        BY <1>1, <1>6
    <2>2. /\ Behind(posted, msgQue', t + 1) /\ t + 1 <= Len(posted)
          /\ posted[t + 1] = Head(msgQue)
        <3>1. /\ Behind(posted, SubSeq(msgQue, 1 + 1, Len(msgQue)), t + 1) /\ t + 1 <= Len(posted)
              /\ \A i \in 1 .. 1 : posted[t + i] = msgQue[i]
            BY <1>1, <1>2, <2>1, LeftBehind
        <3>2. QED
            BY <1>6, <2>1, <3>1
    <2>3. Len(posted) \in Nat /\ t + 1 \in Nat
        BY <1>1
    <2>4. Served(posted, handled', t + 1)
        BY <1>1, <1>2, <1>6, <2>2, <2>3, HandledServed
    <2>5. QED
        BY <1>2, <1>6, <2>2, <2>3, <2>4 DEF OrderInv
<1>7. CASE WorkerDrain
    BY <1>3, <1>5, <1>7 DEF WorkerDrain
<1>8. CASE WorkerFront
    <2>1. CASE Head(msgQue) \in Known
        BY <1>6, <1>8, <2>1 DEF WorkerFront
    <2>2. CASE Head(msgQue) \notin Known
        <3>1. /\ 1 \in 0 .. Len(msgQue) /\ Head(msgQue) = msgQue[1]
              /\ Tail(msgQue) = SubSeq(msgQue, 1 + 1, Len(msgQue))
            BY <1>1, <1>8 DEF WorkerFront
        <3>2. \A i \in 1 .. 1 : msgQue[i] \notin Known
            BY <2>2, <3>1
        <3>3. QED
            BY <1>5, <1>8, <2>2, <3>1, <3>2 DEF WorkerFront
    <2>3. QED
        BY <2>1, <2>2
<1>9. QED
    BY <1>3, <1>4, <1>7, <1>8
    DEF Next, PostNotify, WorkerStep, WorkerLock, WorkerTest, WorkerSleep, WorkerFrontOfEmpty, WorkerSpurious,
        DestructorStop, DestructorNotify, Undefined, vars

LEMMA OrderShown ==
    ASSUME Inv, OrderInv
    PROVE  InOrder
<1>1. DOMAIN msgQue = 1 .. Len(msgQue) /\ DOMAIN handled = 1 .. Len(handled)
    BY DEF Inv, TypeOK
<1>2. PICK t \in Nat : Behind(posted, msgQue, t) /\ Served(posted, handled, t)
    BY DEF OrderInv
<1>3. Taken = t
    BY <1>2 DEF Taken, Behind
<1>4. QED
    BY <1>1, <1>2, <1>3 DEF InOrder, Behind, Served

\* Every message with a callback reaches it once and in the order of arrival, whether
\* the worker serves it or drains the queue after bstop; the others are dropped.
THEOREM InOrderHolds == Spec => []InOrder
<1>1. Inv /\ OrderInv /\ [Next]_vars => OrderInv'
    BY OrderStep
<1>2. Inv /\ OrderInv => InOrder
    BY OrderShown
<1>3. QED
    BY <1>1, <1>2, OrderInit, Invariant, PTL DEF Spec
=============================================================================
