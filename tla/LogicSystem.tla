---------------------------- MODULE LogicSystem ----------------------------
(***************************************************************************)
(* The logicSystem singleton of src/src/boost (LogicServer, IoServicePool  *)
(* and IoThreadPool share it word for word): io threads post messages, one *)
(* worker thread runs the callback that is registered for their id, and    *)
(* the static destructor stops the worker when the process exits.          *)
(*                                                                         *)
(* The worker keeps lmutex from its test of the queue to the pop, callback *)
(* included.  The destructor sets bstop without it.                        *)
(***************************************************************************)
EXTENDS Naturals, Sequences

CONSTANTS
    Msgs,    \* the messages that are ever posted (bounds the model)
    Known,   \* those whose id has a callback, MSG_HELLO_WORD
    Posters  \* io threads that run handleMsgRead

ASSUME KnownAssumption == Known \subseteq Msgs

VARIABLES
    lmutex,   \* TRUE while the worker owns it; a post owns it within one step
    msgQue,
    bstop,
    wpc,      \* where the worker is
    ppc,      \* where each poster is
    dpc,      \* where the destructor is; "up" before it starts
    posted,   \* history: the messages in the order in which they were posted
    handled   \* history: those given to their callback, in order

vars == <<lmutex, msgQue, bstop, wpc, ppc, dpc, posted, handled>>

Init ==
    /\ lmutex = FALSE
    /\ msgQue = <<>>
    /\ bstop = FALSE
    /\ wpc = "lock"
    /\ ppc = [p \in Posters |-> "idle"]
    /\ dpc = "up"
    /\ posted = <<>>
    /\ handled = <<>>

\* consume.notify_one(): the worker is the only thread that ever waits.
NotifyOne == wpc' = IF wpc = "waiting" THEN "woken" ELSE wpc
-----------------------------------------------------------------------------
(***************************************************************************)
(* postMsgToQue.                                                           *)
(***************************************************************************)

\* Faulty: looks at the queue before the push.
NotifyNeeded_SizeBefore == Len(msgQue) = 1

\* The test after the push, msgQue.size() == 1.
NotifyNeeded == Len(msgQue) = 0

\* Pushes under lmutex.  Io threads no longer run when static objects are
\* destroyed: main has joined them or was the only one.
Post(p, m) ==
    /\ dpc = "up"
    /\ ppc[p] = "idle"
    /\ ~lmutex
    /\ \A i \in DOMAIN posted : posted[i] # m
    /\ msgQue' = Append(msgQue, m)
    /\ posted' = Append(posted, m)
    /\ ppc' = [ppc EXCEPT ![p] = IF NotifyNeeded THEN "notify" ELSE "idle"]
    /\ UNCHANGED <<lmutex, bstop, wpc, dpc, handled>>

\* The notification, after lmutex was released.
PostNotify(p) ==
    /\ ppc[p] = "notify"
    /\ NotifyOne
    /\ ppc' = [ppc EXCEPT ![p] = "idle"]
    /\ UNCHANGED <<lmutex, msgQue, bstop, dpc, posted, handled>>
-----------------------------------------------------------------------------
(***************************************************************************)
(* dealMsg.                                                                *)
(***************************************************************************)

\* Faulty: "if" in place of the while, a spurious wake-up passes for a message.
WorkerLock_NoRetest ==
    /\ wpc \in {"lock", "woken"}
    /\ ~lmutex
    /\ lmutex' = TRUE
    /\ wpc' = IF wpc = "woken" THEN "bstop?" ELSE "test"
    /\ UNCHANGED <<msgQue, bstop, ppc, dpc, posted, handled>>

\* Takes lmutex at the top of the loop and when wait returns.
WorkerLock ==
    /\ wpc \in {"lock", "woken"}
    /\ ~lmutex
    /\ lmutex' = TRUE
    /\ wpc' = "test"
    /\ UNCHANGED <<msgQue, bstop, ppc, dpc, posted, handled>>

\* The test of the while.
WorkerTest ==
    /\ wpc = "test"
    /\ wpc' = IF msgQue = <<>> /\ ~bstop THEN "sleep" ELSE "bstop?"
    /\ UNCHANGED <<lmutex, msgQue, bstop, ppc, dpc, posted, handled>>

WorkerSleep ==
    /\ wpc = "sleep"
    /\ lmutex' = FALSE
    /\ wpc' = "waiting"
    /\ UNCHANGED <<msgQue, bstop, ppc, dpc, posted, handled>>

WorkerSpurious ==
    /\ wpc = "waiting"
    /\ wpc' = "woken"
    /\ UNCHANGED <<lmutex, msgQue, bstop, ppc, dpc, posted, handled>>

\* Faulty: drops every message.
WorkerDrain_Any ==
    /\ wpc = "bstop?"
    /\ msgQue' = IF bstop THEN <<>> ELSE msgQue
    /\ wpc' = "front"
    /\ UNCHANGED <<lmutex, bstop, ppc, dpc, posted, handled>>

\* "if (bstop)": drops messages without a callback up to the first one that has
\* one, or all of them.
WorkerDrain ==
    /\ wpc = "bstop?"
    /\ IF bstop
       THEN \E n \in 0 .. Len(msgQue) :
               /\ \A i \in 1 .. n : msgQue[i] \notin Known
               /\ n < Len(msgQue) => msgQue[n + 1] \in Known
               /\ msgQue' = SubSeq(msgQue, n + 1, Len(msgQue))
       ELSE UNCHANGED msgQue
    /\ wpc' = "front"
    /\ UNCHANGED <<lmutex, bstop, ppc, dpc, posted, handled>>

\* Takes the message at the front, runs its callback if it has one, pops it and
\* releases lmutex at the end of the loop body.
WorkerFront ==
    /\ wpc = "front"
    /\ msgQue # <<>>
    /\ handled' = IF Head(msgQue) \in Known THEN Append(handled, Head(msgQue)) ELSE handled
    /\ msgQue' = Tail(msgQue)
    /\ lmutex' = FALSE
    /\ wpc' = "lock"
    /\ UNCHANGED <<bstop, ppc, dpc, posted>>

\* front() of an empty queue has no defined result: nothing is said of the
\* program from here on.
WorkerFrontOfEmpty ==
    /\ wpc = "front"
    /\ msgQue = <<>>
    /\ wpc' = "undefined"
    /\ UNCHANGED <<lmutex, msgQue, bstop, ppc, dpc, posted, handled>>

WorkerStep ==
    \/ WorkerLock \/ WorkerTest \/ WorkerSleep \/ WorkerDrain
    \/ WorkerFront \/ WorkerFrontOfEmpty
-----------------------------------------------------------------------------
(***************************************************************************)
(* The destructor, run for the static instance after main has returned.    *)
(***************************************************************************)
DestructorStop ==
    /\ dpc = "up"
    /\ \A p \in Posters : ppc[p] = "idle"
    /\ bstop' = TRUE
    /\ dpc' = "notify"
    /\ UNCHANGED <<lmutex, msgQue, wpc, ppc, posted, handled>>

DestructorNotify ==
    /\ dpc = "notify"
    /\ NotifyOne
    /\ dpc' = "join"
    /\ UNCHANGED <<lmutex, msgQue, bstop, ppc, posted, handled>>

\* dealMsg contains no return: no step of the worker leads to "returned".
WorkerReturned == wpc = "returned"

Undefined == wpc = "undefined" /\ UNCHANGED vars

Next ==
    \/ \E p \in Posters : PostNotify(p) \/ \E m \in Msgs : Post(p, m)
    \/ WorkerStep \/ WorkerSpurious
    \/ DestructorStop \/ DestructorNotify
    \/ Undefined

Spec == Init /\ [][Next]_vars

\* The worker and the threads inside postMsgToQue or the destructor run; nothing
\* has to be posted, the process need not exit, no wake-up is spurious.
Fairness ==
    /\ WF_vars(WorkerStep)
    /\ \A p \in Posters : WF_vars(PostNotify(p))
    /\ WF_vars(DestructorNotify)

FairSpec == Spec /\ Fairness
-----------------------------------------------------------------------------
WorkerPCs == {"lock", "test", "sleep", "waiting", "woken", "bstop?", "front", "undefined", "returned"}

TypeOK ==
    /\ lmutex \in BOOLEAN /\ bstop \in BOOLEAN
    /\ msgQue \in Seq(Msgs) /\ handled \in Seq(Known)
    /\ wpc \in WorkerPCs
    /\ ppc \in [Posters -> {"idle", "notify"}]
    /\ dpc \in {"up", "notify", "join"}
    /\ posted \in Seq(Msgs)

\* postMsgToQue notifies only when its message is the only one (62) and only
\* after it released lmutex (63-64).  Still no wake-up is lost: while messages
\* are queued and the worker sleeps, a poster is about to notify.
WakeUpPending ==
    wpc = "waiting" /\ msgQue # <<>> => \E p \in Posters : ppc[p] = "notify"

\* As long as the process is not exiting the worker never looks at the front of
\* an empty queue.
FrontExists == wpc = "front" /\ ~bstop => msgQue # <<>>

\* Every message that was posted is dispatched or, without a callback, dropped,
\* also when the destructor runs meanwhile.
Queued(m) == \E i \in DOMAIN msgQue : msgQue[i] = m
QueueDrained == \A m \in Msgs : Queued(m) ~> ~Queued(m)

\* Every message with a callback is given to it once and in the order of arrival,
\* also by the loop that drains the queue when bstop is set.
\* What is queued was posted last; what was posted before it and has a callback was
\* handled, nothing else was, and in that order.
Taken == Len(posted) - Len(msgQue)
InOrder ==
    /\ \A i \in DOMAIN msgQue : msgQue[i] = posted[Taken + i]
    /\ \A i \in 1 .. Taken : posted[i] \in Known => \E k \in DOMAIN handled : handled[k] = posted[i]
    /\ \A k \in DOMAIN handled : \E i \in 1 .. Taken : handled[k] = posted[i]
    /\ \A k, l \in DOMAIN handled, i, j \in 1 .. Taken :
          k < l /\ handled[k] = posted[i] /\ handled[l] = posted[j] => i < j

\* The comment "elegent exit serve" of main (asyncServer.cpp): once the server
\* is told to exit, the destructor's join sees the worker return.
ElegantExit == dpc = "join" ~> WorkerReturned
=============================================================================
