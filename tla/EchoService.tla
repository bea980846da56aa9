---------------------------- MODULE EchoService ----------------------------
(***************************************************************************)
(* What a client of the boost echo servers may rely on, without threads,   *)
(* sockets or locks: on each connection the requests are answered in the   *)
(* order in which they arrived, each of them once.  A request may be       *)
(* dropped, but only when Capacity replies that come before it have not    *)
(* been written yet.                                                       *)
(***************************************************************************)
EXTENDS Naturals, Sequences, SequencesExt

CONSTANTS
    Connections,
    Requests,     \* the numbers of the requests of a connection
    Capacity      \* how many replies a connection keeps for its client

VARIABLES
    pending,  \* requests without a reply, in the order of arrival
    replied   \* requests whose reply was written, in that order

vars == <<pending, replied>>

Init ==
    /\ pending = [c \in Connections |-> <<>>]
    /\ replied = [c \in Connections |-> <<>>]

\* One read may bring several requests; a connection numbers them.
Receive(c, rs) ==
    /\ \A r \in rs : \A i \in DOMAIN (replied[c] \o pending[c]) : (replied[c] \o pending[c])[i] < r
    /\ pending' = [pending EXCEPT ![c] = @ \o SetToSortSeq(rs, <)]
    /\ UNCHANGED replied

Reply(c) ==
    /\ pending[c] # <<>>
    /\ pending' = [pending EXCEPT ![c] = Tail(@)]
    /\ replied' = [replied EXCEPT ![c] = Append(@, Head(pending[c]))]

Drop(c) ==
    /\ Len(pending[c]) > Capacity
    /\ pending' = [pending EXCEPT ![c] = RemoveAt(@, Capacity + 1)]
    /\ UNCHANGED replied

Next ==
    \E c \in Connections : Reply(c) \/ Drop(c) \/ \E rs \in SUBSET Requests : Receive(c, rs)

Spec == Init /\ [][Next]_vars
=============================================================================
