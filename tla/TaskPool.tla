------------------------------ MODULE TaskPool ------------------------------
(***************************************************************************)
(* What a user of the thread pool may rely on, without threads, locks or   *)
(* condition variables: submitted tasks are started in the order they were *)
(* submitted, each of them at most once, and closing the pool drops what   *)
(* has not been started, except for the one task a worker may already have *)
(* committed itself to.                                                    *)
(***************************************************************************)
EXTENDS Naturals, Sequences

CONSTANT Tasks  \* the tasks that can be submitted

VARIABLES
    pending,  \* submitted and not started, in submission order
    running,  \* started and not finished
    finished, \* their function has returned
    open,     \* FALSE once the owner closes the pool
    late      \* how many tasks were started after the pool was closed

vars == <<pending, running, finished, open, late>>

Init ==
    /\ pending = <<>>
    /\ running = {}
    /\ finished = {}
    /\ open = TRUE
    /\ late = 0

\* A task enters the pool once in its life.
Submit(t) ==
    /\ t \notin running \cup finished
    /\ \A i \in DOMAIN pending : pending[i] # t
    /\ pending' = Append(pending, t)
    /\ UNCHANGED <<running, finished, open, late>>

\* Tasks are started first come, first served.
Start ==
    /\ pending # <<>>
    /\ Head(pending) \notin running
    /\ open \/ late = 0
    /\ pending' = Tail(pending)
    /\ running' = running \cup {Head(pending)}
    /\ late' = IF open THEN late ELSE late + 1
    /\ UNCHANGED <<finished, open>>

Finish(t) ==
    /\ t \in running
    /\ running' = running \ {t}
    /\ finished' = finished \cup {t}
    /\ UNCHANGED <<pending, open, late>>

Close ==
    /\ open
    /\ open' = FALSE
    /\ UNCHANGED <<pending, running, finished, late>>

Next ==
    \/ \E t \in Tasks : Submit(t) \/ Finish(t)
    \/ Start
    \/ Close

Spec == Init /\ [][Next]_vars
=============================================================================
