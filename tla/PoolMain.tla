------------------------------ MODULE PoolMain ------------------------------
(***************************************************************************)
(* The program of src/src/ThreadPool/main.cpp: main submits one task per   *)
(* number, each with a pointer to its number, and the task prints the      *)
(* number that its argument points to.  The pool is the one TaskPool       *)
(* describes and ThreadPool implements.                                    *)
(***************************************************************************)
EXTENDS Naturals, Sequences

CONSTANTS
    Count,  \* how many tasks main submits, 100 in the code
    Junk    \* the numbers an uninitialised pointer may point to

VARIABLES
    i,        \* main's loop variable
    arg,      \* the number the member arg of each task points to
    printed,  \* history: <<task, number>> for each line printed
    pending, running, finished, open, late

Loops == 0 .. Count - 1
Pool == INSTANCE TaskPool WITH Tasks <- Loops

\* The number main allocates in turn j.
Number(j) == j + 100

\* Task(callback f, void *arg): the body's "arg = arg" assigns the parameter to
\* itself, the member is left uninitialised.
ConstructedArg(num) == Junk

Init ==
    /\ Pool!Init
    /\ i = 0
    /\ arg = [t \in Loops |-> 0]
    /\ printed = {}

AddTask ==
    /\ i < Count
    /\ Pool!Submit(i)
    /\ \E a \in ConstructedArg(Number(i)) : arg' = [arg EXCEPT ![i] = a]
    /\ i' = i + 1
    /\ UNCHANGED printed

StartTask == Pool!Start /\ UNCHANGED <<i, arg, printed>>

TaskFunction(t) ==
    /\ Pool!Finish(t)
    /\ printed' = printed \cup {<<t, arg[t]>>}
    /\ UNCHANGED <<i, arg>>

\* The pool is a local variable: returning from main closes it.
Return == i = Count /\ Pool!Close /\ UNCHANGED <<i, arg, printed>>

Next == AddTask \/ StartTask \/ (\E t \in Loops : TaskFunction(t)) \/ Return

Spec == Init /\ [][Next]_<<i, arg, printed, Pool!vars>>

\* main hands each task its own number (16-17) and the task prints "number="
\* followed by the number it was given (7).
PrintsItsNumber == \A p \in printed : p[2] = Number(p[1])
=============================================================================
