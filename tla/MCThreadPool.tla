---------------------------- MODULE MCThreadPool ----------------------------
(***************************************************************************)
(* Small instances of ThreadPool for TLC.                                  *)
(***************************************************************************)
EXTENDS ThreadPool, TLC

\* No exit request, and more requests than MaxNum - MinNum workers can follow.
MCGarbage == {0, 3}

\* Tasks and callers are interchangeable.
Symmetry == Permutations(Tasks) \cup Permutations(Callers)
=============================================================================
