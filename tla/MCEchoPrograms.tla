--------------------------- MODULE MCEchoPrograms ---------------------------
(***************************************************************************)
(* Small instances of the echo programs for TLC.                           *)
(***************************************************************************)
EXTENDS EchoPrograms, TLC

CONSTANTS main, t1, t2

OneThread == <<t1>>
TwoThreads == <<t1, t2>>

SessionSymmetry == Permutations(Sessions)
=============================================================================
