--------------------------- MODULE MCLogicSystem ---------------------------
(***************************************************************************)
(* A small instance of LogicSystem for TLC: two messages with a callback,  *)
(* two without, and two io threads.                                        *)
(***************************************************************************)
EXTENDS LogicSystem

CONSTANTS hello1, hello2, other1, other2

MCMsgs == {hello1, hello2, other1, other2}
MCKnown == {hello1, hello2}
=============================================================================
