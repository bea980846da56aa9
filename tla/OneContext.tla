----------------------------- MODULE OneContext -----------------------------
(***************************************************************************)
(* The echo servers with one io_context that main itself runs: there is no *)
(* pool to choose from, and one thread calls the handlers of the acceptor  *)
(* and of every session.  Io!H is the handler H of EchoServer in such a    *)
(* program.                                                                *)
(***************************************************************************)
EXTENDS EchoServer

Io == INSTANCE EchoServer WITH
    Pool <- <<Acceptor>>,
    next <- 1,
    home <- [s \in Sessions |-> Acceptor]

\* The request that was read last.
LastRead(s) == node[s][Len(node[s])].req

\* No io_context is handed out.
NoPool == UNCHANGED <<next, home>>
=============================================================================
