----------------------------- MODULE MysqlConn -----------------------------
(***************************************************************************)
(* The connection object of src/src/Mysql/mysqlConn.cpp in the hands of    *)
(* the pool's clients.  ConnPool shows who holds a connection; here it     *)
(* goes from client to client, with the result set and the session of the  *)
(* server that the one before has left in it.                              *)
(***************************************************************************)
EXTENDS Naturals

CONSTANTS
    Clients, Nobody,
    Conns,     \* names (addresses) for connections; a deleted one may be used again
    Updates,   \* the statements that clients execute (bounds the model)
    MaxRows    \* rows of a result (bounds the model)

VARIABLES
    conns,     \* the connections that exist
    holder,    \* the client that has a connection from the pool
    link,      \* to the server: up, or down (lost, or never there)
    \* mysqlConn
    m_res,     \* the stored result: whose query it answers, how many rows are left
    m_row,     \* the row that was fetched last
    used,      \* what the client has done since it got the connection
    \* the server
    autocommit,
    begun,     \* history: transaction() was called on this connection
    open,      \* statements that are executed and not committed
    committed,
    tried,     \* statements that were given to update()
    acked      \* <<statement, begun>> of those for which it returned true

objectVars == <<m_res, m_row, used>>
serverVars == <<autocommit, begun, open, committed>>
vars == <<conns, holder, link, objectVars, serverVars, tried, acked>>

NoResult == [by |-> Nobody, rows |-> 0]

Init ==
    /\ conns = {}
    /\ holder = [k \in Conns |-> Nobody]
    /\ link = [k \in Conns |-> "down"]
    /\ m_res = [k \in Conns |-> NoResult]
    /\ m_row = [k \in Conns |-> "null"]
    /\ used = [k \in Conns |-> "nothing"]
    /\ autocommit = [k \in Conns |-> TRUE]
    /\ begun = [k \in Conns |-> FALSE]
    /\ open = [k \in Conns |-> {}]
    /\ committed = {} /\ tried = {} /\ acked = {}
-----------------------------------------------------------------------------
(***************************************************************************)
(* The pool, and the network.                                              *)
(***************************************************************************)

\* createConn ignores what connect returns: a connection without a link is put in
\* the pool like any other.
Create(k) ==
    /\ k \notin conns
    /\ conns' = conns \cup {k}
    /\ \E l \in {"up", "down"} : link' = [link EXCEPT ![k] = l]
    /\ autocommit' = [autocommit EXCEPT ![k] = TRUE]
    /\ begun' = [begun EXCEPT ![k] = FALSE]
    /\ m_row' = [m_row EXCEPT ![k] = "null"]
    /\ UNCHANGED <<holder, m_res, used, open, committed, tried, acked>>

Take(c, k) ==
    /\ k \in conns /\ holder[k] = Nobody
    /\ \A j \in Conns : holder[j] # c
    /\ holder' = [holder EXCEPT ![k] = c]
    /\ used' = [used EXCEPT ![k] = "nothing"]
    /\ UNCHANGED <<conns, link, m_res, m_row, serverVars, tried, acked>>

\* The deleter refreshes the time of last use, and nothing else.
GiveBack(c, k) ==
    /\ holder[k] = c
    /\ holder' = [holder EXCEPT ![k] = Nobody]
    /\ UNCHANGED <<conns, link, objectVars, serverVars, tried, acked>>

Freespace(k) == m_res' = [m_res EXCEPT ![k] = NoResult]

\* ~mysqlConn: mysql_close, with which the server forgets what was not committed.
Delete(k) ==
    /\ k \in conns /\ holder[k] = Nobody
    /\ conns' = conns \ {k}
    /\ link' = [link EXCEPT ![k] = "down"]
    /\ open' = [open EXCEPT ![k] = {}]
    /\ Freespace(k)
    /\ UNCHANGED <<holder, m_row, used, autocommit, begun, committed, tried, acked>>

Disconnect(k) ==
    /\ link[k] = "up"
    /\ link' = [link EXCEPT ![k] = "down"]
    /\ open' = [open EXCEPT ![k] = {}]
    /\ UNCHANGED <<conns, holder, objectVars, autocommit, begun, committed, tried, acked>>
-----------------------------------------------------------------------------
(***************************************************************************)
(* The calls of the client that holds the connection.                      *)
(***************************************************************************)

\* The server executes statement u.
Execute(k, u) ==
    /\ link[k] = "up"
    /\ IF autocommit[k]
       THEN committed' = committed \cup {u} /\ UNCHANGED open
       ELSE open' = [open EXCEPT ![k] = @ \cup {u}] /\ UNCHANGED committed

\* Faulty: returns what mysql_query returns, which is 0 for success.
Update_Inverted(c, k, u) ==
    /\ holder[k] = c /\ u \notin tried
    /\ tried' = tried \cup {u}
    /\ \/ Execute(k, u) /\ UNCHANGED acked
       \/ UNCHANGED <<open, committed>> /\ acked' = acked \cup {<<u, begun[k]>>}
    /\ UNCHANGED <<conns, holder, link, objectVars, autocommit, begun>>

\* update: true when the server says so.  When the link fails during the call the
\* statement may have been executed all the same.
Update(c, k, u) ==
    /\ holder[k] = c /\ u \notin tried
    /\ tried' = tried \cup {u}
    /\ \/ Execute(k, u) /\ acked' = acked \cup {<<u, begun[k]>>} /\ UNCHANGED link
       \/ UNCHANGED <<link, open, committed, acked>>
       \/ /\ link[k] = "up" /\ autocommit[k]
          /\ committed' = committed \cup {u}
          /\ link' = [link EXCEPT ![k] = "down"]
          /\ UNCHANGED <<open, acked>>
    /\ UNCHANGED <<conns, holder, objectVars, autocommit, begun>>

\* The row that was fetched is part of the result that is freed.
RowAfterFree(k) == IF m_row[k] = "null" THEN "null" ELSE "freed"

\* Faulty: frees the last result only if the new query succeeds.
Query_FreesLate(c, k) ==
    /\ holder[k] = c
    /\ \/ m_res' = m_res /\ UNCHANGED m_row
       \/ /\ link[k] = "up"
          /\ \E n \in 0 .. MaxRows : m_res' = [m_res EXCEPT ![k] = [by |-> c, rows |-> n]]
          /\ m_row' = [m_row EXCEPT ![k] = RowAfterFree(k)]
    /\ used' = [used EXCEPT ![k] = "query"]
    /\ UNCHANGED <<conns, holder, link, serverVars, tried, acked>>

\* query: frees the last result, then asks; the caller need not look at what it
\* returns.
Query(c, k) ==
    /\ holder[k] = c
    /\ \/ Freespace(k)
       \/ /\ link[k] = "up"
          /\ \E n \in 0 .. MaxRows : m_res' = [m_res EXCEPT ![k] = [by |-> c, rows |-> n]]
    /\ m_row' = [m_row EXCEPT ![k] = RowAfterFree(k)]
    /\ used' = [used EXCEPT ![k] = "query"]
    /\ UNCHANGED <<conns, holder, link, serverVars, tried, acked>>

\* next: true when there is one more row.
NextRow(c, k) ==
    /\ holder[k] = c /\ used[k] # "nothing"
    /\ IF m_res[k] = NoResult
       THEN used' = [used EXCEPT ![k] = "query"] /\ UNCHANGED <<m_res, m_row>>
       ELSE IF m_res[k].rows = 0
       THEN /\ m_row' = [m_row EXCEPT ![k] = "null"]
            /\ used' = [used EXCEPT ![k] = "query"]
            /\ UNCHANGED m_res
       ELSE /\ m_res' = [m_res EXCEPT ![k].rows = @ - 1]
            /\ m_row' = [m_row EXCEPT ![k] = "row"]
            /\ used' = [used EXCEPT ![k] = "next"]
    /\ UNCHANGED <<conns, holder, link, serverVars, tried, acked>>

Transaction(c, k) ==
    /\ holder[k] = c /\ link[k] = "up"
    /\ autocommit' = [autocommit EXCEPT ![k] = FALSE]
    /\ begun' = [begun EXCEPT ![k] = TRUE]
    /\ UNCHANGED <<conns, holder, link, objectVars, open, committed, tried, acked>>

\* Neither commit nor rollback switches autocommit on again.
Commit(c, k) ==
    /\ holder[k] = c /\ link[k] = "up"
    /\ committed' = committed \cup open[k]
    /\ open' = [open EXCEPT ![k] = {}]
    /\ UNCHANGED <<conns, holder, link, objectVars, autocommit, begun, tried, acked>>

Rollback(c, k) ==
    /\ holder[k] = c /\ link[k] = "up"
    /\ open' = [open EXCEPT ![k] = {}]
    /\ UNCHANGED <<conns, holder, link, objectVars, autocommit, begun, committed, tried, acked>>

Next ==
    \E k \in Conns :
        \/ Create(k) \/ Delete(k) \/ Disconnect(k)
        \/ \E c \in Clients :
              \/ Take(c, k) \/ GiveBack(c, k)
              \/ Query(c, k) \/ NextRow(c, k)
              \/ Transaction(c, k) \/ Commit(c, k) \/ Rollback(c, k)
              \/ \E u \in Updates : Update(c, k, u)

Spec == Init /\ [][Next]_vars
-----------------------------------------------------------------------------
Types ==
    /\ conns \subseteq Conns
    /\ holder \in [Conns -> Clients \cup {Nobody}]
    /\ link \in [Conns -> {"up", "down"}]
    /\ m_res \in [Conns -> [by : Clients \cup {Nobody}, rows : Nat]]
    /\ m_row \in [Conns -> {"null", "row", "freed"}]
    /\ used \in [Conns -> {"nothing", "query", "next"}]
    /\ autocommit \in [Conns -> BOOLEAN]
    /\ begun \in [Conns -> BOOLEAN]
    /\ open \in [Conns -> SUBSET Updates]
    /\ committed \subseteq Updates
    /\ tried \subseteq Updates
    /\ acked \subseteq Updates \X BOOLEAN

\* The type invariant; only connections that exist are held.
TypeOK == Types /\ \A k \in Conns : holder[k] # Nobody => k \in conns

\* A connection comes with the result and the row of whoever used it before, and
\* getvalue reads m_row without a test.  A client that has called query, even one
\* that failed, gets no row of another client, and after next has returned true
\* the row it reads is one of the result it asked for.
RowsAreOwn ==
    \A k \in Conns : holder[k] # Nobody =>
        /\ used[k] # "nothing" /\ m_res[k] # NoResult => m_res[k].by = holder[k]
        /\ used[k] = "next" => m_row[k] = "row" /\ m_res[k] # NoResult

\* A statement for which update returned true is not lost, although connections
\* fail, change hands and are deleted by the recycler; unless some client, not
\* necessarily the same, has called transaction on that connection before.
DurableUnlessTransaction == \A u \in Updates : <<u, FALSE>> \in acked => u \in committed
=============================================================================
