----------------------------- MODULE DbPrograms -----------------------------
(***************************************************************************)
(* The programs of src/src/Mysql and src/src/redis.  "program" says what   *)
(* runs: the threads of the connection pool, with connections that are     *)
(* only names; the clients of that pool, each using the object that a name *)
(* stands for; or the program that has one redis connection.  What a       *)
(* program does not use does not change.                                   *)
(***************************************************************************)
EXTENDS ConnPool

CONSTANTS
    Borrowers, Nobody, Handles, Updates, MaxRows,  \* of MysqlConn
    Keys, Values, OK, Empty                        \* of RedisConn

ASSUME BorrowersAssumption == Nobody \notin Borrowers /\ MaxRows \in Nat
ASSUME StringsAssumption == Empty \notin Values /\ OK # Empty

VARIABLES
    program,
    conns, holder, link, m_res, m_row, used, autocommit, begun, open, committed, tried, acked,
    r_redis, failed, store, believed

Mysql == INSTANCE MysqlConn WITH Clients <- Borrowers, Conns <- Handles
Redis == INSTANCE RedisConn

mysqlVars == <<conns, holder, link, m_res, m_row, used, autocommit, begun, open, committed, tried, acked>>
redisVars == <<r_redis, failed, store, believed>>
dbVars == <<program, vars, mysqlVars, redisVars>>

NoValues == [k \in Keys |-> Empty]

DbInit ==
    /\ Init /\ Mysql!Init /\ Redis!Init
    /\ \/ program = "pool" /\ store = NoValues
       \/ program = "connection" /\ Unconfigured /\ store = NoValues
       \/ program = "redis" /\ Unconfigured

\* The pool's step A.
InPool(A) == program = "pool" /\ A /\ UNCHANGED <<program, mysqlVars, redisVars>>

DbNext ==
    \/ InPool(Next)
    \/ program = "connection" /\ Mysql!Next /\ UNCHANGED <<program, vars, redisVars>>
    \/ program = "redis" /\ Redis!Next /\ UNCHANGED <<program, vars, mysqlVars>>

DbSpec == DbInit /\ [][DbNext]_dbVars

\* The fairness of ConnPool; the other programs need none.
DbFairness ==
    /\ \A c \in Clients : WF_dbVars(InPool(ClientStep(c))) /\ WF_dbVars(InPool(ClientTimeout(c)))
    /\ WF_dbVars(InPool(ProducerWait \/ ProducerCreate))
    /\ WF_dbVars(InPool(Tick))
    /\ WF_dbVars(InPool(Recycle))

FairDbSpec == DbSpec /\ DbFairness
-----------------------------------------------------------------------------
RowsAreOwn == Mysql!RowsAreOwn
DurableUnlessTransaction == Mysql!DurableUnlessTransaction
BelievedIsStored == Redis!BelievedIsStored
=============================================================================
