--------------------------- MODULE RedisConnPool ---------------------------
(***************************************************************************)
(* The pool of src/src/redis.  Its producer, recycler and getRedisConn are *)
(* those of the MySQL pool; its constructor differs.  It never calls       *)
(* parseJsonFile, so the members of the one static pool keep the zeros of  *)
(* static storage.                                                         *)
(***************************************************************************)
EXTENDS Integers, Sequences, FiniteSets

CONSTANTS Clients, Conns, NoConn, Requests,
    ConfiguredMin  \* minSize of reconf.json

VARIABLES r_redisConnQ, age, conn, cpc, left, ppc

\* What the constructor leaves in r_minSize and r_maxIdleTime.
r_minSize == 0
r_maxIdleTime == 0

Pool == INSTANCE ConnPool WITH
    m_connPoolQ <- r_redisConnQ, MinSize <- r_minSize, MaxIdle <- r_maxIdleTime

getRedisConn(c) == Pool!ClientWait(c) \/ Pool!ClientTake(c) \/ Pool!ClientTimeout(c)
giveBack(c) == Pool!ClientRelease(c)
produceConn == Pool!ProducerWait \/ Pool!ProducerCreate \/ Pool!ProducerSpurious
recycleConn == Pool!Recycle
destroy == Pool!Destroy

Init == Pool!Init /\ Pool!Configured
Next ==
    \/ \E c \in Clients : getRedisConn(c) \/ giveBack(c)
    \/ produceConn
    \/ recycleConn
    \/ Pool!Tick
    \/ destroy

vars == <<r_redisConnQ, age, conn, cpc, left, ppc>>

\* The threads run and time passes, as for ConnPool.
FairSpec ==
    /\ Init /\ [][Next]_vars
    /\ \A c \in Clients : WF_vars(Pool!ClientStep(c)) /\ WF_vars(Pool!ClientTimeout(c))
    /\ WF_vars(Pool!ProducerWait \/ Pool!ProducerCreate)
    /\ WF_vars(Pool!Tick)
    /\ WF_vars(Pool!Recycle)

\* reconf.json (4) gives the pool a minimum size: that many connections are
\* going to be there.
ReachesConfiguredMin == <>(Len(r_redisConnQ) >= ConfiguredMin)
=============================================================================
