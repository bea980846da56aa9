# cpp-overview in TLA+

TLA+ modules, TLC configurations and TLAPS proofs for the programs of `cpp-overview`: a thread
pool, two database connection pools with their connection objects, and a family of echo servers. Paths of source files are
relative to `src/src/` of the repository.

## 1. Inventory

| Component | State | Operations | Interacts with | What is hard |
|---|---|---|---|---|
| **Thread pool** `ThreadPool/threadpool.cpp`, `taskq.cpp` | task queue, `m_aliveNum`, `m_busyNum`, `m_exitNum`, `m_end`, slots `m_threadIDs` | constructor, `addTask`, `worker`, `manager`, `threadExit`, destructor | workers share `m_mutex` and `m_cond`; the queue has a mutex of its own; `addTask` and the destructor use neither | lost wake-ups, decisions of the manager on old sizes, an uninitialised counter, shutdown without joining the workers |
| **Thread pool program** `ThreadPool/main.cpp`, `task.h` | a task and its argument | submit 100 tasks, sleep, return | uses the pool | the argument a task ends up with |
| **MySQL connection pool** `Mysql/mysqlConnPool.cpp` | queue of idle connections, their time of last use | `getMysqlConn` and the deleter of what it returns, `produceConn`, `recycleConn` | clients, producer and recycler share `m_mutex`; producer and clients wait on one `m_cond` | who is woken by `notify_all`, a deleter that notifies nobody, expiry judged by the front of the queue |
| **MySQL connection object** `Mysql/mysqlConn.cpp` | result set, current row; autocommit and the open transaction in the server | `connect`, `update`, `query`, `next`, `getvalue`, `transaction`, `commit`, `rollback`, `freespace` | goes from client to client through the pool | what the client before has left in it; a link that fails between two calls |
| **Redis connection pool** `redis/redisConnPool.cpp` | the same | the same | the same | a constructor that never reads its configuration |
| **Redis connection object** `redis/redisConn.cpp`, `main.cpp` | the context `r_redis` | `connect`, `set`, `get`, `update`, `del`, `execute` | the redis server | an empty value turns a SET into a DEL; results that mean several things; a freed context that is kept |
| **Logic system** `boost/{LogicServer,IoServicePool,IoThreadPool}/logicSystem.cpp` | queue of received messages, `bstop` | `postMsgToQue`, `dealMsg`, destructor | io threads post, one worker dispatches, the static destructor stops it | a notification for the first message only, sent after the lock is released; a worker that never returns |
| **Echo sessions and server map** `boost/*/session.cpp`, `server.cpp` | send queue, current head and message, map of sessions | `startAccept`, `handleAccept`, `handleHeadRead`, `handleMsgRead`, `send`, `handleWrite`, `clearSession` | io threads run the handlers, the logic worker calls `send` | one write at a time, the bound of the send queue, a session that ends before it is in the map |
| **Io thread management** `boost/IoServicePool/IoServicePool.cpp`, `boost/IoThreadPool/IoThreadPool.cpp`, `asyncServer.cpp` | io contexts and threads | `getIoService`, `stop` | runs the handlers of sessions | stopping with work left |
| **Stream framing** `boost/asyncServer/session.cpp`, `boost/readAtLeastServer/session.cpp` | bytes of head and message kept between reads | `handleRead` | fed by the socket | messages cut over reads, several messages in one read, a signed length that is only compared with `MAX_LENGTH` |
| **Raw-pointer echo server** `boost/async` | a session that owns itself | accept, read, write | asio | deletion inside a handler |
| **Synchronous demo** `boost/demo/asycServer.cpp` | a set of threads, one for each client | accept loop, `session` | | what becomes of the threads when `accept` throws |
| **Epoll server** `EPoll/server.cpp` | interest list, open descriptors, `mutex` | main loop, `connetFunc`, `commucationFunc` | a thread per event; the mutex is held during `epoll_wait` | level-triggered events reported again before a thread has handled them, descriptor numbers used again |
| Send and receive examples `boost/other`, clients, `CppFeature`, `concurrency`, `jsoncpp`, `test` | none worth a model | | | |

Correctness of each modelled component, in words: the **thread pool** runs every task at most once,
in order, never with a null function, keeps its counters true and within `minNum..maxNum`, and its
destructor returns. A **connection pool** gives a connection to one client at a time, closes only
what has expired and is not needed, closes all of it, and serves every client; through a **connection
object** a client reads no other client's rows, and what it was told is stored is stored. The **logic system**
loses no wake-up, handles messages in order and leaves none behind. The **echo servers** answer the
requests of a connection in order and each once, never write twice at a time, drop a reply only when
the send queue is full, and let go of a session when its client has gone. The **framing** loses, repeats
and moves no byte of a stream however it is cut, copies nothing past a buffer as long as no length is negative, and echoes
every complete message. The **epoll server** has each open descriptor in one hand.

## 2. Modules

| Module | Role |
|---|---|
| `TaskPool` | abstract: what a user of the thread pool may rely on |
| `ThreadPool` | the thread pool, detailed; `ImplementsTaskPool` is its refinement |
| `MCThreadPool`, `ThreadPool_*.cfg` | instances for TLC |
| `ThreadPoolProofs` | theorems about `ThreadPool`, the refinement of `TaskPool` last |
| `PoolMain`, `PoolMain.cfg` | `main.cpp` on top of `TaskPool` |
| `ConnPool` | the connection pool |
| `MysqlConn`, `RedisConn` | the two connection objects |
| `MysqlConnProofs` | theorems about `MysqlConn` |
| `DbPrograms`, `DbPrograms.cfg` | the pool, its clients' connections or the redis program, whichever runs |
| `DbProgramsProofs` | theorems about `ConnPool`, `RedisConn` and `DbPrograms` |
| `RedisConnPool`, `RedisConnPool.cfg` | `ConnPool` with what the redis constructor leaves in the configuration |
| `LogicSystem` | the logic worker and the io threads that post to it |
| `MCLogicSystem`, `LogicSystem*.cfg` | instances for TLC |
| `LogicSystemProofs` | theorems about `LogicSystem` |
| `EchoService` | abstract: what the client of an echo server may rely on |
| `EchoServer` | sessions, acceptor, map, io contexts and the logic worker of `IoServicePool` |
| `IoThreadServer` | the handlers of `IoThreadPool`: one io_context, many threads, strands, a map without a lock |
| `OneContext` | `EchoServer` when one thread runs every handler, for the servers below |
| `LogicServer`, `ReadAtLeastServer`, `AsyncServer` | the handlers of the three servers of that name |
| `ChunkEcho`, `RawEchoServer`, `SyncEchoServer` | `boost/async` and `boost/demo`, which echo bytes |
| `EchoPrograms` | the seven echo servers side by side, their properties and the refinement of `EchoService` |
| `MCEchoPrograms`, `EchoPrograms_*.cfg` | instances for TLC |
| `EchoServerProofs` | theorems about `EchoServer`, the program `IoServicePool` |
| `EchoProgramsProofs` | theorems about all of `EchoPrograms` |
| `Wire` | the message format of `asyncServer` and `readAtLeastServer` |
| `FramedEcho` | abstract: what the two parsers have to compute |
| `Framing` | `handleRead` of `asyncServer`, the parser written by hand |
| `ReadAtLeast` | the sessions of `readAtLeastServer`, exact reads |
| `FramedServers`, `FramedServers.cfg` | either of the two behind one socket, and what both have to be |
| `FramingProofs` | theorems about `FramedServers`: the two parsers and the steps of `FramedEcho` |
| `EPollServer`, `EPollServer.cfg` | the epoll server with its client |
| `EPollServerProofs` | theorems about `EPollServer` |

In every module the names of variables and actions are the code's where it has one. An operator
with a suffix, such as `WorkerWake_NoRetest`, is not part of the model: it is the variant of the
definition after it that a plausible mistake in the code would give, kept to show that the property
named for it can fail.

### ThreadPool

A step is what one thread does between two points where another can observe or disturb it: taking
and releasing `m_mutex`, waiting on and signalling `m_cond`, and the accesses the code makes without
`m_mutex` (`m_end`; the queue in `addTask`; `m_aliveNum` in the destructor; `m_threadIDs` in
`threadExit`). A worker is its slot of `m_threadIDs`; `wpc` says where in `worker` it is:

| `wpc` | in `threadpool.cpp` | next action |
|---|---|---|
| `lock` | 122, or about to run | `WorkerLock` |
| `check` | 123, owns `m_mutex` | `WorkerCheck` |
| `sleep` | between 123 and 125, owns `m_mutex` | `WorkerSleep` |
| `waiting` | in `pthread_cond_wait` | `Signal` of another thread, or `SpuriousWakeup` |
| `woken` | still in it, needs `m_mutex` | `WorkerWake` (127-134) |
| `leave` | 137 | `WorkerLeaveWait` |
| `take` | 142 | `WorkerTakeTask` |
| `work` | 147 | `WorkerFinishTask` (to 154) |
| `retire`, `quit` | `threadExit` after 132, after 139 | `ThreadExit` |
| `none` | the slot is free | `ManagerScanSlot` |

The manager's `mpc` follows 80 (`test`), 82-86 (`snapshot`), 90 (`grow`), 92-100 (`scan`, one slot
per step), 105-107 (`shrink`) and 109-111 (`signal`, one signal per step). `finished` and
`lateStarts` are history variables for `TaskPool`.

`m_exitNum` is never initialised before the manager assigns it, so its first value is any member of
`Garbage`; the proofs allow every integer. Not modelled: a torn read of the deque's size by
`getTaskNumber`, which reads it without the queue's mutex (the model reads the size before or after
a concurrent push or pop, never a mixture), and everything after the destructor has deleted the
queue: the workers are not joined, and what they do with freed memory is undefined. The model stops
there (`Deleted`).

### ConnPool

Everything happens under `m_mutex`, except what the destructor does; a critical section is one action, and
waiting splits it. Time is the age of each idle connection (`getAliveTime`, which nobody changes but `refreshAliveTime`), counted
up to `MaxIdle`, since the code compares it with `maxIdleTime` only. `Recycle` is one round of
`recycleConn`: `RecycleCount` says how many connections from the front its loop closes. `createConn`
takes no notice of a failed `connect`, so a failed connection is a connection like any other. The pool starts
in one of two ways: `Configured`, or `Unconfigured` when `dbconf.json` cannot be parsed, with no connections
and no threads. `Destroy` is the destructor of the static pool, after `main` has joined its clients; the two
detached threads end with the process (`ppc = "none"`).
`RedisConnPool` is an instance with zeros for the two configured values: the only redis pool is a
static object, whose members are zero before the constructor runs, and the constructor does not
assign them.

### MysqlConn, RedisConn, DbPrograms

A `mysqlConn` is named by its address; `Take`, `GiveBack`, `Create` and `Delete` are what the pool does to it,
without the pool's order, as `ConnPool` shows who holds what. One action per call of a holder: the outcome of
`mysql_query` is a choice between executed, refused, and executed with the answer lost. `m_res` records whose
query a result answers, `m_row` whether the row points into a result that exists (`row`), into one that was freed
(`freed`) or nowhere. `autocommit`, `open` and `committed` are the server's. A result is a number of rows, a
statement a name; the values and the index of `getvalue` are left out.

`RedisConn` has one action per call of `redisConn`, with the command `setCommand` sends in its place (`Sent`), what the
server does with it (`Stored`), and its reply, an error or nothing. `believed` keeps the values a caller can take
a key to have from the results alone. A command on a context that is null or freed ends the model (`undefined`).

`DbPrograms` puts the three state machines in one run: `program` is `pool`, `connection` or `redis`, and what a
program does not use does not change.

### LogicSystem

`lmutex` is a variable because the worker holds it over several steps (test, drain, dispatch), the
destructor meanwhile sets `bstop` without it. A post is one step, followed by its notification in a
step of its own, since `notify_one` comes after `unlock`. Calling `front()` on an empty queue has no
defined outcome: the model goes to `undefined` and stays there.

### EchoServer and EchoPrograms

`EchoServer` is `IoServicePool`, where main accepts on its own io_context and each session lives on one of a
pool's. A completion handler runs on the thread of its io_context, without interruption on that thread, and is
cut where another thread can see it half done:

| Handler | Actions | Cut at |
|---|---|---|
| `Server::handleAccept` | `AcceptStart`, `AcceptInsert`, `AcceptError` | between `start()` (21), after which the session is read on its own thread, and the insertion in the map (22-23) |
| `Session::handleHeadRead` | `HeadRead` | |
| `Session::handleMsgRead` | `MsgRead`, `ReadHeadAgain` | between `postMsgToQue` (93) and the next `async_read` |
| either, with an error | `ReadError`, `ClearSession` | between `close()` and `clearSession` |
| `Session::handleWrite` | `WriteDone`, `WriteError` | |
| `logicSystem::dealMsg` with its callback and `Session::send` | `Dispatch`, `Send` | |
| the signal handler of main, `IoServicePool::stop` | `Signal`, `StopNext`, `Join`; `RunReturns` of each thread | between two `stop` calls |

`pc[t]` is the thread's position in a handler that was cut, `cur[t]` the session whose `shared_ptr` the
handler holds; `rd` is the read that is outstanding, `writes` the writes. `sendQue` and `written` hold the
numbers of the requests that are answered; contents of messages are left out, ids are one with a callback,
one without, or one that `handleHeadRead` refuses. `node` is the `recvNode` of every request, and
`msgQue` points into it as the code's `LogicNode` does. `msgQue` is a plain queue: that the logic worker
takes every message, and in order, is what `LogicSystem` shows. The shared-pointer count appears as
`Referenced`. Not modelled: two threads inside the same socket object at once, which has no defined
outcome (each call on a socket is a step before or after the other).

The other six servers have the same state, clients and properties, and handlers of their own; in
`EchoPrograms` the variable `program` says which one runs, and `StartOf`, `ReadOf`, `WriteOf` and the like are what
they call the same thing.

| Server | Module | What differs |
|---|---|---|
| `LogicServer` | `LogicServer` | one io_context run by main; a signal stops it, there is nothing to join |
| `IoThreadPool` | `IoThreadServer` | any thread of the pool runs any handler. Reads and writes of a session go through its strand (`InStrand`), `handleAccept` does not. `clearSession` is a step of its own on every path, since the map has no mutex; when two threads are about to change it (`MapRace`) the model ends (`Broken`) |
| `readAtLeastServer` | `ReadAtLeastServer` | no logic worker: `handleMsgRead` calls `send` itself and then reads the next head |
| `asyncServer` | `AsyncServer` | one `handleRead` takes all the requests that are there, `send` for each, and reads again when they are used up |
| `async` | `RawEchoServer` | bytes instead of messages; a session has one outstanding operation and deletes itself (`closed`); no map |
| `demo` | `SyncEchoServer` | the same with a thread per session; if `accept` throws main returns, or the destructor of `thread_set` ends the process (`terminated`) |

A request is an element of `inbox` with an id; `Sendable` restricts it to what the program can be sent: no ids
in `readAtLeastServer` and `asyncServer` (a length that is too large is their `invalid`), and single bytes in `async` and
`demo`, where every cut of the stream is possible and `sendQue` holds what is left of the array to write. How the two
framed servers find a request in the bytes is the subject of `Framing` and `ReadAtLeast`.

### Framing, ReadAtLeast, FramedServers

`Framing` is `handleRead` of `asyncServer`: `Receive` is `async_read_some` with any number of the bytes
that are under way, and each branch of its loop is an action (`HeadPart`, `HeadInvalid`, `NodeThrows`, `HeadThenPart`,
`HeadThenWhole`, `BodyPart`, `BodyWhole`) on the code's `copyLen`, `left` (`bytesTransfreed` in the code),
`bHeadParse`, `recvHeadNode` and `recvMsgNode`. Bytes are numbers below `Base`, heads are two of them in
network order; the two nodes keep their data, their `curLen` and their `totalLen`. `ReadAtLeast` has the two exact reads
of `readAtLeastServer`. `FramedServers` puts either program behind the socket; `server` says which one
runs. The send queue of the two programs is in `EchoPrograms`: here a message given to `send` is sent.

A length is a signed short in the code, and `HeadValue` is signed: the upper half of the heads is negative. Both programs compare
it with `MAX_LENGTH` only, so a negative length is not refused, and `Status` names what becomes of the session:

| Length | What the code does | `Status` |
|---|---|---|
| `0..MaxLength` | reads the body and echoes the message | `open` |
| above `MaxLength` | `clearSession`, no read follows (`HeadInvalid`, `HeadRead`) | `ended` |
| below -1 | `new char[totalLen + 1]` throws, no handler catches it and it leaves `run()` (`NodeThrows`, `HeadRead`) | `exited` |
| -1 | a node whose array has no bytes. `bytesTransfreed < dataLen` compares as `size_t` and `asio::buffer` takes a `size_t`, so nothing completes this message: whatever follows is put behind the array (`ReadSomeMore`, `MsgReadOutside`) | `open` until a byte follows, then `undefined` |

What happens after a write behind the array is not defined; the model ends there.

### EPollServer

The mutex is held across steps by the main thread in `epoll_wait` only, so `main # "wait"` says that it
is free. Threads are named by the descriptor they were started for and a number: `MaxSame` threads at
work for one descriptor stand for any number of them. `owner[f]` is the client behind a descriptor.
`Recv` turns the number into a connection when `recv` is called, `Send`, `Del` and `Close` use the number
as it is then. A failed call is followed by `errorHandle`, which ends the process (`exited`); so may
SIGPIPE. The client is `client.cpp`: one request at a time, until it is interrupted.

## 3. What TLC checks

| Run | Instance | Question |
|---|---|---|
| `threadpool_safety` | 3 slots, minNum 1, 3 tasks, 1 caller, `m_exitNum` 0 or 3 | counters, bounds, null tasks, refinement of `TaskPool` |
| `threadpool_liveness` | 2 slots, minNum 1, 2 tasks, 2 callers | destructor returns, a busy worker drains the queue, the pool shrinks again |
| `threadpool_stranded` | 2 slots, 2 tasks, 1 caller | violated: a task stays queued while all workers sleep |
| `pool_main` | 3 tasks | violated: a task prints a number that is not its own |
| `databases` | pool: 3 clients, 5 connections, minSize 1, maxIdleTime 2 ticks; connection: 2 clients, 2 connections, 1 statement, 1 row; redis: 2 keys, 2 values and the empty one | pool: exclusiveness, order, producer awake, size, what the recycler closes; all clients served, back to minSize. Connections: own rows, no lost update, results that do not deceive |
| `redis_min` | 2 clients | violated: the configured minimum is never reached |
| `logic_system` | 4 messages, 2 io threads | wake-ups, empty front, order, queue drained |
| `logic_exit` | the same | violated: join never sees the worker return |
| `echo_safety` | seven servers; 2 sessions, 2 io threads and the acceptor, 2 requests each, MAX_SENDQUE 1 | one write at a time, no reply stuck, replies in order, what can leave a session in the map, erasures in their strand, no handler after main, no operation on a deleted session |
| `echo_service` | seven servers; 1 session, 3 requests of every kind, MAX_SENDQUE 1 | refinement of `EchoService`; answered, destroyed, stopped by a signal |
| `framing` | streams of up to 6 bytes, bytes below 4, so lengths -8..7, bodies up to 4 | both parsers, every stream, lengths too large and negative included, and every way to cut it: refinement of `FramedEcho`, no byte lost while the session is open, copies within their buffers but for a length of -1, nothing held back |
| `epoll` | 2 clients, 2 threads a descriptor, 1 request each | one hand for each descriptor, harmless while nobody quits, registered clients answered |

Bounds. Three slots and `NUMBER = 2` let the manager grow twice and ask for one exit more than the
pool can afford; with `minNum` 1 two workers can retire at once, and garbage 3 asks for more exits
than there are workers to spare. Three tasks exceed the workers that are alive, which is what makes
the manager grow. Liveness needs no symmetry reduction and two callers, whose signals can meet. In
the connection pool there is one connection more than `minSize` plus the number of clients, so
`SizeBound` is not a consequence of running out of names, three clients so that two of them can wait for
what a third gives back, and two ticks to `maxIdleTime` so that connections of different ages are queued.
Two connections and two clients let a client get a connection another one has used, and lose its own
to a deletion; one statement is enough for `DurableUnlessTransaction`, which speaks of each statement alone. In the logic system two messages of each kind give every order of known and unknown messages, and two io
threads an open notification of one while the other posts. In the echo programs two sessions share the map
and the logic worker and live on different threads, and MAX_SENDQUE 1 makes two replies fill the queue;
three requests on one connection reach a full queue, which needs one reply more than that. Six bytes
hold two messages with bodies, the longest message and a message that is followed by any head; the length 4 is the longest body
and also the size of the array `data`, 5 to 7 are refused, and -8 to -1 are the negative ones. In the epoll server two clients
are enough for a number to be used again by another client while a thread of the first one is still at
work, and two threads for a descriptor for one of them to be superfluous.

Fairness. Weak fairness of each thread's own steps: a thread that can run runs, and a mutex that is
free again and again is not refused for ever (`ThreadPool`: the steps of a worker that sleeps for a
signal are not enabled and so not owed). No fairness for calling `addTask`, for running the
destructor or for spurious wake-ups; `ShrinksToMin` of the thread pool holds unless spurious wake-ups
never end. The pool also assumes that time passes, that `wait_for` returns after its timeout and
that the recycler's sleep ends (`DbFairness`). In `EchoPrograms` reads, writes and accepts are strongly fair: an io_context
calls completed handlers first come, first served, so a handler whose thread is free again and again has
its turn; clients read what is sent to them, and owe neither a request nor a departure. In `EPollServer`
the threads and main are weakly fair, and `Answered` speaks of registered clients only: a client that was
accepted may have to wait for the next event before its thread gets the mutex.

Violated runs are disagreements between the code and what the repository says about it; they are
described, with the lines, under "findings" in `PROJECT.json`.

What the runs show that is not obvious from the code:

* A task can be stranded in `ThreadPool`, because `addTask` signals without `m_mutex`. The damage is
  limited: a worker that ends a task tests the queue before it sleeps (`BusyWorkerDrainsQueue`), so
  the task waits for the next signal that finds a sleeper, not for ever once work goes on.
* A garbage `m_exitNum`, a request the manager overwrites, and decisions on old sizes never take the
  pool below `minNum`: each worker tests `m_aliveNum` under `m_mutex` before it leaves.
* `AllServed` needs the timeout of `wait_for`. A connection that is given back wakes nobody.
* The producer is never lost (`ProducerAwake`) because only a client's take can bring the queue
  below `minSize`, and that is the one operation that notifies.
* A logic worker that is told to stop never returns, so the destructor's join cannot.
* On `IoServicePool` a session can be left in the server's map for ever, at one place only
  (`LeaksOnlyAtInsert`): its client leaves after `start()`, or its first head is refused, and the session's own thread runs
  `clearSession` before `handleAccept` inserts it. With one io thread it cannot happen
  (`OneContextLeaksNothing`, proved). On `IoThreadPool` the erasure and the insertion would meet at a map without a lock, where
  its model ends (`MapRace`), so this run says nothing about a leak there.
* The size of the send queue decides alone who starts the next write, and that is enough
  (`OneWriteOutstanding`, `NoReplyStuck`); after a failed write the queue is never written again, which
  does no harm because the client has gone.
* The strand of a session keeps its two erasures apart (`ErasesInStrand`): a failed read and a failed write both
  call `clearSession`, and never at the same time. The map is still changed by two threads at once, for two
  sessions, or for an accept and a session; nothing in `IoThreadPool` prevents it.
* A handler never outlives the `Server` on main's stack in the two servers with a pool (`ServerOutlivesHandlers`): main leaves `run`
  only from the handler that has joined all threads.
* In `async` and `demo` a deletion is the last use of a session because there is exactly one operation outstanding
  at any time (`EndedSessionsAreIdle`).
* A client that reads rows only after its own `query` and `next` sees no other client's, although a connection comes
  with the last result and row of whoever had it before (`RowsAreOwn`): `query` frees them first, even when it fails.
* An update that returned true is lost only on a connection on which some client, not necessarily the same, has called
  `transaction`: autocommit is never switched on again. `DurableUnlessTransaction` leaves those connections out, so it
  does not show that loss; it shows that there is no other.
* The results of `set` and `get` of a redis connection can be believed; those of `del` (false for
  success) and `update` (true for a refusal) say nothing (`BelievedIsStored`).
* Both framed servers take a negative length for a valid one, since they only compare it with `MAX_LENGTH`: below -1 it ends
  the program with an exception, and -1 is the one length with which a copy leaves its node (`CopiesFit`) or a read its
  array. For every other stream the two compute the same (`ImplementsFramedEcho`).
* Once a client of the epoll server has quit, a superfluous thread may see the end of the stream a second
  time: its `epoll_ctl` fails and ends the server, or it takes a new client's descriptor of
  the same number out of the list. `OneOwner` is what is left, and it holds because `DEL` under the mutex
  decides who closes.

Some things the code does that no run is about: `maxSize` of `dbconf.json` is parsed and never read (`SizeBound`
is what bounds the pool), and the comment "only the producer can work" in `getMysqlConn` is not so, as
`notify_all` also wakes clients, for which connections may have been given back meanwhile. `transaction`, `commit` and
`rollback` return true when they fail, since they pass on what the MySQL functions return, 0 for success. The send queue
of a session holds `MAX_SENDQUE + 1` replies before `send` reports it as full; `EchoService` gets this as its
`Capacity`.

## 4. What is proved

`ThreadPoolProofs`, for any `MinNum <= MaxNum`, any set of callers and tasks, any initial
`m_exitNum`:

* `TypeCorrect`, `MutexCorrect`: types and the owner of `m_mutex`, by induction over the actions.
* `NullTaskNeverCalled`: the strengthening says that a worker past the test (`leave` without `m_end`,
  `take`) holds `m_mutex` and the queue is not empty, since only a worker that holds it pops.
* `LateStartsBounded`: at most one worker is past its own test of `m_end`, as it holds `m_mutex`.
* `AliveBoundsHold`: `m_aliveNum` is raised under the manager's test and lowered under the worker's.
* `CountsCorrect`: the counters equal the cardinalities of the sets they count; a change of one
  slot changes a set by one element.

The last part proves `ThreadPoolImplementsTaskPool`: each step of the threads is a step of
`TaskPool` or leaves its variables alone. It needs the invariants above and one more, that a task is
in one place: with a caller, in the queue, with a worker, or finished.

`DbProgramsProofs`, for any finite set of clients (`ClientsAssumption`) and any configuration, none included:
`TypeCorrect`, `ExclusiveConnsHolds`, `OldestFirstHolds`, `ProducerAwakeHolds`; `SizeBoundHolds`, by counting: a
connection that changes hands leaves the sum alone because nobody else holds it (`OwnedOnce`), and one is
created only when the queue is short of the minimum; and `RecyclerComplete`, which follows from the order of the
queue: if the front has not expired nothing has.

`MysqlConnProofs`, for any clients, connections and statements: `TypeCorrect`, with the fact that only connections that
exist are held; `RowsAreOwnHolds`; `DurableHolds`, whose strengthening says that a connection where nobody has
begun a transaction has autocommit on, so nothing of it is open. `DbProgramsProofs` carries them and the theorems about the
pool over to `DbPrograms`, each step of which is a step of `ConnPool`, of `MysqlConn` and of `RedisConn` or leaves their
variables alone (`PoolProgram`, `MysqlProgram`, `RedisProgram`), and proves there, for any keys and values, `RedisTypeCorrect` and
`BelievedIsStoredHolds`: what a result teaches about a key is compared with what the command has left stored, command by command.

`LogicSystemProofs`, for any messages and io threads: `TypeCorrect`, `WakeUpPendingHolds` and
`FrontExistsHolds`, from what the worker knows while it owns `lmutex`; and `InOrderHolds`. `InOrder` takes the queue for the end
of what was posted and the rest for taken; `OrderInv` says so by positions (`Behind`, `Served`) and adds that no
message was posted twice (`Once`), so that the drain, which takes everything at once, is argued like serving the front.

`EchoServerProofs`, for any sessions, any pool of threads and any bounds. `TypeInv` is `TypeOK` in parts
(clients, sockets, nodes, replies, queues, threads), so that a step is only looked at where it changes
something, with what induction needs: a session that reads a body has a node for it, and an entry of
`msgQue` points to a node that was read. `WriteInv` says that at most one write is outstanding, for the
reply at the front of the send queue, that a queue without one belongs to a client that has gone, and
that only such a client makes a write fail or has its socket closed. From the two:

* `TypeCorrect`; `OneWriteAtATime`: the logic worker and the io threads never have two writes
  outstanding; `NoReplyLeftBehind`: a reply waits without a write only when its client has gone.
* `OneContextLeaksNothing`: if one thread runs every handler (`Pool = <<Acceptor>>`), a session in the map is
  being read or in a handler that will read again or take it out; `MapInv` adds that a session is inserted
  while it waits for its first head.

`EchoProgramsProofs`, for the seven servers, with any sessions, threads and bounds. A step of any program is first shown
to be a handler of `EchoServer` called by some thread (`IT!On(t)!...`) or one of the few of the program's own (`Steps`), so
that each invariant is proved once for each handler and not once for each server. `EchoInv` has these parts:

* `ThreadInv`: in which handlers the threads of each program can be.
* `ReadInv`: requests are numbered as they are sent, the i-th node of a session holds the i-th request; a thread in a handler that
  will read on is the only one in that session, and nothing is being read meanwhile.
* `WriteInv`: the one of `EchoServer`, for every program.
* `OrderInv`: the replies of a session, written and queued, rise, and are to requests with a callback that were taken; what waits in
  `msgQue`, or is about to be sent, comes after all of them and rises too. `RepliesInOrder` alone is not inductive: a
  reply is put behind the others because its request waited in `msgQue` behind theirs.
* `ByteInv`: a session of `async` or `demo` has one operation outstanding unless it is deleted.

`MapInvs` adds that a server with one thread reads a session while it is about to insert it (`InsertReads`), and with that
`ErasesInStrand` and `ServerOutlivesHandlers` are inductive. The theorems are `ProgramsWriteOneAtATime`, `ProgramsLeaveNoReply`,
`ProgramsReplyInOrder`, `EndedSessionsStayIdle`, `ErasuresInStrand`, `ServerOutlives`, and the action property `LeaksAtInsertOnly`: of
the steps that take a session out of the hands of all threads and reads, only the insertion leaves it in the map.

`FramingProofs`, for any base, any longest body and any stream, cut in any way. `ParserInv` is what `handleRead` of `asyncServer`
relies on between two rounds of its loop: with a head (`bHeadParse`) there is a node of exactly the length that the head
says, of which some is missing, or the length is -1 and the node has no room at all; a head without it is short; what is dealt
with and what is left are no more than the bytes of the call.

* `CopiesStayInside`, `EverythingEchoed`: the only node that a `memcpy` leaves is that of a length of -1, and no complete message waits.
* `StreamKept`: each round keeps the bytes in hand (`KeepsAll`), gives a whole message to `send`, or is over with the session
  (`Overruns`, or a length that ends it), and nothing else moves any, so `sent \o Kept \o net = wire` while it is open.
* `StepsOfFramedEcho`: each step of either server is a step of `FramedEcho`, under the mapping of the run, or a stutter. The message
  that goes back is the one that came in because two bytes hold a length in one way only (`HeadOfLength`), which for a length
  that is not negative is the number they spell (`LengthOfHead`). What ends a session is the length in front of what is not
  echoed (`StopsAt`), with the same outcome in both programs.

`EPollServerProofs`, for any clients, any number of threads per descriptor and of requests: `TypeCorrect`,
`OneOwnerHolds` and `HarmlessThreads`. `HandInv` says who has a descriptor in hand without counting; every action moves at most one
descriptor from one hand to another, and `DEL` moves it only from the list, so for one thread. `ClientInv`,
that a client has one connection, is what makes `accept` find a free number: there are as many numbers as
clients, and the one at the front of the backlog has none (pigeonhole); that there is a lowest one is
`LeastElement`, from the library's theorem about the ordering of finite subsets.

`HarmlessThreads` needs `QuietInv`: while no client quits, a thread finds the same client behind its descriptor all the time
(`SameOwner`), and the last request of a client is answered, or on its way, or with exactly one thread that is about to send
it back (`Answering`).

`MutexCorrect`, `OneContextLeaksNothing`, `StepsOfFramedEcho` and the `TypeCorrect` theorems speak of formulas no run checks; the others
are checked too. Every safety invariant that a run checks is proved.

Only model-checked:

* All liveness properties, and with them the fairness in `ImplementsFramedEcho`: the prover has no rules for fairness.
  `StepsOfFramedEcho` is the rest of that property.
* `ImplementsEchoService`. Its mapping filters `msgQue` with `SelectSeq`, and `Receive` sorts a set with
  `SetToSortSeq`: both take an operator, which the provers cannot instantiate. `ProgramsReplyInOrder`
  has the order and the uniqueness of the replies, not that only a full queue drops one.

## 5. Plan

Done: the thread pool and its program, both connection pools and their connection objects, the logic system, the
seven echo servers, the framing, the epoll server. What is left, in this order:

1. Proofs: the steps of `EchoService`, with `Receive` and the mapping restated without operators as arguments, so that
   what is dropped and why is proved as well as the order.
2. The connection objects inside the pool instead of beside it: `MysqlConn` on the names of `ConnPool`, in an instance that
   TLC can still finish.

## 6. Not modelled

* `boost/other`: no program uses the class, and it cannot run: its constructor never stores the socket it is given,
  so each operation starts with a null pointer. `endpoint.cpp` shows one call of the library per function.
* The clients of the boost servers and the demo: sequential, pure I/O; they are the environment of the echo programs.
* `CppFeature`, `concurrency`, `jsoncpp`, `test`, the scratch tests of `Mysql` and `redis`: demonstrations without
  state of their own.
* Outcomes the language does not define: destruction of the thread pool under its detached workers, of the
  connection pool beside its recycler, of main's io_context in `LogicServer` while the logic worker may call `send`;
  use of one socket from two threads; a map that two threads change; commands on a freed redis context. Where a
  model can reach the beginning of one, it ends there.
* Values: SQL and redis strings, and the contents of echoed messages (except in the framing). In the echo programs a request is
  valid or refused: negative lengths, which `LogicServer`, `IoServicePool` and `IoThreadPool` do not refuse either, are modelled
  in `Framing` and `ReadAtLeast` only.
* Failures of `pthread_create`, whose result the thread pool ignores: it counts such a thread as alive, and `AccurateCounts` would
  not hold.
* In the epoll server a `recv` takes one whole request. The repository's client writes one buffer and waits, but TCP may cut it,
  and two threads could then take a part each.

`PROJECT.json` lists every component with its status.
