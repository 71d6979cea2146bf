# A TLA+ model of mprpc-advanced

`mprpc` is an RPC framework in C++: a provider registers its methods in
ZooKeeper and serves them from an epoll reactor; a client finds a provider in
ZooKeeper, chooses one by consistent hashing and calls it over a connection of a
pool. This directory holds TLA+ modules for its parts, small instances of them
for TLC, and proofs for TLAPS. Paths below are those of the
repository; `connpool.cc` and the like are under `src/`.

## The system

| component | state | operations | used by |
|---|---|---|---|
| ConnectionPool (`connpool.cc`) | `m_connMap`, `m_curConnCount`, `m_stop`, the mutex and the condition variable | GetConnection, CreateRealSocket, ReleaseConnection, the cleaning thread, the destructor | every RPC task, one thread each |
| RPC task (`mprpcchannel.cc:230-272`) | its descriptor, response, controller, `done` | get, send, recv, parse, release or close, run `done` | `CallMethod`, in the caller's thread or in a detached one |
| Route cache (`mprpcchannel.cc:23-179`) | `g_route_cache`, its mutex, the watch in the ZooKeeper client | lookup, first fetch and store; `ZkChildWatcher` | the callers and the ZooKeeper client's thread |
| ConsistentHash (`include/ConsistentHash.h`) | `m_ring` | AddNodes, GetTargetHost | route cache |
| Reactor (`tcpserver.cc`) | epoll set, `m_connections`, `users_timer`, the socketpair of the signals, two flags | accept, hang-up, read, signals, heartbeat, `removefd` | one thread; peers, clock and signals act beside it |
| Timers (`include/lst_timer.h`) | an array heap of `util_timer` | add, lazy delete, adjust, tick | reactor |
| TcpConnection, Buffer | state, input and output buffers | HandleRead, HandleWrite, Send, Shutdown | reactor, provider |
| RpcProvider (`rpcprovider.cc`) | table of services | Run (registration), OnMessage, SendRpcResponse | reactor |
| ZkClient (`zookeeperutil.cc`) | session handle | Start, Create, GetData, GetChildren | provider, route cache |
| ThreadPool (`include/ThreadPool.h`) | queue of tasks, `stop` | enqueue, workers, destructor | the example caller; the reactor makes one and never uses it |
| Log, BlockQueue | queue of lines, the file | init, write_log, the writing thread | all |
| Application, config, controller | settings, error text | LoadConfigFile, Load, setters and getters | all |
| Generated protobuf code | messages | Clear, parse, serialize, ByteSizeLong, MergeFrom | channel, provider, examples |
| Example caller, callee | requests, `completed_count` | enqueue, wait for the last response; Login | - |

Calls run client thread -> route cache -> pool -> socket -> reactor ->
connection -> provider -> user service, and back over the same socket. The two
sides share nothing but the socket and ZooKeeper. Within a process the shared
state is the pool, the route cache, the log and, easily forgotten, the
descriptor table: a number is reused by whoever opens next.

What is hard:

* *Pool.* The connect is made outside the lock for a place taken inside it;
  descriptors are closed and reused under the callers; one condition variable
  serves the callers of all hosts, with `notify_one` after the unlock. It is
  correct if a descriptor has one owner, leads to the host it is used for, the
  limit holds, nobody sleeps beside something he could have, and everything is
  closed in the end.
* *Reactor.* Edge-triggered and one-shot events, handled a while after they
  were reported; timers that are never removed but cleared; a connection closed
  in three ways, twice each time. It is correct if no readiness is lost, every
  connection has one live timer with the right time left, silent connections and
  only they are closed, and the heartbeat and SIGTERM always get through.
* *Route cache.* Lists fetched outside the lock by several threads, one-shot
  watches, failing requests, a session that expires. It is correct if news
  always arrives and the cache ends up equal to ZooKeeper; the code is so only
  between failures and while the session lives.
* *Connections and provider.* Requests that arrive in pieces or together,
  responses that are sent in part, idle connections the two sides time out
  differently (15 s at the server, 60 s in the pool). It is correct if every
  call ends, with its own answer or with a failure, and leaves nothing behind
  on its connection.
* *Registration.* Two providers, or two lives of one provider, against
  ZooKeeper's sessions, with `exists` and `create` as two requests. It is correct
  if a race leaves somebody, a provider that serves can be found, and nodes
  without a server go.
* *Log.* A full queue, lines that overtake each other, a file that is reopened
  under the writers. It is correct if a line ends in one place, the queue keeps
  its order, and a null file is never used while fopen succeeds.
* *Asynchronous caller.* Workers notified after the unlock, a main that waits
  under a mutex its notifier does not take. It is correct if no task is left
  beside sleeping workers, results are complete when main takes them, and main
  returns.
* *Bytes.* Requests framed by a length, cut anywhere by a read; two messages in
  one read; fields at their defaults; a configuration file as a person writes
  it. It is correct if nothing is ever parsed to something that was not sent.

## Modules

| module | what it is |
|---|---|
| `ConnLease` | what the pool promises, without lock, counter and clock |
| `ConnPool` | the pool and what a call does with it; implements `ConnLease` |
| `ConnPoolProofs` | theorems about `ConnPool` |
| `TcpServer` | the reactor with its timers |
| `TcpServerProofs` | theorems about `TcpServer` |
| `TimerQueue` | what a container of timers promises |
| `TimerHeap` | the array heap; implements `TimerQueue` |
| `TimerHeapProofs` | theorems about `TimerHeap` |
| `HashRing` | the ring of consistent hashing, as operators |
| `RouteCache` | route cache and watcher; uses `HashRing` |
| `RouteCacheProofs` | theorems about `RouteCache` and `HashRing` |
| `Buffer` | the byte buffer, as operators on records |
| `RpcCall` | what a call promises its caller: executed at most once, ended once |
| `RpcExchange` | calls, their requests and answers over pooled connections, at both ends; uses `Buffer`, implements `RpcCall` |
| `RpcExchangeProofs` | theorems about `RpcExchange`, with those about `Buffer` and `Wire` |
| `Registration` | providers that publish themselves, ZooKeeper's nodes and sessions |
| `RegistrationProofs` | theorems about `Registration` |
| `WorkerPool` | the thread pool's own steps |
| `Caller` | the asynchronous caller; composed with `WorkerPool` |
| `CallerProofs` | theorems about `Caller` and `WorkerPool` |
| `AsyncLog` | the log, its queue and its file |
| `AsyncLogProofs` | theorems about `AsyncLog` |
| `Wire` | the messages as bytes: clear, serialize, size |
| `Codec` | the same read: parse and merge; uses `Wire` |
| `Config` | the configuration file, as operators |
| `RpcBytes` | a provider and a client from the bytes they are given; uses `Codec` and `Config` |
| `MC...` | the sets TLC instantiates them with |

An operator commented `Mutant` is a deliberate mistake. Each names a plausible
bug in one definition; put in its place it makes TLC report the property that is
meant to catch it. No specification uses them.

### ConnPool

A step is what one thread does between two places where another may run: a
critical section of `m_mutex`, a system call made outside it, the `notify_one`
after the unlock.

| code | model |
|---|---|
| `m_connMap[key]` | `connMap[k]`, a sequence of `[fd, age]`; `age` is the time since `last_active_time`, saturating one tick after the limit |
| `m_curConnCount`, `m_stop` | `curConnCount`, `stop` |
| `clientfd` of a task | `held[c]`, with `pc[c]` for where the call is |
| the process's descriptor table | `sock[fd]`: closed, open and unconnected, or the host it leads to |
| GetConnection | `GetConnection` (`TakeIdle`, `Block` or `ReserveSlot`), `Resume` after a wake-up, `SpuriousWake` |
| CreateRealSocket | `SocketOpen`, `SocketFail`, `ConnectOk`, `ConnectFail`, and `Rollback` for the place given back |
| rpc_task | `ReleasePush` when it succeeds or the response does not parse, `UseFail` when send or recv fails |
| ReleaseConnection | `ReleasePush`, then `ReleaseNotify` after the unlock |
| CleanIdleConnections | `CleanerCheck` (the loop condition) and `CleanerSweep` (one pass under the lock) |
| ~ConnectionPool | `DtorStop`, `DtorDrain` once the thread is joined |

A waiting call is one with `pc = "waiting"`; `notify_one` moves any one of them
to `"woken"`. `m_stop` is a plain bool read without a lock; the model takes the
store to become visible. The destructor of the singleton starts only when the
calls have returned: a client that exits while calls run in detached threads is
outside the model.

### TcpServer

One thread loops through `phase`: `"wait"` (epoll_wait), `"batch"` (the events
it returned), `"tick"` (timers) and back, or `"stopped"`. Each event is one
action. `events` is what epoll_wait returned, so a handler acts on readiness
that may be old. Peers, the clock, SIGTERM and other threads act between any
two of these steps.

| code | model |
|---|---|
| EPOLLONESHOT, EPOLLET | `armed[fd]` for connections; `ready` for the two control descriptors, consumed by epoll_wait |
| `m_connections` | the descriptors with `owner[fd] = "conn"`, and `closing` between the two closes |
| `users_timer[fd].timer` | `timerOf[fd]` |
| the heap | `heap`, a set of addresses; `timer[t]` is the object, `live` says that `cb_func` is set |
| `expire` | `left`, the time to go |
| `time(NULL)` read once by tick | `due`, the timers that had run out then |
| `removefd` | `RemoveFd` (epoll_ctl, close) and then `EraseConnection`, the destructor's close of the same number |
| `sig_handler`, the socketpair | `signals`, a set: the handling does not depend on order or number |

An address freed by tick is reused by the next timer, which is how an old
pointer would come to name a new object. After a second close hits a file of
another thread, what that thread then does with a number that is no longer its
own is not followed.

The branch for EPOLLOUT (`tcpserver.cc:202-218`) is not modelled: nothing
registers EPOLLOUT, so it never runs. A read takes everything there is; what
the requests contain, and a read error other than the end of the stream, are
not part of this module. The failure of epoll_wait itself, and accept failing
for want of descriptors, are left out; `RoomForFd` keeps the process below its
limit, and the hazard list says what happens beyond.

### TimerHeap

`array` holds the addresses, `timer` the objects that exist; `cb_func` is `live`.
The slots beyond `cur_size` are left out, so reading one is an error of the model
(TLC stops), whatever pointer the code would find. `AddTimer`, `DelTimer`,
`AdjustTimer` are the methods, tick is `TickStarts`, one `TickOne` for each timer
it pops, and `TickEnds`. `time(NULL)` may return any of `Times`, so a timer may
run out before older ones. The two percolations are functions of the hole's
place, recursive as the loops are: `PercolateUp` at a place is `PercolateUp` at
its parent with that parent come down, `PercolateDown` the same with the first
child. In `TcpServer` the heap is a set with the promises of
`TimerQueue`.

### HashRing and RouteCache

A ring is a function from places (hashes) to hosts; a host stands at as many
places as it has virtual nodes, and `GetTargetHost` is `lower_bound` with the
step around the end. `Hash` is any function that keeps virtual nodes apart. If
two of them had one of the 2^32 hashes, the later in the list would win, and
lists with the same hosts in another order could differ; that is left out.

One method; a cached list is a set of hosts, `NoRing` when there is no entry, and
the ring is built where it is used. A lookup, a fetch and a store are separate
steps of a call (`LookupHit`, `LookupMiss`, `Fetch`, `FetchFails`, `Store`,
`Route`) and of the watcher (`WatcherCalled`, `WatcherIgnores`, `WatcherFetch`,
`WatcherFetchFails`, `WatcherStore`), because the lock covers each lookup and each
store alone. ZooKeeper is external: `children` changes at will, `Fetched` sets the
one-shot watch, and a change of a watched list puts one event into `fired`.
`blind` is a history variable: the last fetch was one of the watcher's that
failed.

The client has one session, made under `g_zk_init_flag` and never again.
`SessionExpires` ends it at any time: the watch goes, the watcher is called with
ZOO_SESSION_EVENT (`notice`, behind the events that have fired before) and drops
it, as it drops every type but ZOO_CHILD_EVENT (`mprpcchannel.cc:36`), and from
then on every fetch fails. What is cached then stays for good, unwatched, with
`blind` false unless the watcher was about to fetch. `WatchKept` and `NewsArrives` are
about the session's life, and `RoutesAgree` about all times. A lost connection is
no step: the library keeps the watch and sets it again, and a fetch meanwhile
is one that fails. The session is taken to be there from the first state, since
every call waits in `call_once` until it is.

### Buffer

A `Buffer` object is a record of the vector and the two indices, each method an
operator that returns the object as the method leaves it. A byte of the vector
that nobody has written is `Zero`, as `resize` leaves it; what is left behind
the writer index is kept.

### RpcExchange

The two ends of the connections and what is between them. A request is three
pieces (length, header, arguments), a response two, so that each boundary that
matters to the code can be cut; `up` and `down` are what TCP holds in each
direction.

| code | model |
|---|---|
| rpc_task | `GetIdle`, `GetNew`, `GetFails`; `Send`, `SendKills`; `Recv`, `RecvEnd`; `IoFails` |
| the result of recv | `got[c]`; `pc[c]` is `"ok"` or `"failed"`, as `SetFailed` was not or was called |
| the pool | `link[n]`, the client's end: idle, in use, closed |
| HandleRead and OnMessage | `Serve`, `Drop`, `Throw`: what has arrived is taken as one request |
| Send, HandleWrite | `Answer`: append to `out[n]`, one send of all or of a part, `Retrieve` |
| `removefd` | `Kick`: the server's end is closed, what was unread or unsent is lost |

One recv is all a call does, and what it has read is parsed whatever it is:
`Parsed` says that nothing parses as well as a whole response, and that anything
else may or may not. At the server a missing header parses as an empty one, and
`substr` behind the end of the bytes throws through the event loop (`Throw`),
which nothing catches. A user service may do anything; here it answers in
`CallMethod`. `frayed[n]` is a history variable: a message of connection `n` has
been taken in parts. The properties that hold only for whole messages name it;
`StreamKept` and `EveryCallEnds` do not need it.

`RpcCall` is a call as its caller sees it: `outcome`, whether the request was
`executed`, and whether some message has come apart. `Outcome` reads the first
off `pc` and `got`: a call that ended without an error is answered, was given
nothing (recv returned 0) or something else. A request is executed at most once
and only after it was asked; an answer comes only after that; anything else is
given to a caller, and a request executed without its arguments, only when
messages came apart. That the provider may execute a call after it has failed,
or one that then gets nothing, is part of the promise: there are no retries in
the code, so this is at-most-once with an unknown outcome.

The pool is simpler here than in `ConnPool` (no limit, no waiting), and the
server's timers are a `Kick` at any time: what is asked is what happens to a
call, wherever the two fall.

### Registration

A provider's `pc` goes through ZkClient::Start (`Start` or `InitFails`,
`SetContext`, `Connected`), then for the service, each method and the host's node
in each method through `Exists` and `Create`, the two requests of
ZkClient::Create, then `Listen` or `ListenFails`. The order of the methods is that
of an `unordered_map`, hence any. `dirs` are permanent nodes, `node[m][h]` is the
life of `h` that made the ephemeral node, `live[h]` the lives with a session. A
create that is refused ends the process, and its session lives on until it expires
(`Expire`). Faults of the environment are counted by `faults`: a zookeeper_init
that returns null, a kill, a lost request or answer, a session that expires under
a running process, a connection event before the context is set or on a later
reconnection (both post a semaphore that is not there), a bind or listen that
fails. TcpServer::Start looks at the result of neither (`tcpserver.cc:97`): the
provider is then `"deaf"`, its loop runs and SIGTERM ends it, its session and its
nodes stay, and nothing listens on the port they name. The histories say what a
serving provider is excused by: `inherited` (it found a node of an earlier life)
and `skipped` (its exists failed, which the code takes for "is there");
`lastMaker` is there for the proof.

### WorkerPool and Caller

`WorkerPool` has the steps of `ThreadPool.h`: the section of `enqueue`
(`Emplace`) and the `notify_one` after it, a worker that takes, sleeps or leaves,
the destructor's three parts. `Caller` composes them with main and the calls:
`Enqueue`, `Notify`; `Test` and `Asleep`, because the predicate of `cv.wait` is
tested under a mutex the notifier does not take; `StartCall` or `DropCall` for
what a worker's CallMethod does; `Respond` and `LastNotifies` for `done`. `missed`
records that the only notification fell between main's test and its sleep.

### AsyncLog

A step is a section of `m_mutex` or of the queue, or the reading of the clock
before them. `Stamp`, `Rotate`, `TestFull`, then `Push` or `Direct` are
write_log; `Pop` and `Put` the writing thread. The steps named `...Crashes` use a
null `FILE`. `Exit` may come at any time after init: the queue's lines are lost.
A file is open or not; which file it is, and buffering (flush), are left out.

### Wire, Codec, Config, RpcBytes

`Wire` and `Codec` have, for the four messages, what protoc generated: fields in
their order, tags, defaults that are left out, unknown fields skipped, and the
nested message of a response, which is there even when it is empty. `Parse...`
gives the set of results, empty when the bytes do not parse. The library under it
(varints, lengths) is external. A length or number of 2^31 or more is negative, as
in an int; `SizeOf` keeps sizes beyond 2^30 at 2^30, since TLC's integers end at
2^31 and every message is shorter.

`Config` reads a file of characters as fgets, Trim and find do. `RpcBytes` starts
a provider from such a file and then makes calls over one connection: `Call` sends
a frame; `OnMessage(k)` takes the first `k` bytes that are there as one request,
with the rest taken by a later read, `Dies(k)` is the exception that `substr`
throws; `Recv(k)` parses the first `k` bytes of the answers; `RecvEnd` is the end
of the connection. So half a request, half a response, and the rest of an old
response before a new one all occur.

A configuration value of spaces alone is kept as it is unless the file ends
with it, since `Trim` finds nothing to keep; a line that does not fit into `buf`
is read as two. The provider loads `rpcserver_ip` and `rpcserver_port`
(`rpcprovider.cc:32`), which `start_cluster.sh` writes; `bin/test.conf` has
`rpcserverip` and `rpcserverport`, so with it the provider has no port.

## Runs

Every `cfg` has `CHECK_DEADLOCK FALSE`, because each system may really stop: the
calls are done and the pool destroyed, the server has stopped, the providers no
longer change.

| run | what it checks | instance |
|---|---|---|
| `pool_safety` | types; one owner per descriptor; a call's descriptor leads to its host; counted places cover open connections and those being made; a sweep leaves nothing stale; `ConnLease` is implemented | 3 calls, 2 of them may fail, 2 hosts, 3 descriptors, limit 2 |
| `pool_onehost` | no wake-up is lost; every call returns; idle connections are reclaimed; the destructor ends | 3 calls that do not fail, 1 host, limit 2, fair |
| `reactor` | a live timer of its own for each connection, with the right time left; no readiness lost; silent connections are closed; SIGTERM ends the loop | 2 descriptors, 2 timers, late FINs, other threads, fair |
| `reactor_latefin` | *violated*: tick closes only connections that were silent for the whole timeout | 1 descriptor, 3 timers |
| `timer_heap` | each timer is in the array once; parents run out first; `TimerQueue` is implemented | 6 timers, 3 times, capacity 2 at first |
| `route_watch` | while the session lives, a cached list stays watched unless the watcher's fetch fails; calls with one key agree on its host; news that is on its way arrives | 2 calls, 3 hosts, 2 virtual nodes each, 3 changes, failing fetches, an expiring session, fair |
| `rpc_split` | the output buffer keeps the stream; a call gets its own answer, while messages are whole; every call ends; `RpcCall` is implemented | 3 calls, 1 refused, 2 connections, parts, vectors of 3 bytes at first, fair |
| `rpc_unserved` | *violated*: a call that does not fail was executed | 2 calls, 1 connection, whole messages |
| `registration` | a race leaves somebody; a serving provider has published its methods or is excused; host nodes find a server or go, but for a failed bind; somebody comes to serve | 2 providers, 2 methods, 2 lives each, 1 fault, fair |
| `async_log` | a line ends in one place; only a failed fopen leads to a null file; the queue keeps each writer's order; queued lines are written | 2 writers, 3 lines each, a queue of 2, 2 days, 1 failing fopen, fair |
| `caller_wait` | no task beside sleeping workers; results are complete when main takes them; main returns | 3 workers, 5 requests, fair |
| `rpc_bytes` | the configuration is what the file says; a request is run whole or in part and never as something else; a response is read as the answer or a part of it, and an executed request has one with bytes; sizes are lengths; messages read together are merged | every file of up to 6 of 6 characters, 2 calls, 2 requests, 2 methods, 2 verdicts |

Two runs are violated: there the code does not do what its comments or the
README of the repository say.

* `reactor_latefin`: a FIN between epoll_wait and HandleRead leaves a live timer
  that later closes another connection (`tcpserver.cc:193`; `lst_timer.h:209`).
* `rpc_unserved`: an ended connection reads as an empty response, which parses,
  and a call succeeds that nobody executed (`mprpcchannel.cc:249`;
  `mprpcchannel.cc:267`, `calluserservice.cc:92`). The connection may be the
  call's own new one, as in the shortest trace, or one from the pool.

Other things the models show about the code need no run to say them; they are
among the hazards in `PROJECT.json`, with the step of the model at which they
happen. A task whose send or recv fails closes its connection and leaves it
counted (`mprpcchannel.cc:242`). `notify_one` may wake a call for another host,
which sleeps again (`connpool.cc:111`). `removefd` and the destructor close one
number twice (`tcpserver.cc:47`). A first fetch may overwrite a newer list of
the watcher (`mprpcchannel.cc:171`). A client whose session has expired keeps its
lists for good (`mprpcchannel.cc:36`), though the repository's README (line 19)
has it follow the providers without a restart. A provider whose bind failed runs
on and stays published (`tcpserver.cc:97`). A restarted provider may be left without a
node (`rpcprovider.cc:65`). CallMethod's early returns never run `done`
(`mprpcchannel.cc:163`).

Properties hold under the conditions they or their runs name. `pool_onehost` has
one host and no failing call because waiting calls may starve otherwise;
`WatchKept` and `NewsArrives` except a failed fetch of the watcher and the expired
session, and `NewsArrives` starts when no first fetch is in progress;
`NodesLeadSomewhere` excepts a provider whose bind or listen failed;
`SomeoneSurvives` and `SomeoneServes` are about times without a fault;
`MainReturns` excepts a dropped call and the missed notification.

### Bounds

* Three calls are what a pool of two connections needs for one call to wait
  while others connect, fail and release; two hosts are what it needs for a
  descriptor or a wake-up to go to the wrong one. Three descriptors allow a
  closed number to be reused while two are open.
* `MaxIdleTime = 1`: an item is fresh, at the limit, or stale; ages beyond are
  alike.
* Two descriptors and two timers, or one descriptor and three: a connection, its
  retired timer and another connection on the same or a different number.
  `RoomForTimer` bounds how many
  connects and requests may be outstanding, never what the reactor does.
* `TIMESLOT = 1`, so a connection times out after three heartbeats as in the
  code. A counter `silent` stops at the timeout.
* `MaxChanges = 3`: a change during a first fetch, one during the watcher's, and
  one more to bring the news. Hosts come and go one at a time. The session
  expires once at most, which is no bound: nothing makes another.
* A first vector of three bytes and responses of two: a second response behind
  a part of the first makes the buffer move its bytes or grow. Three calls, one
  of them without an answer, put two calls one after another on a connection
  beside a third. At most two connections are ever made (`Conns`); `GetFails`
  stands for the rest.

* Six timers give percolations over two levels, at elements with two children,
  one and none, and two doublings of the array; three times give ties and both
  orders.
* Three hosts are needed for `RoutesAgree` to say anything: two lists that both
  hold both targets are equal when there are two. Six places that take turns
  without a pattern, and keys before, between, on and behind them.
* Two providers race for every directory; a second life meets what the first has
  left; one fault at any step. Two methods: one published, one not yet.
* A queue of two with three lines per writer fills, overflows and drains; a file
  is reopened by its day and after every second line.
* Three workers and five requests: workers sleep, take a second task, and are
  woken for one that is gone.
* Configuration files of up to six characters hold any two entries with a
  one-letter key, comments, blanks around keys and values, a missing end of the
  last line and a line of `BufSize`. Requests with all fields and with none, a
  response with all fields at their defaults and one with a negative number,
  which takes ten bytes; any cut of every message; two calls, so that the second
  finds what the first has left. No field of a request holds a whole frame: with
  one, `RequestKept` fails, since the framing has no marker and a read that
  begins inside that field finds a request in it.

### Fairness

Each thread of the pool that can run does run (`WF` for each call, the cleaner,
the destructor), and time passes. The model asks for no strong fairness of the
mutex: a call that is woken finds it free in the end because sections are single
steps. In the reactor the thread runs and the clock advances; no fairness is
assumed of peers, signals or other threads. In the route cache calls and the
watcher run; providers need not change and the session need not expire. In
`RpcExchange` the client's threads run and each connection is kicked in the end: a
renewed timer puts that off, but a call sends one request and then waits, so
`SilentClosed` of `reactor` shows that the timer runs out. No fairness is assumed
of the provider, which may drop a request, nor of a rest in the output buffer,
which may never be sent. In `Registration` a provider that runs goes on (ZooKeeper
answers) and the sessions of those that do not run end; nothing makes a provider
start, stop or fail. In `Caller` threads run and rpc_task ends (`EveryCallEnds`),
and nothing wakes main but a notification. In `AsyncLog` only the writing thread
is fair.

## Proofs

All theorems are checked by `tlapm` for every value of the constants that meets
the named assumptions of the module.

**ConnPoolProofs.** Assumed: the calls and the descriptors are finite sets, the
markers (`NoFd`, `Closed`, `Unconnected`) are none of the things they stand
beside, the limit is a positive natural number.

| theorem | |
|---|---|
| `TypeCorrect` | `[]TypeOK` |
| `Ownership` | `[]FdConservation` |
| `Endpoint` | `[]RightEndpoint` |
| `SlotsHold` | `[]SlotsAccounted` |
| `LimitHolds` | `[]ConnLimit`, never more open connections than the limit |
| `NothingLeftOpen` | `[]DestructorCloses` |
| `SweepIsThorough` | `SweepMissesNothing`, of every step |
| `WakeupsSuffice` | `[]NoLostWakeup`, for one host |
| `PoolImplementsLease` | `Spec => LeaseSpec` |

The inductive invariant is `IInv`, the conjunction of `TypeOK`,
`FdConservation`, `RightEndpoint` and `SlotsAccounted`. The limit is not
inductive: what keeps a call from opening one connection too many is that its
place was counted before it connects, so the induction is over the count, open
connections plus places reserved for connections being made never exceed
`curConnCount`, and `curConnCount` never exceeds the limit. That in turn needs
to know that a descriptor a call closes or pushes was open and its own
(`FdConservation`), or the cardinalities would not move as the counter does; and
a descriptor that is connected must be the one filed under its host
(`RightEndpoint`). Lemmas give the effect of each queue operation (push, pop,
the sweep, which removes a prefix) on the set of idle descriptors; then there is
one step for each action. Refinement uses the same invariant: a lease is what
`held` holds once connected, and a push, a sweep and a drain map to one step of
`ConnLease` each, the rest to stuttering.

`SweepMissesNothing` is about one kind of step, and needs a fact about the states
before it: the ages along every queue never increase, since a connection is pushed
with age 0 and time passes for all alike. With that, the first fresh item ends the
stale ones. `WakeupsSuffice` has the hypothesis `OneHost`, and no other: calls may
fail. With two hosts it is false, as an idle connection of one is of no use to a
call for the other. It counts: what a waiter could have is bounded by the calls
that hold a wake-up they have not passed on or used. A sweep moves a connection
from the idle ones to the free places and changes no count; each release adds one
connection and one call that is about to notify; a call that takes one thing uses
at most one wake-up. It also needs that a call does not wait any more once the
destructor has begun.

**RouteCacheProofs.** Assumed: `NoRing` is no set of hosts, `MaxChanges` a natural
number, and the virtual nodes' hashes are natural numbers apart from each other.
`TypeCorrect` is `[]TypeOK`, `Watched` is `[]WatchKept`, `KeysStay` is
`[]RoutesAgree`. The inductive `Inv` adds the list the watcher is about to store,
which `WatchKept` does not count as cached, that there are no more events than
changes, and that a live session owes no notice. `RoutesAgree` follows from the
ring: `SameTarget` says that if each of two rings has the host of the other then
the places where the two look-ups stop are on both rings, so neither can be before
the other, whether or not the look-up goes around the end; that least places exist
is well-foundedness of the natural numbers. A call that has been routed had a list
that is not empty (`RoutedHasList`).

**RegistrationProofs.** Assumed: there is a provider and a method, `NoHost` and
`Service` are none of them. `TypeCorrect` is `[]TypeOK`; `RaceLeavesOne` is
`[]SomeoneSurvives` for any number of providers. Without a fault a session does
not end under its process, so a create is refused only because another provider
has made the directory since, and that one is not the one that exits. The
induction needs to know who: as long as there is no fault, the last maker of a
directory has not exited, since whatever it finds made by others was made
before; and a provider that is refused is not the last maker.
`ServingIsPublished` is `[]ServesWhatItPublished`, by an induction over the order of
registration: what a provider has passed it has made in this life, or found made by
an earlier one, or skipped after a failed request; nothing is taken away from it
while its session lives; and before the first step everything is still to do.

**CallerProofs.** Assumed: workers exist, `Total` is positive, `NoTask` is no
request. `TypeCorrect`; `NoSleepOnWork` is `[]NobodySleepsOnWork`, by the
strengthening that workers exit only when the queue is empty for good
(`ExitedLeaveNothing`) and that a worker goes to sleep only beside an empty queue;
`CompleteResults` is `[]ResultsComplete`, by counting: `completed` is the number
of calls that have run `done`, each task is made once (`MadeOnce`), so when the
counter is `Total` every call has.

**TcpServerProofs.** Assumed: descriptors and timers are finite sets, timers are
natural numbers, `TIMESLOT` is positive, the markers are apart from what they
stand beside. `TimersCover` is `[]TimerCoverage`, `EdgesKept` is `[]NoLostEdge`,
`BatchesAreCurrent` is the rest of the inductive invariant:

* `TimersSuffice`: the timers in the heap, the connects that wait and the
  connections with data together are no more than there are addresses. Each may
  come to need a new timer, so the address that `AddTimer` and `AdjustTimer` take
  is one that the heap does not have; otherwise a renewal could
  overwrite the timer of another connection.
* `BatchIsCurrent`: what epoll reported is open, in one list only, and has its
  request unread. A handler works on readiness that may be old; it is one-shot
  that keeps it from being reported twice, and the single thread from being
  closed in between.
* `ClosingIsClosed`: the object whose second close is to come is that of a
  connection that is closed already.

`TimerCoverage` goes by the three ways a timer changes: a retired timer is live
no more, a new one covers its descriptor and no other, and one second less for
all keeps pace with one more second of silence.

**TimerHeapProofs.** Assumed: the times are integers, `Idle` is none of them, the
first capacity is positive; any set of timers. `HeapHoldsEachOnce` is
`[]HoldsEachOnce`, `HeapIsOrdered` is `[]HeapOrdered`, `HeapImplementsQueue` is
`Spec => ImplementsQueue`. The inductive invariant is `TypeOK` with the two
properties.

A percolation is a recursive function, and what it computes is not found by an
induction theorem (that would need an operator as a parameter) but by a least
or greatest counterexample, from well-foundedness of the natural numbers alone:
`UpExists` and `DownExists` show that the functions exist, place by place, so
that their equations may be used; `UpRises` and `DownSinks` are the loop
invariants. They say of the array with the hole filled (`Filled`) that it has
what it had, each once (`HoleMoved`, `HoleClosed`), that every place but the
hole's has its parent in order, and that the timer that moves runs out before
(`Risen`) or after (`Sunk`) all that the hole has passed. `PercolatedUp` and
`PercolatedDown` are what remains when it stops. The refinement needs
`RootIsLeast`: the top runs out no later than any other, once more by a least
counterexample, which is why tick may stop at the first top that has not run
out.

**RpcExchangeProofs.** Assumed: what `Buffer` and `RpcExchange` assume of their
constants. `StreamsKept` is `[]StreamKept`: a send takes the front of what
the buffer has and puts it behind what is on its way (`Answered`), a recv takes
the front of that, so that the two together stay the end of the answers
(`SuffixIs` says what `IsSuffix` means without reversing); the buffer's own part
is `AppendIsFifo` and `RetrieveIsFifo`. `AnswersAreOwn` is `[]OwnAnswer`. Since a call
only compares at the end, the induction must say what is on the connection before:

* `OneUser`, which `CallsApart` states: two calls that send or receive are on
  two connections, each marked busy.
* `OwnRequests`: what is on its way to the server was sent by calls of this
  connection, and is none once the server has closed.
* `WholeMessages`: on a connection where nothing was cut there is at most one
  request, of a call that has sent it or has failed since, nothing left in the
  output buffer, and, when it is idle or was never made, nothing on its way in
  either direction. This is what makes reuse harmless: a failed call closes its
  connection, a successful one leaves it empty.
* `OwnExchange`: the call that uses the connection finds there nothing, or its
  own whole request and no answer, or no request and its own whole answer, and has
  then been executed.

`CallsAreExecutedOnce` is `Spec => ImplementsCall`. It needs a second
invariant beside the first, `CInv`, which counts rather than looks at whole
messages: a request begins with a size, the provider executes what begins with
one, so while a call's size is on its way (once, `SizeOnce`) the call has not
been executed (`NotBeforeRead`), nor has one that has not been sent
(`NotBeforeSent`); and a result is written only for a call that was executed
(`AnswersServed`). A step takes bytes from the front or loses them all and so
keeps this (`Fewer`); only `Send` puts a size there. Then `Send` is `Ask`,
`Serve` is `Execute`, a recv is `Answered` or, when a message came apart,
`Misread`, the end of the stream `GetsNothing`, and what concerns only
connections is a stutter. This holds with messages in parts too.

The same module begins with `Buffer`. For every initial size and every position of
the indices: `AppendIsFifo`, `Append` puts its bytes behind what can be read,
whichever way room is made; `RetrieveIsFifo`, `Retrieve` takes exactly what it is
told from the front; `NewIsEmpty`. `Buffers`, the indices in order and within the
vector, is the invariant the three keep. The lemmas say what can be read after
`MakeSpace` and after the copy, index by index.

The last part is about `Wire`: `HeaderFits`, `ResultCodeFits`, `RequestFits` and
`ResponseFits` say of every message that `_InternalSerialize` writes exactly the
bytes that `ByteSizeLong` has counted, with which the buffer is made. The fields
are any bytes no longer than a message may be (2^31 - 1, protobuf's own limit),
the numbers those of an int, `args_size` not negative since the model has no
uint32 beyond 2^31. `Varint` is a recursive function; `VarintExists` is shown by
a least counterexample, and `VarintLength` by its at most five bytes.

**AsyncLogProofs.** Assumed: writers and lines as `LogAssumption` says, and that
`NoLine` is no line. `LineInOnePlaceAlways`, `QueueKeepsOrderAlways` and
`NullOnlyByFailureAlways` are the three safety properties. The invariant has
every logged line somewhere and every other nowhere (`OnlyLogged`), the ways past
the queue exclude it and each other (`OneWay`), and along the way from the file
through the thread's hand to the back of the queue the numbers of one writer's
lines grow (`InOrder`), which is why no line is there twice.
`FileUnlessFailed` says that only the time before init has opened the file is
without one, and that nobody has a line then.

Each inductive invariant was checked by TLC on the instance of the component's
run before it was proved.

Only model-checked: all liveness, which includes `NewsArrives`,
`NodesLeadSomewhere` and the ends of calls, servers and pools; and what is read
and parsed in `RpcBytes`, `Codec` and `Config`. The latter are loops over bytes
and characters, written with recursive operators, and what they compute for
every input needs an induction over the data, which the prover does not take;
`RequestKept` is moreover true only of requests as in `Bounds`. `SizeIsLength`
is checked for the messages that `RpcBytes` reaches, while the four theorems
about `Wire` say the same of every message. The two violated properties are
false, and have a run each instead.

## Not modelled

* *The test scripts, the build, plotting:* not part of the program.
* *Protobuf accessors, arenas, descriptors, copies:* no state of the protocol.
* *ZkClient::GetData and GetChildren, Shutdown of a connection, the rest of
  BlockQueue, the handling of EPOLLOUT:* nothing calls them.
* *A configuration file that cannot be opened:* the process exits
  (`mprpcconfig.cc:8`) before there is anything to configure.
* *The sum `4 + header_size` beyond 2^32 (`rpcprovider.cc:113`):* it wraps in the
  code and saturates in `RpcBytes`. Only a length read out of step gets there,
  and such a request is already not the one that was sent.
* *Formatting and names of log files, flush, the synchronous log, the command
  line, the single caller's printing.*
* *Two virtual nodes with one hash; lengths of 2^31 and more except as such;
  descriptors beyond MAX_FD; accept for want of descriptors; epoll_wait that
  fails; calls that run when the pool is destroyed; main's condition variable
  destroyed under its notifier.* The hazards say what happens.
* *ZooKeeper's own protocol, TCP, protobuf's library:* external, by what they
  promise.

What would come next: `RpcExchange` composed with `ConnPool` and `TcpServer`,
which bring the limit and the timers into one state (the three together are
beyond TLC at the present bounds, but not beyond the proofs); and `Codec` with
recursive functions in the place of its operators, as in `TimerHeap` and `Wire`,
to prove of the generated code that what it writes it reads back.
