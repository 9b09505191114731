# Soil: a TLA+ verification project

Soil is a collection of Go components for network services: connection pools, a
multiplexed TCP client and server, an RPC layer, service discovery and load
balancing, caches and a Redis lock, an HTTP framework and an ORM. This project
models them, checks the models with TLC on small instances, and proves the most
important properties with TLAPS for every value of the constants.

`PROJECT.json` is the index: components, runs, mutants (a plausible bug for
every property, which the property must catch), the map from definitions to
source lines, findings, hazards and theorems.

## 1. The system

| Part | Code | State | What makes it hard |
|---|---|---|---|
| Connection pool | `micro/pool` | idle list, active set, counter, condition variable, recycled wrappers | dials and probes outside the mutex, `Release` racing everything |
| TCP server | `micro/net/server.go` | listener, connections, semaphore, draining flags, contexts | graceful drain: three wait groups, deferred calls, deadlines set by two goroutines |
| Client stream | `micro/net/stream.go` | pending calls, write lock, closed flag | one read loop and many writers on a connection, late answers, torn writes |
| Stream pool | `micro/net/pool.go` | streams, dials in flight, condition variable | recycling, heartbeats, dials outside the mutex |
| Endpoint client | `micro/net/client.go`, `endpoint.go`, `balancer.go` | nodes, failure counts, cooldowns, weights | retries, circuit breaking with plain atomics, `Resolve` racing `Close` |
| RPC | `micro/rpc` | connections, channels, contexts | timeouts that leave a goroutine behind, reused connections, short reads |
| Discovery, gRPC balancers | `micro/registry`, `micro/grpc_resolver.go`, `micro/loadBalance`, `micro/route` | leases, watches, weights | unbuffered channels, one-shot watch, unsigned weights |
| Redis lock | `cache/redis_lock.go`, `cache/lua` | the key and its lease | expiry, scripts that run after their caller gave up, renewal |
| Local cache, write-through | `cache/localCache.go`, `write_through.go` | map, LRU list, size | three structures that must agree, `uint32` sizes, values read outside the lock |
| HTTP framework | `web` | pooled contexts, route trees, token buckets | timeouts with recycled contexts, route precedence, bucket expiry |
| ORM | `orm` | rows, versions, transactions | optimistic locking, chunked inserts, commit and rollback |

The parts meet in stacks. An endpoint client picks a node, takes a stream from
the node's stream pool and makes a Call on it; the TCP server is the other end.
The RPC client takes connections from the connection pool. A gRPC client hears of
servers from the registry through the resolver and picks among them.

## 2. Modules

| Module | Models | Checked by |
|---|---|---|
| `ConnPool` | `micro/pool/pool.go` | `MCConnPool`, `ConnPool_proofs` |
| `NetServer` | `micro/net/server.go` | `MCNetServer`, `NetServer_proofs` |
| `Stream` | `micro/net/stream.go`, with the request ids of `client.go` | `MCStream`, `Stream_proofs` |
| `StreamPool` | `micro/net/pool.go` | `MCStreamPool`, `StreamPool_proofs` |
| `Endpoints` | endpoint lists: parsing, DNS, merging (functions) | `MCEndpointClient` |
| `EndpointClient` | `client.go`, the nodes of `endpoint.go`, `balancer.go` | `MCEndpointClient` |
| `RpcMessage` | the two message codecs, framing, payloads (functions) | `MCRpc` |
| `Rpc` | `micro/rpc` client, server and stub | `MCRpc` |
| `Pickers` | the gRPC balancers and the group filter | `MCDiscovery` |
| `Discovery` | server, registry, resolver; composed with `Pickers` | `MCDiscovery` |
| `LeaseLock` | what a lock with leases promises (abstract) | `RedisLock` |
| `RedisLock` | `cache/redis_lock.go` and its Lua scripts | `MCRedisLock`, `RedisLock_proofs` |
| `LocalCache` | `cache/localCache.go`, `write_through.go` | `MCLocalCache`, `LocalCache_proofs` |
| `Router` | `web/route.go`, `group.go` (functions on trees) | `MCWeb` |
| `Web` | `web/server.go`, `context.go`, the middlewares; composed with `Router` | `MCWeb` |
| `OrmSql` | the statements that the ORM builds and what a database reads in them (functions) | `MCOrm` |
| `Orm` | clients that run statements and transactions; composed with `OrmSql` | `MCOrm` |
| `Slices` | slice operations of `ConnPool` | with `ConnPool` |
| `ConnPool_inv`, `ConnPool_owners`, `ConnPool_books` | inductive invariants of `ConnPool`, and the lemmas that its steps keep them | `ConnPool_proofs` |

Conventions, common to all:

* A goroutine is a program counter (`pc`, `connPc`, `call[c].pc`...). One action
  is what a goroutine does between two points where another can interfere: a
  critical section, an atomic operation, a channel operation, an I/O call.
* A mutex is a variable only where a critical section spans several actions;
  otherwise an action is the critical section, guarded by the mutex being free.
* `sync.Cond` is the list (or set) of goroutines that have not been notified.
  `cond.Wait` is two steps, before and after joining the list, because
  broadcasts sent without the mutex fall in between.
* Clocks are abstracted: an expiry test may go either way whenever the code
  makes it. Deadlines and cancellations are steps of the environment. The token
  buckets of `Web` count in whole ticks.
* What the surroundings may do (fail, close, stall, cancel...) is a variable
  chosen once, in `Init`, from the constant `Envs`, or part of a scenario `sc`
  from the constant `Scenarios`, with the calls or requests to be made. One run
  so covers several surroundings, and a property can say which it is about.
* A definition named `X_Y` is a mutant of `X` and takes no part in the model.
* Services that are not in the repository (TCP, Redis, etcd, gRPC, the database)
  are actions or operators marked external in the map, as general as the code's
  use of them: commands late, lost or executed though the answer was lost.

**ConnPool.** A wrapper (`PoolConn`) is distinct from the connection it
carries, because the code recycles wrappers through a `sync.Pool`: `free[w]`
counts how often `w` is in it. A caller moves from `out` through `locked`, `dial`
or `pingGet` to `hold`, and through `putting`, `pingPut` or `marking` back.
`"reclose" \in env` lets callers keep a handle they have returned.

**NetServer.** A connection moves through `handleConn`'s loop (`loop`, `arm`,
`read`, `frame`, `spawn`) and, on the way out, through its deferred calls in the
order Go runs them: `ExitCancel`, `ExitWait`, `ExitRelease`, `ExitClose`. Wait
groups are the sets of those they wait for. Shutdown ranges over the stored
connections one at a time, as `sync.Map` does. `"again" \in env` lets a second
Shutdown be called at any time after the first (`ShutdownAgain`).

**Stream.** A frame is written in two parts (`WriteHead`, `WriteTail`), which is
what the write lock is for; a write that fails in between leaves the stream
`torn`. `dispatch` takes the entry out of `pending` in one step and offers the
result to the channel in another. `Reused` is the set of Calls that share a
request id because they send one `Request` again. Such a Call is `Stranded` when
the deferred `unregister` of another has removed its entry, so that nobody knows
its channel.

**StreamPool.** A stream is `alive` or not and has `inflight` Calls; both change
without the pool's mutex. Get's branch for a full list after a dial
(`pool.go:120`) is not modelled, because `RoomForDials` shows it cannot be taken.

**EndpointClient.** A node is `<<generation, address>>`, because Resolve makes new
nodes for old addresses; its pool is open or not, which is what `StreamPool`
details. The weighted balancer is modelled atomic operation by atomic operation
(`WrrLoad`, `WrrStore`, `WrrCas`); the others pick in one step. A Call on a stream
ends well, with the server's error, with its context, because the pool was closed,
because the stream broke or was recycled, or because it was refused: doCall
charges the node with the last four. History variables: `charges` counts the
failures charged to a node since its last success, those of closed pools aside,
`overtaken` has the nodes whose MarkFailure an answer overtook between its two
operations, `stores` counts the states that weighted picks have stored, `cLate`
has the Resolves that looked at `closed` before Close.

**Rpc.** A call is the caller (`call`) and the goroutine that invoke starts
(`work`), joined by a channel that the caller closes. `wire` holds what is on its
way on each connection, as bytes; a read may return less than was asked for.
Messages are the byte sequences that `RpcMessage` encodes, in which a string is
one token. Of the pool this module takes what `ConnPool` shows; `PoolGet` is Get by
what it gives: an idle connection, a new one as long as there is room, or an error.

**Discovery, Pickers.** A server goes through Start and Close; its key in etcd is
bound to a lease. The resolver's watch, ResolveNow and the goroutine of Subscribe
are processes. A new list of addresses makes a new picker, while Picks and Dones
of the old one may go on; weights are `uint32`, with the real arithmetic scaled
to `MaxUint`. `credit` is a connection's current weight as an integer and `wrapped`
says that the unsigned one has gone below zero where picks compare it.

**RedisLock, LeaseLock.** A handle is one call of TryLock or Lock with its uuid.
A command travels to Redis (`reply[h] = "req"`), is executed there, and its
answer travels back; a caller that gives up leaves the command `late`, and it may
be executed at any time or never. `granted`, `told`, `lapsed` and `released` are
the history that `LeaseLock` speaks of: Redis grants the lock to one handle at a
time, once; only its own Unlock or the end of its lease takes it away.

**LocalCache.** Nodes of the list are numbered as they are made, so a node that
left the list, or that is in it twice, can be told. A value is a pair
`<<type, data>>`, the two words of an interface, which Get reads without the lock
while Set may write them; `Unsized` values are those whose size `size.go` refuses.
A tick of the cleaner visits any set of keys (`CleanSeen`), as many as the code's
limit allows. `crashed` says what ended the program: eviction past the head of the
list, `log.Fatalln` of the asynchronous Sets, or a Close after the channel was
closed.

**Web, Router.** A path is a sequence of segments and slashes; the tree is the
set of its nodes. A request is a goroutine that goes down its chain of
middlewares to the handler and back up; timeout starts a second one (`late`).
Contexts are pooled (`held`, `ctxs`), so the second one may write into a context
that meanwhile belongs to another request.

**Orm, OrmSql.** A statement is what is sent: the SET list and the WHERE clause as
the tokens written, with parentheses where the builder writes them, and `Value`
reads them as SQL does, in three-valued logic: a comparison with NULL is unknown,
and `Holds` selects the rows of which the clause is true. A client's job is a list
of statements, alone or in DoTx, with hooks, middlewares and retries. The database
applies a statement atomically; its answer may be lost.

## 3. Runs

Passing runs, each with the properties of `PROJECT.json`. A property that is a
conjunction of named definitions is one promise in several parts, and includes
the module's type invariant where it is the structural one.

| Run | Question | Distinct states |
|---|---|---|
| `pool` | `Exclusive`: one owner per wrapper. `ConnsAccounted`: held connections are usable, the counter is exact and within the capacity, Release closes what is open. `NoEntryAfterTeardown`. `SleepersWoken` (liveness) | 44k |
| `server` | `InFlightServed`: requests in flight keep their connection and are answered, within the connection limit. `ShutdownQuiet`: nothing runs when the Shutdown that closed the server has returned nil. `ShutdownReturns` (liveness) | 493k |
| `stream` | `AnswersDelivered`: to the Call that asked, and never dropped at a full channel. `FramesWhole`. `ClosedReleasesCalls` (liveness) | 198k |
| `streampool` | `SlotsKept`: dials have their place, Close leaves no stream. `GetReturns` (liveness) | 156k |
| `client` | `NodesRight`: one node per address with its weight, no pool forgotten. `FailsForCause`: what a Call may fail for, and a node be down for. `WrrFair`: turns follow weights. `CallReturns` (liveness) | 95k |
| `redislock` | `Exclusive`, `UnlockTruth`, `LeaseSpec` (refinement of `LeaseLock`), `LockCallsEnd` (liveness) | 47k |
| `localcache` | `ListAgrees`: map, list and size. `ValuesTrue`. `LiveEntriesStay`: only expired entries are removed. `ExpiredLeave` (liveness): expired ones are | 262k |
| `rpc` | `CallsFaithful`: executed once, intact, under its deadline, and answered with its own answer. `ConnsSound`: an idle connection is quiet, none is lost. `CallReturns` (liveness) | 92k |
| `discovery` | `RegisteredServes`, `PickersEven`: weights, active calls, turns. `ChangesFlow`, `PickEnds` (liveness) | 168k |
| `web` | `RoutesRight`, `ResponseRight`: own, once, as its headers say. `BurstBounded`, `Drained`, `WebEnds` (liveness) | 56k |
| `orm` | `StatementsRight`: what the WHERE clause selects. `RowsSafe`: versions and deleted rows. `TxAtomic`, `ChunksRight` | 15k |

`rpc_late` shows where the code does not do what its comment says: a call that
timed out closes its channel (`rpc/client.go:165`), and the goroutine whose
response "is dropped" panics when it sends.

**Bounds.** Two or three callers, wrappers, connections, streams or handles; one
or two slots. Contention for the last slot needs two callers, reuse of a wrapper
one more wrapper than slots, a lock that is stolen two handles and a lease that
ends. Counters are bounded by the callers, except `MaxInbox` (`NetServer`),
`MaxFlight` (`Stream`, server pings in flight), `MaxLost` (`StreamPool`, streams
lost and dials failed: without it a stream could be recycled each time before a
waiter looks, which real timeouts exclude), `MaxCnt` (`RedisLock`, retries),
`MaxNow` (`Web`, ticks of the rate limiter), `MaxUint` (`Discovery`, the largest
weight: 15, so that weights both wrap and stay clear of it), `CleanMax`
(`LocalCache`, the entries a tick visits: 1, fewer than there may be) and the
`faults` of a scenario. Each scenario of an MC module has the calls that its
question needs; together they take every action.

**Deadlock** is checked where callers go on for ever (`ConnPool`). Elsewhere a
model ends when its last call is over or its server has stopped, and the run says
`CHECK_DEADLOCK FALSE`; that nobody is left waiting is what the liveness
properties say.

**Fairness.** Goroutines that can run do run (weak fairness of each goroutine's
steps). Strong fairness is assumed where a step needs a mutex that others keep
taking (`sync.Mutex` starves nobody: `ConnPool`, `StreamPool`) and of a `select`
with a case that is ready time and again (`RedisLock`'s AutoRefresh). The local
cache's cleaner ranges over a map, whose order Go makes random, so that each key is
visited again and again (strong fairness of `CleanSeen` for each key). Tickers
tick; dials, probes and writes end because they have timeouts. Never assumed:
that a Call ends, that a peer sends or closes, that a context without a deadline
ends, that a Shutdown or Release is called, that a command reaches Redis or its
answer comes back. `SleepersWoken` assumes in addition that callers return what
they were given (`CallersReturn`).

## 4. Refinement

`RedisLock` implements `LeaseLock` under the mapping `owner <- key`: executing
`SET NX` or `lock.lua` with success is `Grant`, a caller that reads the answer is
`Tell`, `unlock.lua` with success is `Release`, the end of the lease is `Lapse`,
and everything else, renewals and the answers to retries among it, stutters. TLC
checks it in `redislock` and TLAPS proves it (`Implements`).

The composed modules take lower ones by what they show: `EndpointClient` takes
of `StreamPool` that a pool is open until it is closed and that Get returns,
`Rpc` takes of `ConnPool` that Get gives a connection nobody else has.

## 5. Proofs

TLAPS checks these for every value of the constants: any number of callers,
connections, requests, streams, handles, keys and values, any limits, any
surroundings in `Envs` or `Scenarios`. The assumptions are the ones named in the
modules (`ConstantsAssumption`, `ServerConstants`...): limits are natural numbers
in the order the code requires, and the tokens for "none" are not members of the
sets they stand beside. Nothing says that a set is finite: where a proof counts,
finiteness is part of the invariant. Bounds that cap a counter for TLC
(`MaxInbox`, `MaxFlight`, `MaxLost`, `MaxCnt`, a scenario's `sets`) are arbitrary
too: the theorems hold for each value of them.

| Theorem | States |
|---|---|
| `ConnPool_proofs.TypeCorrect` | `[](TypeOK /\ RefOK)`, the bound of the idle list in it |
| `ConnPool_proofs.TeardownFinal` | `NoEntryAfterTeardown`, an action property |
| `ConnPool_proofs.ExclusiveOwnership` | `[]Exclusive` |
| `ConnPool_proofs.AllConnsAccounted` | `[]ConnsAccounted` |
| `NetServer_proofs.QuietAfterShutdown` | `[]ShutdownQuiet` |
| `NetServer_proofs.ServedWhileInFlight` | `[]InFlightServed` |
| `Stream_proofs.AnswerToTheAsker` | `[]AnswersDelivered` |
| `Stream_proofs.WholeFrames` | `[]FramesWhole` |
| `StreamPool_proofs.SlotsAlwaysKept` | `[]SlotsKept` |
| `RedisLock_proofs.ExclusiveTheorem` | `[]Exclusive` |
| `RedisLock_proofs.Implements` | `LeaseSpec`: the refinement of `LeaseLock` |
| `RedisLock_proofs.UnlockTellsTheTruth` | `[]UnlockTruth` |
| `LocalCache_proofs.CacheTellsTheTruth` | `[]ValuesTrue` |
| `LocalCache_proofs.LiveEntriesAreKept` | `LiveEntriesStay`, an action property |

Each rests on an inductive invariant, with one lemma per group of actions that
its steps keep it. What the invariants add to the properties is the argument:

**ConnPool.** `RefOK`: who is responsible for a wrapper refers to one; types are
inductive only with it. `LockInv`: who is in Get's critical section holds the
mutex and the pool is not closed, so that every path into `activeConns` has
looked at `closed` in the critical section of the entry (`TeardownFinal`).
`Ownership`: as long as nobody uses a handle it has returned
(`"reclose" \notin env`) and Release has not closed what is left, a wrapper is in
at most one place: idle, taken by the cleaner, owned by a caller, or once in the
`sync.Pool`. `Accounts` is that for connections, in three parts. `Books`: a
wrapper carries an open connection of its own exactly while it is in a place of
the pool, and `connCnt` is both the number of places and dials (`Users`) and the
number of open connections and dials; that the two sums agree is what makes the
counter inductive across a dial, where a slot is counted before its connection
exists. `Capped`: the capacity bounds what is open or being dialled, also after
Release. `Leftover`: after Release, what is still open is idle in the dead pool or
with a caller that is to close or keep it, unless a wrapper is twice in the
`sync.Pool` or on its way there (`Twice`). The step lemmas take what they need
about slices and cardinalities as assumptions (`Slicing`, `Counting`), which
`DataFacts` proves from the library.

**NetServer.** `ConnInv`, `ReqInv`, `ShutInv`: what is in a connection's inbox or
hands was sent on it; a request runs only while its connection is between its loop
and the deferred wait, so the slot and the socket outlast it; an answer is lost
only if the peer left or Shutdown ran out of time; when the Shutdown that closed
the server has returned nil connections may still arrive but get no further than
their deferred calls. `AgainInv`: another Shutdown returns only once `closed` is
set.
`SemInv` bounds the semaphore.

**Stream.** `Delivery`: a Call whose channel is still to be served is known in one
place only (registered in `pending`, in the hands of `dispatch`, or on the list
of `failAll`), its channel is empty as long as it is, and what it was given is an
answer to it or to one that shares its id. `Frames`: `writeMu` belongs to whoever
has written half a frame, that frame is the last on the wire, and what is on the
wire before it is whole frames, until a write fails.

**StreamPool.** `Counted`: `dialing` and `inflight` are the numbers of those they
count, and streams and dials together fit into `maxOpen`. `Charged`: a live stream
is in the list, or somebody has it to close, Close and background included.

**RedisLock.** `Acquiring`: a handle has at most one command under way, waited for
or late, that can acquire the lock, and until it has been executed with success
the handle has not been granted it; this is what makes retries, and scripts that
run after their caller has gone, harmless. `Releasing`: only a caller that was
told of its lock sends an unlock. `Owned`: the owner of the key was granted it.
`Implements` follows by one lemma that says for each action which step of
`LeaseLock`, or none, it is. `Truth`: an answer of `unlock.lua` on its way, and
what Unlock has returned, agree with what happened to the key; leases that ended
and locks that were released stay so.

**LocalCache.** `Entries`: a node carries a value that was Set for its key, and
the map leads from a key to a node with that key. `Getting`: a getter outside the
lock has a node with its key, whatever has become of the map, and what it has read
of the value are words of values Set for that key. `Marks`: what Get and the
cleaner have seen to be past its deadline really is, at the time of the delete
too. `Through`: what a write-through Set is about to cache has been stored.

**Only model-checked.**

* Liveness: `SleepersWoken`, `ShutdownReturns`, `ClosedReleasesCalls`,
  `GetReturns`, `CallReturns`, `LockCallsEnd`, `ExpiredLeave`, `ChangesFlow`,
  `PickEnds`, `WebEnds`. Fairness and `ENABLED` are outside the prover.
* What folds and recursive functions compute: `NodesRight`, `FailsForCause`,
  `WrrFair`, `ListAgrees`, `PickersEven`, `CallsFaithful`, `ConnsSound` (sums,
  merged lists, codecs) and all of `Web` and `Orm`, which reach the recursive
  operators of `Router` and `OrmSql`. Induction over data is outside it too.
* `RegisteredServes` has not been proved yet.

The models avoid the larger library modules where something is proved: what a
module reaches is in the context of each of its obligations. For the same reason
the lemmas on `ConnPool` are in three modules, and `ConnPool_proofs` takes the
theorems on finite sets only before the part that needs them.

## 6. What the code does that limits what is stated

The models contain these behaviours; the properties say where they are excepted.

Connection pool and `micro/net`:

* The broadcast for an ended context (`pool.go:278`) and the one of a failed dial
  (`pool.go:248`) are sent without the mutex and may come before `cond.Wait`: the
  Get sleeps on. `TestGetTimeout` (`pool_test.go:181`) expects it to return.
  `WaiterWoken` is stated for surroundings without the two.
* A second Close of a handle whose wrapper has a new owner gives away the new
  owner's connection (`pool.go:360`); `TestDoubleCloseSafe` (`pool_test.go:484`)
  tries it while nobody else has the wrapper.
* A probe that ends after `Release` puts its connection on the list of a dead
  pool, where it stays open (`pool.go:384`); `ReleaseClosesAllConnections` excepts
  what is on that list.
* The wrapper of a connection that `Release` and its owner both close is twice in
  the `sync.Pool` (`pool.go:435`, `:367`); hence `Exclusive` is stated until
  `Release` closes what is left. Two Gets that are still dialling may then be
  given this one wrapper, and the connection of the first is lost
  (`pool.go:444`): the second exception of `ReleaseClosesAllConnections`.
* The drain cancels the context of requests in flight, because the deferred
  `cancel` runs before the wait for them (`server.go:181`); comments at
  `server.go:100` and `:110` say it does not. They are still answered.
* A Shutdown before Start has a listener returns nil and Start goes on accepting
  (`server.go:60`); `ShutdownQuiet` shows that nothing it accepts is handled.
* A Shutdown that finds the server closed returns nil at once (`server.go:103`),
  while the first may still be draining or have failed. `ShutdownQuiet` says of that
  nil only that the server is closed. `DrainAnswers` counts an answer that says the
  request's context ended as an answer.
* On TLS a reader may overwrite the deadline that should interrupt it
  (`server.go:192`), so `ShutdownReturns` is about TCP.
* After half a frame, if the context has ended too, the stream stays in use
  (`stream.go:216`).
* Two Calls with one request id (a `Request` sent again, `client.go:143`) may
  receive each other's answers; `ResponseMatches` speaks of the other Calls. The
  deferred `unregister` of one deletes what the other registered (`stream.go:184`),
  which then waits until its own context ends, also on a closed stream:
  `ClosedReleasesCalls` excepts it.
* Recycled streams are closed after their slots have been given up
  (`net/pool.go:257`), so `maxOpen` bounds `RoomForDials`' sum and not the sockets.
* Two picks with different candidates may replace the weighted balancer's state
  for ever (`balancer.go:127`); `CallReturns` excepts it. Concurrent first picks
  each store a state of their own and may all take the heaviest node; `WrrFair`
  bounds the deviation by the states stored.
* A Resolve that looked at `closed` before Close replaces the nodes after it, and
  their pools stay open in a closed client (`client.go:249`); `NoPoolForgotten`
  names it.
* Failures charged to a node include streams that were recycled under a Call and
  requests the stream refused. A MarkFailure that an answer overtakes between its
  two atomic operations takes down a node whose count is 0 again
  (`endpoint.go:235`); `GoodNodesStayUp` names it.

RPC and discovery:

* `conn.Read` is used without `io.ReadFull` (`rpc/common.go:30` and on): after a
  short read the rest of a message is taken for the next one.
* The context of a one-way request is cancelled at once (`rpc/server.go:106`). An
  error with an empty text arrives as none. A method or serializer the server does
  not know ends it in a panic. `CallsFaithful` and `ConnsSound` except what follows
  a short read.
* The resolver's watch handles one event (`grpc_resolver.go:88`) and misses what
  happens between the list and the subscription; the goroutine of Subscribe may
  stay in a send that nobody takes (`etcd/registry.go:75`). The goroutine of a
  Subscribe after Close is cancelled by nobody.
* When Serve returns an error, Start returns it and the key stays in the registry
  under a lease that the process keeps alive (`micro/server.go:76`), as after a Put
  that reported an error; `RegisteredServes` excepts both.
* A Done with an error at weight 0, or without one at the limit, returns with the
  mutex held (`smooth_weight_rr.go:62`). Current weights are unsigned and, of
  connections with weights like 5, 1 and 1, may be below zero when they are
  compared (`:47`): the wrapped one then looks heaviest and is picked again and
  again. `WeightConserved` holds modulo the word; `WeightSmooth`, that no
  connection falls behind its share, holds until that happens. `weight_random`
  panics on each Pick; the group filter leaves out the group it should keep and
  divides by zero when none is left.

Caches:

* Lock panics on a nil result when the answer to its script misses the deadline
  (`redis_lock.go:177`), where it means to try again; a
  second Unlock closes a closed channel (`:81`).
* Set of a key that exists keeps the old node and its size until eviction; the
  capacity may be exceeded by it (`localCache.go:117`).
* SemiAsyncSet caches what failed to be stored (`write_through.go:25`), and it and
  AsyncSet end the program when the cache, or the store, refuses a value
  (`log.Fatalln`).
* A Close of the local cache after its channel was closed panics.

HTTP:

* A signal before Start has assigned the server is lost to it (`server.go:142`).
* After a timeout the handler may write into a context that serves another
  request, a limitation that `server.go:193` names; and the headers it set before
  stay (`timeout.go:87`).
* Two gzip middlewares in one chain compress twice under one `Content-Encoding`
  (`gzip.go:78`). A static handler writes past the Context (`server.go:302`), so that
  accesslog logs 200 for its 404. `EncodingTrue` and `LogTrue` except these.
* A purged bucket admits requests that hold it beside those of its successor
  (`ratelimit.go:162`).
* A static sibling hides parameter routes, and a second route through a regular
  expression panics (`route.go:146`). A route that is refused leaves the nodes made
  before the panic, which may hide others.

ORM:

* A lone `Where(a.Or(b))` is not put in parentheses (`builder.go:16`), so a soft
  delete or version condition binds to one side of it; the properties except it.
* `EQ(nil)` is written `= ?` with a nil argument and selects no row, not even those
  whose column is NULL.
* The count of rows that an upsert reports is the driver's (2 for a row that was
  updated, in MySQL); `ChunksInOrder` takes the count as exact only without upsert,
  or on the first try.
* A statement object that is used again, or built by a logging middleware first,
  holds its text twice.
* An upsert stops after its first `Assign` (`dialect.go:45`). An update whose
  answer was lost reports `ErrOptimisticLock` when tried again. The error of an
  After hook is returned though the statement was applied.

## 7. Not modelled

* Byte layouts below the fields: frame headers, JSON, protobuf, gzip; SQL beyond
  SET lists, WHERE clauses and chunks (joins, aggregates, ordering, raw SQL).
* Time as a quantity, but for the ticks of the rate limiter.
* `size.go`: the sizes of Go values, by reflection. Reading and writing struct
  fields by `reflect` or `unsafe`.
* `ReadThroughCache`: its Get calls itself (`read_through.go:22`), so that no call
  of it returns; there is no behaviour to check. `redis.go` only forwards.
* The memory model below atomics and mutexes, but for the two-word values of
  `LocalCache`; `sync.WaitGroup`'s panic when Add races Wait.
* Logging, metrics, tracing, statistics, generated code, the ORM's code generator
  and the examples under `test/`.

## 8. Plan

Theorems to follow, model-checked now: `RegisteredServes` of `Discovery`;
`ConnsSound` of `Rpc`, with the codecs abstracted to what `RpcMessage` shows;
`EntriesListed` of `LocalCache`, without the sums.
