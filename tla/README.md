# A TLA+ model of DataMiddleware

DataMiddleware is a Go server for online games: game clients keep TCP connections to it, web
front ends use an HTTP API, and behind both are services for players, items and orders, a
two-level cache, and a scheduler for background tasks. This directory holds TLA+ modules that
model what it does to state shared between goroutines, between two stores, or between the
server and its database, TLC configurations that check them on small instances, and TLAPS proofs
of results for every instance. `PROJECT.json` maps each definition to the lines it models and
lists the runs, the mutants that show each property can fail, the findings, the hazards and the
theorems.

## The system: inventory

| Component (under `internal/`) | State it keeps | Operations | What is hard, and what makes it correct |
|---|---|---|---|
| TCP connection, `protocol/connection.go` | state, socket, time stamps, missed heartbeats, `mu`, `closeChan` | `Close`, `Authenticate`, `UpdateHeartbeat`, `ReadMessage`, `SendMessage`, `heartbeatLoop`, `idleCheckLoop` | four kinds of goroutine race on the state; one signal for two loops. A connection is closed once and for good, idle and silent ones are closed, no goroutine is left behind |
| TCP server, `api/handlers/tcp_server.go` | `running`, `shuttingDown`, `stopChan`, listener, wait group, `mu` | `Start`, `Stop`, `acceptLoop`, `handleConnectionLoop`, message handlers | `Stop` races with accepting and with handlers. `Stop` returns, and when it has, nobody serves |
| Connection manager, `protocol/manager.go` | map from ID to connection, `cleanupLoop` | `AddConnection`, `RemoveConnection`, `Stop`, `cleanup`, broadcasts, statistics | the limit counts map entries. Every served connection is in the map; never more than `MaxConnections` |
| Codecs, `protocol/codec.go` | none | `Encode`, `Decode` (binary, JSON) | framing on a byte stream. What is read is what was sent, whole and in order |
| Task scheduler, `infrastructure/async/queue.go` | sorted task slice; running flags and stop channels of scheduler and workers | `Enqueue`, `Dequeue`, `Close`, `Start`, `Stop`, `run` | several workers, a full queue, restarts. Priority order, no task twice, no task forgotten |
| `AsyncManager` and tasks, `async/tasks.go` | an unsynchronised flag | `Start`, `Stop`, `Submit…` | a wrapper not used by `main.go` |
| Cache manager, `cache/manager.go`, local and Redis cache | L1 and L2 contents | `Get` (fills L1 from L2), `Set`, `Delete` | two stores without a common lock. Used one call at a time, they agree |
| Cache protection, `cache/protection.go` | blocked keys, request counts | `GetWithProtection`, `SetWithProtection`, breaker | late records of a miss; expiry under a read lock; nested read locks. A key with a value is not blocked, the table is bounded, calls return |
| Player, item, order services, `business/common/` | rows of the database | register, log in, update balances; transfer items; pay, cancel, refund | read-check-write without transactions, compensation instead of rollback, reads from slaves that lag. Items are conserved, a settled order stays, statistics add up, a session that ended is refused |
| Router and game handlers, `router/`, `business/common/game_handler.go` | handlers by game | register, route | dispatch against concurrent registration |
| DAO and database, `data/dao/` | tables on a master and a list of slaves | one statement per method; `Master`, `Slave` | atomic statements; each slave lags in its own way, and the clock picks the one that is read |
| `common/`: LRU cache, heap, time wheel, ring buffer, object pool, goroutine pool | their structures | insert, evict, tick, read, write, get, put, tune | boundaries, missing locks, a self-deadlock in the pool |
| Tokens, HTTP server | none | generate, refresh, check; the handlers | they appear where they call a part with state |
| Monitoring, configuration, logging | counters | input and output | left aside, see the end |
| `cmd/server/main.go` | none | starts all parts, stops them in order | order of shutdown |

How they interact: `main.go` starts the TCP server, the database, the services, the cache, the
scheduler and the HTTP server, and stops them on a signal. `acceptLoop` passes sockets to the
manager, which wraps them in connections and starts their two loops; the server spawns one
handler per connection, which cuts the byte stream into messages. The handler, the two loops
(through `go c.Close()`) and the manager's `Stop` meet in `Connection.Close`. The TCP server's
handlers do not call the business services yet (a TODO in the source); the HTTP handlers do, and
also use the cache and submit tasks. The game handlers registered with the router do too, but no
server passes messages to the router yet. The services write to the master of the database and
read from its slaves, another one for each read (`Slave` takes the clock modulo their number), one
statement at a time and without transactions.

## Modules

| Module | Models | Notes |
|---|---|---|
| `Connection` | one connection with all goroutines that touch it | handlers of `tcp_server.go` included |
| `TCPServer` | the server and the manager with any number of connections | a connection's own loops are reduced to "a closer may run" |
| `TaskContract` | what the scheduler promises | abstract specification: sets of tasks, no queue or workers |
| `TaskScheduler` | `PriorityQueue`, `Worker`, `TaskScheduler` | refines `TaskContract` |
| `MCTaskScheduler` | its instance for TLC | tasks and priorities |
| `MessageStream` | `ReadMessage`, `tryDecodeMessage` and the `BinaryCodec` | the bytes of one connection |
| `TwoLevelCache` | manager, local and Redis cache, protection, invalidator, warm-up, cache handlers | all of `infrastructure/cache` that is modelled |
| `Database` | how a SQL statement ends; which versions of a row the slaves show | shared by the modules below |
| `Items`, `Orders` | `ItemService`, `OrderService` and their tables | components of `GameServer` |
| `GameServer` | router, game handler and item handlers over `Items` and `Orders` | the composition that runs |
| `Accounts` | `PlayerService`, its tables, login handlers, tokens | |
| `MCGameServer`, `MCAccounts` | instances for TLC | tables to start from, symmetry |
| `ConnectionProofs`, `TCPServerProofs`, `TaskSchedulerProofs`, `MessageStreamProofs`, `TwoLevelCacheProofs`, `OrdersProofs`, `ItemsProofs`, `AccountsProofs` | theorems and proofs | `ItemsProofs` extends `OrdersProofs` |

`Connection`, `TCPServer`, `MessageStream` and `TwoLevelCache` need no MC module: their
configurations assign plain values.

### Connection

`state`, `sock`, `missed` are `c.State`, `c.Conn`, `c.missedHeartbeats`; `hbAge` and `idleAge`
are the times since `lastHeartbeat` and `LastActivity`; `mu` names the goroutine inside `Close`,
the only critical section of `c.mu` that takes two steps (the socket is closed in one, the
signal is sent in the next); `hbTick` and `idleTick` are the tickers' one-element channels;
`hbLoop`, `idleLoop`, `reader` are program counters and `closers` counts goroutines that are
about to call `Close`. The non-blocking send of the close signal reaches a loop only if that
loop is parked in its `select` (`SignalClose`). Time advances by heartbeat intervals in `Tick`.
What the client does is free: any message, an error, or silence.

Abstracted: message contents beyond what the handlers branch on, byte and message counters, the read
buffer (see `MessageStream`). A read deadline that expires is one of the errors of `ReadFails`.
`closers < MaxClosers` bounds how many goroutines wait to close at once (the loops spawn one more at
every check while the first is not scheduled).

### TCPServer

`smu` says whether `Stop` holds `s.mu`, which it does from its first line to its return;
`stopPc`, `accept`, `handler[c]` and `cleanup` are program counters at the points where another
goroutine can intervene: `acceptLoop` after `Accept`, before `s.mu.RLock`, before
`AddConnection` and before the handler is spawned; a handler at its `select`, in `ReadMessage`,
and at each of the three calls of its deferred function. `connections` is the manager's map,
`id` the ID each connection got. `generateConnectionID` keeps the second and the nanoseconds
modulo one millisecond, so IDs repeat; `UniqueIDs` says whether the instance assumes that they
do not.

### TaskScheduler

`queue` is the slice, ordered by `InsertIndex`. `main` and `cursor` walk through the loops of
`Start` and `Stop`; `wRunning` and `wStopped` are a worker's flag and its closed channel. A
worker that is started again gets a second goroutine while the first may still execute, so
goroutines are pairs of a worker and the number of the start. `stamp`, `clock`, `refused`,
`dropped` and `finished` are history variables. `submitTask` is the HTTP handler, whose client
chooses any integer as priority. The process ends in state `"panicked"` when
`Stop` closes `stopChan` a second time.

The contract: an accepted task waits, the waiting task with the highest priority is begun first
and the oldest of these, each is begun once, a task is refused only if `MaxSize` tasks wait,
and only closing the queue drops tasks. The refinement maps `waiting` to the queue's elements
and `running` to the tasks in the hands of goroutines.

### MessageStream

A byte is its position in the stream, so the read buffer is the pair `from`, `to`, and a message
is the position after its last byte. `tryDecodeMessage` has the four outcomes of the code: fewer
than 28 bytes, a header that promises more than there is, a checksum over the whole buffer that
does or does not fit, a message. `Received` lets TCP return any number of bytes up to the size of
the read buffer. Abstracted: the contents of the fields; CRC32 is taken to notice every
difference.

### TwoLevelCache

A process is a goroutine in one call, or `main` in its warm-up; each access to L1, to L2 or to a
locked table is one step, as nothing is held between them. `mode` is what `m.l2` is: Redis, a
cache without a client (L2 disabled), a nil `*RedisCache` inside a non-nil interface (Redis was
unreachable), or closed. `call[p]` holds the program counter, the keys still to do of a loop, and
the value read from L2 that `Get` will write to L1. `readers`, `avReaders` and `avWaiting` are
Go's read-write locks as far as goroutines wait on them, with a waiting writer that keeps new
readers out. The environment evicts from L1, lets entries of L2 and blocked keys expire, and
makes any operation on Redis fail, with or without effect. A value is the number of the call that
wrote it; the JSON variants do the same as the plain ones. `overlapped`, `faulty` and `plain` are
history.

### Database

The configuration names any number of slaves (`connectSlaves`), each replays the master's writes
at its own pace, and `Slave` picks the one for a read by the clock. A table therefore comes with
`replicas`: for every row the set of versions that some slave shows or has still to replay. A write
adds a version (`Shipped`), a read finds any of them, and an old one goes when the last slave has
left it behind (`Replayed`). A version that was written twice stays until the slaves have passed its
second writing, so that a row whose history on the master is cancelled, paid, cancelled may be read
as cancelled, then as paid, then as cancelled again. The current version never goes: it is what all
slaves come to show, and what is read when there are none.

This is more than a real set of slaves can do. The order of the versions is forgotten, so one slave
may seem to jump back and forth, and rows, also of different tables, are replayed independently. All
that is proved or checked here holds for every number of slaves. Left out is a slave whose table
differs from the master's history (replication that broke and was repaired by hand).

### Items, Orders, GameServer

Every call of the DAO is one SQL statement and one step, which succeeds, fails, or succeeds while
its caller is told that it failed (`Outcomes` of `Database`). Reads find a version of the row that
some slave has. `TransferItem` is six steps: read the
item, read the receiver's items (each as some slave shows it), take, give to a similar item or as a
new one, and put back what was taken if that failed. A take that fails ends the transfer, also when
it was executed and only its answer was lost. The conditions in the `UPDATE`s are guards (`Enough`,
`Exists`), and the missing check of affected rows in `AddItemQuantity` is a missing guard in `Add`.
`Orders` keeps apart the read of the status from the unconditional write; a refund may ask for too
much and is refused. `GameServer` adds the router, the requests of the handlers and of service
operations that have no handler yet, and a crash, which ends every call and leaves the tables.

`balance`, `lossy` and `doubtful` are history: the quantity that creation and consumption should
have left, and whether one of the events happened that `NothingLost` and `NoDuplication` name.

### Accounts

The rows of a player and of sessions on the master, their versions on the slaves, and the tokens
that are out. A login reads the name, checks password and status, reads the player, saves the whole
row to set the time of login, inserts a session, and hands out tokens. `UpdatePlayer` and
`UpdatePlayerStats` read and save whole rows too, which is where updates are lost. `Ban` is an
operator's statement on the table. History: `ledger`, what the statistics should be; `diverged`, a
row was saved that was out of date; `wins`, the registrations answered with success; `late`, the
sessions accepted by a validation that began after they had ended.

## Runs

| Run | Result | What it shows |
|---|---|---|
| `connection` | holds | see below |
| `connection_heartbeat` | violated | a client that never sends a heartbeat is never closed for it |
| `connection_leak` | violated | a loop goroutine outlives its connection |
| `tcp_server` | holds | see below |
| `tcp_server_stop` | violated | `Stop` and `acceptLoop` deadlock |
| `tcp_server_limit` | violated | colliding IDs break the connection limit |
| `task_scheduler` | holds | see below |
| `message_stream` | holds | see below |
| `message_stream_glued` | violated | two messages that arrive together close the connection |
| `cache` | holds | see below |
| `game_server` | holds | see below |
| `accounts` | holds | see below |

**connection.** `ExitedIsClosed`: although `Authenticate` may turn a closed connection back to
authenticated, the handler leaves it closed. `ClosedSocketSettles`: after the socket is closed
the state becomes closed and stays so. `DetectorsOutliveSocket`: neither loop gives up while
the socket is open. `IdleConnectionIsClosed`: idleness is detected, or ended by activity.

**tcp_server.** `StopWaitsForAll`: when `Stop` has returned, `acceptLoop` is over and no handler
works, although `wg.Add` races with `wg.Wait`. `ServedIsTracked`, `ServedWithinLimit`: with
unique IDs, the manager knows all served connections and there are at most `MaxConnections`.
`NoReadAfterManagerStop`: after the manager's `Stop` no handler blocks on a client, also one
whose connection was added afterwards. `StopStuckOnlyOnAcceptLock`: `Stop` returns unless
`acceptLoop` waits for `s.mu`; so the deadlock of `tcp_server_stop` is the only one.

**task_scheduler.** `ImplementsContract` and `NoTaskTwice`, through full queues, closed queues
and a restart; `RunningHasGoroutine`: in its first life a worker counted as running has a
goroutine (after a restart this fails, since the closed channel ends the new goroutine at
once; see the hazards); `WaitingIsBegun`: while the scheduler runs for the first
time and its queue is not closed, a waiting task is begun, also behind tasks that fail or panic,
unless another task of higher priority is accepted first. It says no more because there is no more:
`Enqueue` puts such a task ahead, clients choose the priority, and a stream of them starves the tasks
of lower priority. Tasks of its own priority never delay a task that
was there before them. `StoppedWorkerReturns`.

**message_stream.** `DeliveredAsSent`: the messages returned are those sent, whole, in order,
once each, in every fragmentation. `OnlyCoalescedRejected`: a client that waits until a message is
read before it sends the next is never rejected, which makes the finding exact.
`EveryMessageDelivered`: a complete message does not wait for bytes after it.

**cache.** `SequentialCoherence`: once no call on a key is under way, its L1 copy equals its L2
value, unless calls on it overlapped or Redis failed or expired it since the last write that ran
alone. Overlapping calls do leave the levels apart, for good: a `Get` copies the value it read from
L2 to L1 after a `Delete` has gone through, or two `Set`s reach the levels in different orders; and
as L1 has no TTL, a copy outlives its L2 entry. `BlockedKeyHasNoValue`: a key with a value is
blocked as a known miss only because a plain `Set` wrote it, calls on it overlapped, or an operation
of Redis on it failed or its entry expired. The overlap (a miss recorded after `SetWithProtection`
cleared the key) is a race, and the plain `Set`, which does not clear blocks, is not.
`BlockedWithinLimit`. `CallsReturn`: every call and the warm-up return, except that the nested read
lock of `GetStats` deadlocks with `RecordSuccess`, that a delete under a read lock may end the
process, and that a server started without Redis ends in its warm-up, on a nil pointer in an
interface (`manager.go:40`), or later in a scheduled invalidation. No other wait is forever, and
Redis disabled, or failing later, ends nothing.

**game_server.** `NothingLost` and `NoDuplication` are the two halves of conservation, each with the
events that break it. Quantity is made by two: `UpdateItem` saves a whole row that has changed or
gone since it was read, or a gift is done but reported as failed, so that it is rolled back too.
`NothingLost`, an equality, excepts these two (the saved row may also hold less than the one it
replaces) and four more, which lose quantity: a crash with something in hand, a roll-back that fails
or finds no row, a gift to a row that is gone, and a take that is done but reported as failed, after
which `TransferItem` returns without a roll-back (`item_service.go:190`). So they show that no other
interleaving, failure or lag breaks conservation, not that transfers are safe. `QuantityNotNegative`
needs the condition in the `UPDATE`, since the check before it looks at a slave.
`RefundFollowsPayment`: no order is refunded that was never paid, although nothing holds the order
between check and write. `SettledStays`: an order that is cancelled or refunded stays so, whichever
slaves later calls read, once no slave shows it in another state or has one to replay and no earlier
call is still to write. Without these conditions a payment overwrites a cancellation; and that one
slave, or all, show the cancellation is not enough: if a payment overwrote it and was overwritten,
slaves will show paid again, and a refund that reads that will be written.

**accounts.** `OneRegistrationWins`: of overlapping registrations of one name at most one is
answered with success; the check of the name does not see to that, the unique index does.
`LevelCoversExperience`: the level fits the experience in every row. `StatisticsAddUp`: the
statistics are the sum of the updates as long as no row was saved out of date.
`TokenFollowsSession`: no token without a session, whichever statement fails.
`EndedSessionRefused`: a session that had ended for every slave when a validation began is not
accepted by it. `BanHolds`: a ban stays, and the player gets no new session, once the master and all
slaves show it, no version from before it (or from between two bans) is left to replay, and no login
or save of a row read before the ban is under way; such a save, which every login makes, does undo
the ban.

### Findings

1. `checkHeartbeat` resets the count it has just incremented (`connection.go:342`), so with
   `MaxMissed = 3` the 90 second heartbeat timeout closes nothing. (With a client that is silent
   altogether the idle check or the read deadline closes the connection.)
2. `Close` sends one signal for two loops (`connection.go:121`): at least one of them ticks for
   ever, unless a late `Authenticate` reopens the state and a second `Close` signals the other.
3. `Stop` holds `s.mu` while it waits for `acceptLoop`, which takes `s.mu` after an error of
   `Accept` (`tcp_server.go:118`, `:191`).
4. Connection IDs repeat (`connection.go:377`): the manager forgets a connection and admits one
   too many.
5. The checksum is taken over the whole read buffer (`codec.go:274`), so messages that TCP
   delivers together are rejected, and the connection with them.

### Bounds

- Connection: heartbeat timeout 2, idle timeout 4 intervals (the idle ticker then fires at every
  interval), `MaxMissed = 3` as in the server, two closers. The detectors ask only whether an
  age exceeds its limit, and two closers suffice for one to run in every window of the other.
- TCPServer: two clients and a limit of one, so that the limit is reached, a connection is
  refused, and one can be accepted while the other is served or `Stop` runs. For the limit
  finding three clients, two IDs and a limit of two.
- TaskScheduler: three tasks, two of equal priority, a queue of two (so it can be full, and
  order among equals matters), two workers, two starts. The third task is more urgent and may come
  while the others wait, which `WaitingIsBegun` counts (`Higher`).
- MessageStream: four messages of two, three or five bytes with a shortest message of two, and
  reads of at most three bytes, so that a message is cut at every place and reads end within, at
  and beyond a message. The code depends on lengths only through comparisons.
- TwoLevelCache: two clients and `main`, two calls on keys and one for the statistics (by one
  client, `StatsClients`), two keys of which calls on one key use one, one blocked key. Two calls
  and a warm-up overlap in threes, which is more than any of the races needs; two keys are needed
  for the limit, the loops and the race on the map.
- GameServer: two goroutines, three requests, one failing statement, one crash; two users, one
  kind of item, three rows (the sender's, the receiver's or none, a free one), one order that is
  new or paid. Slaves hold any versions that these requests produce. A transfer is one request, so two
  others can run into it. Requests carry positive
  quantities, as the services demand of those that take; `CreateItem` demands nothing, and
  negative items are left out.
- Accounts: two goroutines, three calls, one failing statement, one crash, one player (there or
  still to register), two sessions. Two calls suffice for a ban that a stale save undoes, a second ban
  and a login that reads a slave in between. The tables of different players do not touch each other.

The clients of the last two are symmetric, and the sessions of `Accounts`; their runs check no
liveness.

The proofs below remove the bounds for every safety property of the runs that hold, and for the
refinement. What rests on the instances is liveness.

### Fairness

Weak fairness for each goroutine: the Go scheduler runs every runnable goroutine. Time passes
(`Tick`). Nothing is assumed of clients, and nobody has to call `Start` or `Stop`. `WorkerReturns`
has strong fairness: a `select` with a tick and a closed channel both ready chooses at random, so a
worker that keeps taking ticks sees the closed channel some time. Tasks are assumed to return.

In `MessageStream` the goroutine of the connection runs and TCP delivers what was written, or the
read fails. In `TwoLevelCache` each goroutine goes on with the call it is in, and operations on
Redis return, with an answer or an error (go-redis has timeouts); nobody has to begin a call. A
sleeping invalidation wakes up. `game_server` and `accounts` state safety only.

`CHECK_DEADLOCK FALSE` in `TCPServer`, `TaskScheduler`, `MessageStream`, `TwoLevelCache` and
`Accounts`: the server stops for good after `Stop`, the scheduler once all tasks are done or the
process has panicked, a connection once it is given up, the cache when the process has ended, and
the account service rests when its clients ask for nothing more and the slaves have caught up. The
deadlock of `Stop` is found by the liveness property instead.

## Proofs

The theorems hold for arbitrary constants that satisfy the `ASSUME`s beside the declarations:
finite sets of connections, IDs, tasks, items and goroutines, natural limits, integer priorities, an
idle timeout of at least four intervals, at least one worker, and the like.

- **ConnectionProofs**: `TypeCorrect`, `ExitLeavesClosed`, `DetectorsRunWhileOpen`. The inductive
  invariant `CloseInv` says who may hold `mu`, that a state of Closing or Closed goes with a closed
  socket, that a handler that has returned left the state Closed, and that a loop returns only after
  the socket is closed.
- **TCPServerProofs**: `TypeCorrect`, `StopWaits`, `ServedAreTracked`, `LimitHolds`,
  `StopIsIndependentOfClients`. `IInv` has one conjunct per concern: `LifeInv` (the flags at each
  point of `Stop`), `AcceptInv` (what `acceptLoop` holds at each point), `ConnInv` (how far a
  connection and its handler can be), `WgInv` (the counter equals the number of
  goroutines that will call `Done`; without it `StopWaitsForAll` is not inductive), `TrackInv`
  and `LimitInv` (the map against the connections, under `UniqueIDs`).
- **TaskSchedulerProofs**: `TypeCorrect`, `NoDoubleExecution`, `Refinement` (`Spec =>
  ImplementsContract`). `SpawnInv` says that a goroutine not yet spawned is nowhere, so `Start`
  never overwrites one; `OrderInv` that the queue is in the order of the contract. Lemmas about
  `InsertIndex` and `Insert` show that the insertion exists and keeps the order. A queue without
  repetitions is as long as its set of tasks, so the code's test of `len` is the contract's.
  `RunningWorkersWork`: `RunningHasGoroutine`, from `AliveInv`, which says of a scheduler started
  once that its workers are not stopped before `Stop`, and that the goroutine of a worker that says it
  is running is in its loop.
- **MessageStreamProofs**: types, `DeliveredAsSent`, `OnlyCoalescedRejected`, for messages and a read
  buffer of any size (`StreamAssumption`). The invariant adds that the buffer begins where the last
  returned message ended (`BufferInv`), without which the next bytes could be cut wrongly, and that
  a client that never overtook itself has at most one unread message (`PaceInv`).
- **OrdersProofs**: `RefundFollowsPayment` and `SettledStays` of the composition `GameServer`. Only
  the orders, their versions on the slaves and the calls matter, so every step of the server is
  first mapped to an `OrderStep` or one that leaves the orders alone. The invariant carries over
  that what any *slave* may show as paid was paid (`TableInv`), so that a refund past its read is of
  a paid order (`CallInv`). A settled order has only final versions, no operation accepts one of
  these, so none gets to its write, and no write adds another version.
- **ItemsProofs**: `GameServerTypeCorrect`, `NothingGoesBelowZero`, `TransfersMakeNothing` and
  `FailedTransfersLoseNothing`, from tables that start without a negative quantity (`ItemConstants`)
  and finitely many goroutines (`FiniteClients`). In `ItemInv` the versions on the slaves and the
  rows that calls hold are good as well, since `UpdateItem` and a transfer write back rows they read
  earlier. Conservation is `BalanceInv`; every statement changes at most one row and one call, so it
  is enough that the two together gain what the balance gains (`StepMoves`). That needs sums:
  `MapThenSumSet` recurses by an arbitrary choice of the next element, and the lemmas that its value
  is independent of the choice, is natural, and changes with one weight by just that much
  (`TotalChanges`) are proved without an induction rule, from a subset of least cardinality that
  would contradict them (`LeastSubset`).
- **AccountsProofs**: the types, the five invariants and `BanHolds`. `BaseInv` says what a call
  holds at each statement and that all versions of a row, and the row a call is about to save, have
  the level their experience earns. `RegInv`: a name won has its row, so the index refuses the
  others. `SessionInv`: a session all of whose versions have ended stays so, on the master and on
  every slave, and a validation that began after that does not pass its first read. `SavesInv`: a
  call that holds a row nobody has overtaken holds the change of the row that is there, so its save
  adds exactly its change. The action property `BanHolds` has one lemma for the statements
  (`StatementKeepsBan`): what is about to be saved for a player whose ban is settled says banned
  too, so every version stays banned.
- **TwoLevelCacheProofs**: the types, `BlockedKeysAreLimited`, `LevelsAgree`, `NoValueIsRefused`,
  for any number of keys and goroutines. `BaseInv` says which steps each operation has and what a
  call holds at them. `KeyInv(k)` is about a key on which calls have not overlapped and Redis has
  not failed: one call holds it at most, and the levels are settled or as far apart as that call's
  step explains (`Stage`: a write that comes to L2 has gone through L1, a read that fills L1 holds
  what L2 has). `Calm` sums up steps on other keys, evictions and expiries. `NilInv`: without a
  Redis nothing is ever blocked.

Only model-checked: the liveness properties (`ClosedSocketSettles`, `IdleConnectionIsClosed`,
`StopStuckOnlyOnAcceptLock`, `WaitingIsBegun`, `StoppedWorkerReturns`, `EveryMessageDelivered`,
`CallsReturn`), as fairness is out of the prover's reach, and the five violations.

## Plan

The modules the system's own behaviour calls for are written, and their safety properties are proved.
Open are the safety halves of liveness properties, as invariants with proofs of their own: for `Stop`,
that `acceptLoop` is the only goroutine it can wait for in vain; for the cache, that a process which
cannot go on waits for a lock that someone holds who can.

## Not modelled

- The library code in `internal/common/`: object pool, buffers and ring buffer, LRU cache, heap,
  time wheel, goroutine pool. No other file uses it, so no behaviour of the server depends on it.
- `AsyncManager` and `QueueMonitor`, which nothing constructs; `JSONCodec` and `MessageRouter`,
  which no server calls; `CacheMonitor`'s counters; `RecordFailure`, which nothing calls.
- Broadcasts of the manager (they send on connections, from code nobody calls) and getters and
  statistics that only read. HTTP handlers that answer with constants: orders, `updateItem`,
  `deleteItem`, `playerLogout`.
- DAO statements on games, game statistics and logs, which no service uses; the parameters of the
  connection pool.
- gin's routing and JSON, configuration, logging, error formatting, monitoring and health, and the
  libraries behind gorm, Redis, bigcache and JWT, which appear only as what they do to state.
- The benchmark tool.
