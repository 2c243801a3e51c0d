# A verification of the order book matching engine

This directory holds TLA+ specifications of the OrderBook-Matching-Engine
repository, TLC configurations that check them on small instances, and theorems
about them that the TLA+ proof system checks for every instance. Paths below are
relative to the repository.

## 1. Inventory

| component | source | state it keeps | operations | talks to |
|---|---|---|---|---|
| order book engine | `src/engine/OrderBook.js`, `OrderNode.js`, `DomainEvent.js` | bids and asks (price → level), `ordersById`, `stopOrdersById`, last trade price, sequence | place limit / market / stop / trailing stop order, cancel, snapshot, recovery snapshot | called by `executeOrderCommand` |
| price level | `src/engine/PriceLevel.js` | doubly linked FIFO list, count, total quantity | append, peek, remove, decreaseTotalQuantity | order book |
| command worker | `src/workers/orderCommanderWorker.js`, `executeOrderCommand.js`, `BookRegistry.js` | books of its symbols, the delivery in hand | consume, check leadership, deduplicate, execute, persist, acknowledge, reject | RabbitMQ, all Redis stores, leader lock, Pub/Sub |
| Redis stores | `src/infrastructure/redis/Redis*.js` | command stream and processed ids, event stream, read model, recent trades, command status, recovery snapshot | append, read, save | worker, replica, API |
| recovery | `src/application/recovery/replayCommand.js` | – | snapshot + incremental replay, full replay | stores, registry |
| leader election | `src/infrastructure/redis/RedisLeaderElection.js` | one key per partition with a 5 s expiry, a 2 s renewal timer per leader | acquire (SET NX), renew, release, read | matching node |
| matching node | `src/application/replication/MatchingNode.js`, `StandbyReplica.js` | active / transitioning / stopping, last replayed stream ids | start, promote, demote, stop, standby replay | leader election, worker, command stream |
| order API and bus | `src/api/routes/bookRoutes.js`, `RabbitOrderCommandBus.js`, `rabbitConnection.js` | QUEUED status, one channel variable shared by all requests | save status, connect with retries, publish | RabbitMQ, status store |
| partitioner | `src/application/partitioning/symbolPartitioner.js`, `go-worker/internal/partition/partition.go` | – | hash(symbol) % count | API, both workers, replica |
| market feed | `RedisMarketEventPubSub.js`, `socketServer.js`, `apps/websocket.js` | rooms of sockets, the subscription | publish, subscribe, fan out, join, leave | worker, clients |
| Go worker service | `go-worker/internal/service`, `worker`, `broker`, `storage` | one context per run, the leader key | wait for the key, recover, consume, heartbeat, release, exit | RabbitMQ, Redis |
| Go engine | `go-worker/internal/matching` | as the order book engine, of which it is a port | as the engine | Go worker |

What is hard in each of them:

* **Engine** – single threaded, but one call runs a cascade: trades make stop
  orders due, these trade and make others due. State taken at the head of a loop
  (the list of eligible stop orders, the best price) is used while the loop body
  changes what it was taken from, a throw in mid-call leaves everything done so
  far, and the same order lives in several indexes. Correct means: price-time
  priority, a book that is never crossed, indexes and totals that agree, a
  cascade that settles and ends.
* **Worker and stores** – nine awaits between the delivery of a command and its
  acknowledgement, with a crash or a failing call possible at each, and a
  redelivery after it. Correct means: every command applied once, a log that
  replays to the live book, a snapshot that is the replay of a prefix of the log,
  a status that says what happened.
* **Failover** – lock expiry, renewal, promotion, demotion, the handler and the
  standby loop interleave at every await in two processes, and nothing fences a
  late write. Correct means: at most one consumer in effect, a promoted book that
  equals the replay of the log, some leader eventually.
* **Go worker** – no standby: a run waits for the key, and every call of the run
  uses one context that a signal or a lost key cancels, while RabbitMQ's calls use
  none. Correct means: a hand-over without loss or repetition, and a bounded cost of
  the cancelled context.
* **API** – requests run side by side and share one module variable for the
  channel, which connection attempts set, clear and retry; the status is written
  before the publish that it announces; nothing confirms a publish. Correct means:
  every request is answered, the status never overwrites a later one, a command
  reaches the queue whose worker takes it, and what was accepted is decided.
* **Feed** – events are published after the acknowledgement, nobody waits for the
  publication, and Pub/Sub keeps nothing. Correct means: no repetition, the order of
  the queue, and no gap for a client that subscribes before it reads the book.

`PROJECT.json` lists all hazards by line with the properties that cover them.

## 2. Modules

| module | what it is |
|---|---|
| `PriceTimePriority` | what a matching engine promises: resting orders, one incoming order, trades in price-time priority |
| `OrderBook` | the engine, step by step; refines `PriceTimePriority` |
| `MCOrderBook` | the sets of submitted orders TLC uses |
| `OrderBookProofs` | the inductive invariant of the book and its consequences, the totals of its levels, the stop cascade, the trailing stop orders, the refinement of `PriceTimePriority`, and the book across recoveries |
| `Recovery`, `MCRecovery` | `OrderBook` with the recovery snapshot and the book made from it |
| `FifoQueue` | what a price level promises: orders wait in the order they came |
| `PriceLevel` | the doubly linked list with its count and total; refines `FifoQueue` |
| `PriceLevelProofs` | the list stays linked, its count and total are right, and it implements `FifoQueue` |
| `QuantitySums` | lemmas about the sum of a quantity over a finite set of orders |
| `PartitionLog` | what a partition promises to those who send it commands: nothing twice, nothing overtaken |
| `CommandWorker` | the API's publish, the queue, the worker's handler with one step per await, the Redis stores, crashes; the processes take turns. Refines `PartitionLog` |
| `CommandWorkerProofs` | the refinement of `PartitionLog` and what its promise comes to; statuses are true; no command is logged twice; books, snapshots and recoveries are replays of the log |
| `MatchingNode` | the processes with leader election, standby replay, promotion, demotion and stop instead of turns; refines `CommandWorker` until a key is lost, a consumer left behind or a call fails |
| `MatchingNodeProofs` | no command twice; until a key is lost or a consumer left behind, one consumer, failovers that keep the promise, standbys that follow the log, and the refinement of `CommandWorker` |
| `GoWorker` | the same handler inside the Go service: contexts, signals, deferred calls, restarts |
| `GoWorkerProofs` | until a key expires in use, one consumer and safe hand-overs; what the end of a run costs |
| `SymbolPartitioner` | both hash functions, with integers that wrap at any modulus |
| `OrderApi`, `MCOrderApi` | the order routes await by await, `rabbitConnection.js` and the queues of all partitions; uses `SymbolPartitioner` |
| `OrderApiProofs` | both hash functions agree on every symbol that Go reads as it was sent, commands are in the queue where the workers look for them, and no decision is overwritten by QUEUED |
| `MarketFeed` | `CommandWorker` with its publications, the WebSocket process and its clients |
| `MarketFeedProofs` | clients are told once, in order and without a gap |

`OrderBook` and its family are about one call after another on one thread;
`CommandWorker` and its family about processes and messages, with the book as the
sequence of the commands that changed it. They meet in two facts: the engine is
deterministic, so a sequence of commands is a book, and its calls may throw before or
after they have changed it (`RefuseOrder`; `TriggerThrows`, `CycleLimitExceeded`),
which are the `Refused` and `HalfApplied` commands of `CommandWorker`. `OrderApi`
hands commands to the queues of all partitions; `CommandWorker` is what happens
behind one of them.

### How `OrderBook` corresponds to the code

A call of a public method is one or more steps. `phase` is the place in the call:
`match` is the head of the `while` of `matchBuyOrder`/`matchSellOrder`, `stops`
the head of the `while` of `processStopOrdersAfterTrades`, `trigger` the head of
its `for`, `finish` the stamping of the events and the return. The intermediate
states are not visible to other calls (JavaScript runs a call to its end); they
are modelled because the loops read there what earlier iterations wrote, and
because a throw makes them permanent.

| code | model |
|---|---|
| `bids`, `asks` | `levels[side]`, a function from price to level |
| a `PriceLevel`'s linked list | the sequence `orders` of ids; `totalQuantity` beside it |
| `ordersById` | `ordersById`; the `rank` of an entry is the time it was inserted |
| `stopOrdersById` | `stopOrdersById`; `watermark` is `peakPriceTicks` of a SELL, `valleyPriceTicks` of a BUY; `rank` is the Map's insertion order, in which the `for` runs |
| `placeLimitOrder`, `placeMarketOrder` | `PlaceLimitOrder`, `PlaceMarketOrder`, then `MatchOne`*, `EndMatching`, the stop cycles, `Finish` |
| `matchBuyOrder`, `matchSellOrder` | `MatchOne` for an iteration, `EndMatching` for the exit and what the caller does next (rest, fill event) |
| `processStopOrdersAfterTrades` | `StopCycle`, `TriggerStopOrder`, `MatchOne`, `EndMatching`, `EndCycle`, `NoNewTrades` |
| a throw before any change | `RefuseOrder`, `RefuseCancel` |
| a throw in mid-call | `CycleLimitExceeded`, `TriggerThrows` |
| `placeStopMarketOrder`, `placeStopLimitOrder`, `placeTrailingStopMarketOrder` | `PlaceStopOrder`, `PlaceTrailingStopMarketOrder` |
| `cancelOrder` | `CancelStopOrder`, `CancelRestingOrder` |
| `stampEvents`, `nextSequence` | `StampEvents`, `sequence` |

Abstracted: an event is its type, order and sequence number; an order's user,
symbol and timestamps are left out, as is `this.trades`, which the engine appends
to and never reads. `decreaseTotalQuantity` and `remove` throw when a total would
go negative or an order is not of the level; `TotalsMatch` and `IndexesAgree` say
that this cannot happen.

`Recovery` adds one action, `Recover`, between two calls: the book becomes what
`fromRecoverySnapshot` makes of `toRecoverySnapshot`, with totals, levels and Map
orders built anew, and no call has ended in the new process (`outcome` is `none`).
Another `Recover` waits for a call to end, which bounds nothing but repetitions of the
same step. `OrderBook` and `PriceLevel` meet in the queue of a level:
`OrderBook` has it as a sequence, which is `Forwards(level)` of `PriceLevel`.

### How `CommandWorker` and `MatchingNode` correspond to the code

A book is the sequence of the commands that have changed it. `Refused` commands
throw before they change anything, `HalfApplied` ones after, `Foreign` ones belong to
another partition.

| code | model |
|---|---|
| what the handler awaits (`orderCommanderWorker.js:83-183`) | `handler[p]`: `checkLeadership`, `isCommandProcessed`, `checkAfterExecution`, `appendCommand`, `appendEvents`, `saveReadModel`, `saveSnapshot`, `saveProcessed`, `checkBeforeAck`; `skip`, `reject`, `ack` on the side paths |
| the code between two awaits | one action; `Following` is the order of the awaits |
| a call that fails | `CallFails` (no effect), the second disjunct of `CallReturns` (effect and error), `RejectFails` (the REJECTED status stored or not) |
| `checkLeadership` | `Leads`; `CheckSaysNo` is also the check that throws |
| `reportLeadershipLost` | `ReportingStep`; then `StepDown` or, in `MatchingNode`, `HandlerReports`, once per consumer (`reported[p]`), and `HandleLeadershipLost` |
| command stream and processed ids (one MULTI) | `log` |
| `stream:*:events`, read model, recovery snapshot, status | `eventLog`, `readModel`, `snapshot`, `status` |
| `ack`, `nack` | `Settle`, `Requeue` (back to the head of the queue), `dlq` |
| a book the handler holds after the registry was reset or the book replaced | `held[p]` |
| `start`, `attemptPromotion`, `handleLeadershipLost` | `stage[p]`, what they await |
| `StandbyReplica` | `replicating[p]` (its loop), `replayed[p]`, `Replay` |
| `stop()` and `process.exit` | `stopping[p]`, `Exit` |
| the leader key, its expiry and the heartbeat | `leader`, `Expire`, `ExpireInUse`, `renewing[p]`, `RenewalFails` |
| `leadershipLostDuringTransition` | `lossNoted[p]` |
| `consumerHandle.stop()` | `StopConsumer`: a consumer whose handle has been overwritten goes on (`orphan[p]`) |
| the catch block of a promotion | `PromotionFails` (before the consumer is started), `ConfirmFails` (the last check: the consumer stays), then `GiveUpPromotion` |
| `releaseLeadership`, which may throw | `TryRelease`, in `GiveUpPromotion` and `StopRelease` |
| a failing call of a node's handler | `HandlerFails`, which is `CallFails` or `RejectFails` of `CommandWorker`, and `CallReturns` |

Simplifications of `MatchingNode`. One symbol, which the replica tracks from the
start. A round of the replay loop reads and executes in one step, which differs
from the code only while `initialize()` runs beside the loop. A failed SET NX is no
step. One connection to Redis answers in order (`redisConnection.js`), so the
handler of a new consumer waits for the check that ends its promotion. A consumer
that stays behind in a process and the next one of the same process have one handler
between them, and with a prefetch of one message each could have two; across processes
they run side by side, which is what `leftover_consumer` is about. A demotion whose
recovery throws is a crash if a handler has reported the loss (nothing catches the
rejection, which ends the process); if the heartbeat has, whose key has gone, the node
goes on as a standby with an emptied book and its old place in the log, which is left
out. A replayed command that the book already holds is applied again; in the code some
such commands throw instead, and the replica does not get past them.

`SaveReadModel` is one step for the two awaits of `saveReadModel` (35-36), the snapshot
of the book and the recent trades; the recent trades, which nothing but a read route
reads, are left out.

`PartitionLog` has three actions, each of one variable: `Send` is the publish that
reaches the queue, `Record` is `appendProcessedCommand`, `Tell` is `appendEvents`. It
has no processes, deliveries or crashes.

### How `GoWorker` corresponds to the code

`GoWorker` EXTENDS `CommandWorker` and takes its handler steps (`StoreStep`,
`Acknowledge`, `HandBack`, `AcknowledgeLast`, `DeadLetter`), since
`processor.go` makes the same calls in the same order.

| code | model |
|---|---|
| `service.Run`: wait, recover, connect, consume | `stage[p]`, with `Acquire`, `LoadSnapshot`, `ReplayRest`, `Connect` |
| `runCtx` | `cancelled[p]`; `ContextIsLive` guards every call made with it |
| deferred calls of `Run` | `Leave` (close the channel, cancel the context), then `Release` |
| `heartbeat` | `NoticeLoss`; a renewal that succeeds or fails with an error changes nothing |
| `main`'s signal context | `Signal`, `signalled[p]` |
| `broker.Consume` | `Deliver`, `Done`, `ConnectionLost`, `Abandon` |
| a connection that is lost while `Handle` runs | `LosesDelivery`: the broker has the message back (`requeued[p]`) and the handler goes on; `SettleFails`: its `Ack` or `Nack` returns the error and the run ends; `CrashEmptyHanded` |
| `Processor.Handle`, `reject` | `RejectForeign`, `HandlerGoesOn`, `LeadershipLost` (`SaysNo`), `HandlerFails` (`Errs`), `RejectionFails` |
| `restart: unless-stopped` | `Restart`; `stopped` until an operator starts it (`StartAgain`) |
| the release script, the key's expiry | `ReleaseKey`, `Expire`, `ExpireInUse` |

As long as a worker holds the key, nobody else can take a message that goes back, and
it makes no difference whether it goes back while the handler runs or when it has ended
(`ConnectionLost`, at the points where it ends); so `LosesDelivery` is a step of a worker
whose key has gone.

### How `OrderApi` and `SymbolPartitioner` correspond to the code

| code | model |
|---|---|
| the module variable `channel` | `channel`, an index into `open` and `wire`; 0 is null |
| the awaits of an order route and of `connectRabbitMQ` | `step[c]`: `saveStatus`, `connecting`, `opening`, `settingUp`, `failing`, `sleeping` |
| `for (attempt ...)`, its delay | `attempt[c]`, `Wake` |
| `publish` | `Send`: throws for null or a closed channel, may report a full buffer |
| a message on its way, a broker that stops | `wire`, `BrokerStops`, `cut` |
| `assertPartitionQueues` | `AssertPartitionQueues`, by a worker only; `early` are the messages before it |
| the worker behind a queue | `Decide`; `Refuse` is a Go worker that dead-letters a symbol it takes for blank or for another partition's, without a status |
| `trim()`, `strings.TrimSpace` | `TrimmedByJs`, `TrimmedByGo`: they differ in U+FEFF and U+0085 |
| `json.Unmarshal` of a symbol | `Unmarshalled`: a lone surrogate becomes U+FFFD |
| `hashSymbol`, Go's `ID` | `HashSymbol`, `GoPartitionId`: `Wrap` is the conversion to an integer modulo `Modulus`, `Xor` the exclusive or, bit by bit |

The six order routes differ in their payload only and are one. The three calls that
set a new channel up are one step, `settingUp`.

### How `MarketFeed` corresponds to the code

| code | model |
|---|---|
| `void publishMarketEvents(...)` | `HandlerWithFeed` puts an announcement into `pending[p]`; `PublishMarketEvents`, `PublicationFails` |
| Redis Pub/Sub, the subscriber | `inbox`, `linked`; what is published while `linked` is false is gone |
| `broadcastDomainEvents`, rooms | `Broadcast`, `joined[k]`, `seen[k]` |
| `subscribe:book`, `unsubscribe:book`, `disconnect` | `Join`, `Leave` |
| the client's read of the book | `Fetch` |

Definitions whose comment begins with *Slip* are plausible mistakes in the
definition that follows them. They are not used by the specification: each
property is shown to notice one of them.

## 3. Model checking

| run | configuration | question |
|---|---|---|
| `engine` | `MCEngine.cfg` | with stop orders that set each other off, throw or run into the cycle limit: do indexes, totals and ids stay right, is the book never crossed and price-time priority kept, do cascades use a current list, settle and end? |
| `price_level` | `MCPriceLevel.cfg` | do links, counts and totals stay right, and are levels served first in, first out? |
| `book_recovery` | `MCRecovery.cfg` | is the recovered book the one that was saved, down to the order of stop orders, and do trailing stop orders follow the market, one way only, across recoveries? |
| `worker` | `MCWorker.cfg` | with crashes, redeliveries, failing calls and doubtful leadership: are commands applied once and in order, do books, snapshots and statuses agree with the log, is every command settled? |
| `nodes` | `MCNodes.cfg` | until a key is lost, a consumer left behind or a call fails, do the nodes take turns and do standbys follow the log; and whatever happens, are statuses true, is nothing repeated, is a loss noticed, does one lead in the end? |
| `go_worker` | `MCGoWorker.cfg` | do Go workers hand the partition over without harm, what does the end of a run cost, is every command decided? |
| `order_api` | `MCOrderApi.cfg` | are requests answered, commands put into the right queue, accepted ones decided? |
| `market_feed` | `MCMarketFeed.cfg` | is a subscriber told once and in order, without a gap, of every outcome? |
| `throw_in_mid_command` | `MCWorkerThrow.cfg` | violated: see below |
| `leftover_consumer` | `MCLeftover.cfg` | violated: see below |
| `data_loss` | `MCDataLoss.cfg` | violated: see below |
| `trailing_peak` | `MCTrailingPeak.cfg` | violated: see below |

### Bounds

`MaxSequence` stops new calls once that many events have been stamped; a call that
has begun always runs to its end. 13 events are three to five calls. `EngineOrders` of
`MCOrderBook` is a set of orders for five ids: limit orders that rest, three of them in
one level, and are filled in part with an order behind them; market orders that find more
or less than they want; stop market and stop limit orders that a seller who walks down the
bids sets off, two of them at once, and one that buys back; a stop order without a valid
quantity, and a malformed order. `MaxCycles` is 2 instead of 1000, so that a cascade of
two cycles that settles and one that runs into the limit both happen. Deadlock is not
checked because the bound really does end the behaviours. In `price_level`, four orders in
two levels with quantities up to 2 make a list with a first, a middle and a last order
while another level changes, and orders join again after they have left; there is no
other bound and no deadlock. In `book_recovery`, 16 events allow partial fills, two
orders in a level, two stop orders whose Map order is not that of their prices, and a
market that moves while a trailing stop order is pending.

The worker and node runs have two processes, the number that `docker-compose.yml` gives
a partition. `worker` has four commands: one that is refused, one of another partition,
and two that are applied, in any order of arrival; the nodes have two, since order needs
two; the Go workers two and a foreign one; the feed one that is applied and one that is
refused. `MaxCrashes`, `MaxFailures` (calls that fail, with or without effect),
`MaxDoubts` (a leadership check that throws), `MaxFailedPromotions`, `MaxLosses`
(expiries of a key in use and stops), `MaxFaults` (in the Go run the signals, expiries,
crashes and failing calls together), `MaxStops` of the broker and `MaxDrops` of the
feed's connections bound how often each fault happens, within the bound at any step; one
of each is what the runs have. In `nodes`, `MaxFaults = 3` and `GraveWeight = 3`: a
crash, a doubtful check and a failed promotion may all three meet in one behaviour, and
a key that is lost, a consumer that is left behind or a call that fails comes without
another fault; the theorems are about any weights and bounds. A Go worker whose key has
expired may besides lose its message (`LosesDelivery`), which the expiry bounds. A fault
followed by a recovery brings a process back to a state it has been in, and two
processes let the fault of one meet any step of the other.

`order_api` has two requests for symbols of `MCOrderApi`: two on which the 32-bit
arithmetic of the two hash functions wraps at different points or turns negative, one
that is blank for both languages and one that is blank for Go only. `Modulus` is
`Integers25`, 2^25 and not 2^32, because TLC's own integers have 32 bits; that the two
functions agree is proved for every modulus (`PartitionersAgree`). Three partitions make
the sign of a remainder matter; `Retries` is 2 instead of 10, so that an attempt that is
not the last and one that is both fail.

### Conditions that are part of the properties

Some properties hold only until a certain fault, and say so.

* `failures = 0` in `StatusIsTrue` (its second half), `LiveBookIsReplay`, `SnapshotIsReplay`,
  `StandbyFollowsLog` and `ImplementsTurns`: a call that takes effect and fails makes the
  handler report REJECTED for a command that is logged, or keep one in the book that is not.
* `NoLoss` in `KeyGivesOneConsumer`, `StandbyFollowsLog` and `ImplementsTurns`: no key has
  expired in use, no node has been stopped, no promotion has left its consumer behind.
  Nothing fences whoever consumes without the key (`data_loss`, `leftover_consumer`), and a
  demotion with a handler that has not executed its command yet dirties the book of a
  standby (below). The other properties of `nodes` are checked whatever is lost, but that
  a consumer left behind need not stop (`LossIsNoticed`).
* `expiries = 0` in `HandoversAreSafe`, for the same reason.
* `doubts = 0` in the order of `ToldOnceInOrder`: a worker that reports a loss of
  leadership is alive and may still be publishing.
* `IsCommon` in `InOwnQueue` and `AcceptedIsDecided`, and `refused` in `QueuedIsUndecided`:
  a Go worker dead-letters a symbol that it reads otherwise.

### Fairness

`OrderBook!FairSpec` assumes `WF_vars(Step)`: a call that has begun runs on, since
Node.js schedules nothing else in between. No call is ever assumed to be made.

`CommandWorker!FairSpec` assumes weak fairness of each delivery, of each handler
and of some process taking a free turn. `FairNodeSpec` has the turn explained: weak
fairness of each node's own steps (its promises resolve, its timers fire), of each
handler, of deliveries and of the expiry of a key that nobody renews. It does not
assume that a process that ended is started again: with one crash or one stop, it
is the other node that has to take over.

`FairGoSpec` assumes the same of goroutines, and that a container whose process has
ended is restarted, as `docker-compose.yml` says; a worker that was stopped by a
signal need not come back, but `Signal` leaves one worker of the partition alone.
`OrderApi!FairSpec` assumes that the event loop goes on, that a broker that runs reads
what is written to it, and that workers consume; nothing starts a broker or a first
worker, which is why `AcceptedIsDecided` has `[]<>up` and `early` in it.
`FairFeedSpec` assumes that handlers go on, that what is written to Redis is sent and
what is received is handled; a connection that is lost need not come back. `NodeSpec`,
`GoSpec`, `FeedSpec` and `OrderApi!Spec` are the same behaviours without fairness; the
theorems are about these, about `RecoverySpec` and about `Spec`.

### What the code does otherwise than its text says

* `throw_in_mid_command`: "Order book state can be recovered from Redis command
  streams and recovery snapshots" (`README.md:492`). A command that throws after it
  has changed the book is REJECTED and not logged (`orderCommanderWorker.js:159-176`);
  the live book keeps the change until the process ends. `OrderBook` shows that such
  throws exist: a stop order is stored unvalidated and throws when triggered.
* `data_loss`: "enforces zero-data-loss failover" (`README.md:2`). The key of a late
  leader expires after it has passed the check at `orderCommanderWorker.js:123`. The
  successor recovers and consumes beside it, the old leader appends and reports
  PROCESSED, the successor processes the next command and saves a snapshot with a
  later checkpoint and without the first command. No recovery replays it again.
  `ImplementsTurns` shows that this needs a loss, and `LossIsNoticed` that two leaders
  do not last.
* `leftover_consumer`: "Each partition queue has only one active consumer"
  (`README.md:489`). When the last leadership check of a promotion throws
  (`MatchingNode.js:133`), the catch block stops the heartbeat and releases the key but
  leaves the consumer that line 124 has started. The other node takes the key and
  consumes beside it, with no key lost and no node stopped.
* `trailing_peak`: "highest traded price seen after order placement"
  (`OrderBook.js:132`). A seller who trades at 3 and then at 2 in one call leaves the
  peak of a trailing stop order at the last of the two, since line 326 passes on the
  last trade of a batch only. `TrailsTheMarket` is what holds instead.

### What the runs show besides

* Deduplication does not depend on leadership for the Node workers: `LoggedOnce` holds in
  `nodes` with two consumers at work. What needs leadership is order, and the agreement of
  book, snapshot and log.
* A Go worker whose key expires and whose connection goes while it handles a command may
  append that command beside the worker that has it next: both have passed the check of
  the processed ids (`processor.go:69`, `85`). It takes both faults.
* A handler that has not executed its command when its node is demoted executes it on the
  registry that was just reset, or on the book that was just rebuilt
  (`MatchingNode.js:188-190`): the book of that standby has a command that the log has
  not, or one too many, until its node recovers again. It takes a key lost in use, or a
  consumer left behind.
* A symbol that is blank for Go only (U+0085) is accepted by the API and by the Node worker,
  and dead-lettered by a Go worker with its status left at QUEUED. One with a lone surrogate
  would be too, as `encoding/json` replaces it, but a route takes its symbol from a URL,
  whose decoding yields none: the condition is there since `Symbols` may be any.
* A Go run that ends for a signal or a lost key may cost the command in hand: its
  calls fail, the rejection's too, and it is dead-lettered with its status left at
  QUEUED (`EndCostsOneCommand`: one command at most).
* After the broker has been away, the API's `channel` still is the closed one, and
  every later request fails, until the process restarts (`connectRabbitMQ` looks at
  the variable only for null). Requests are answered nevertheless
  (`EveryRequestIsAnswered`). What was accepted may be lost on the way or for want
  of a queue, and in no other way (`AcceptedIsDecided`).

## 4. Proofs

Everything here holds for any constants that meet the assumptions, and for behaviours
of any length. The assumptions are those that the modules declare: submitted orders
have the shape of `OrderInput`, the cycle limit is at least 1, `NoOrder` is neither an
id nor an order (`OrderBook`); `Null` is neither an order nor a level and `MaxQuantity`
is positive (`PriceLevel`); `CommandAssumption`, and `BoundsAssumption` that the bounds
on faults are numbers (`CommandWorker`); there is at least one partition and one integer
(`PartitionerAssumption`), and symbols are sequences of code units
(`SymbolsAssumption`, `OrderApi`). No number of processes, commands, orders or
faults is fixed, and sets of constants need not be finite.

Some theorems have a hypothesis of their own, which is the part of a property's condition
that is a constant. `HalfApplied = {}` (no command throws after it has changed the book)
in `SnapshotAlwaysReplay`, `LiveBookAlwaysReplay`, `StandbysFollowLog`,
`HandoversAlwaysSafe` and `FailoversAreTurns`: `throw_in_mid_command` shows what happens
otherwise, and all runs but that one are made without such commands. The bounds on faults
are hypotheses of no theorem.

### The engine

**The book** (`OrderBookProofs`): `TypeOK`, `Uncrossed`, `IndexesAgree`,
`RestingIsActive` and `IdsAreUnique`. They are proved together as `IInv`, which is
`TypeOK`, the invariants of the book (`BookInv`) and what is known of the running
call (`CallInv`): who the taker is in which phase, that it has something to do
with what is in the Maps, that the list of eligible orders is part of
`stopOrdersById`. No conjunct is inductive alone: `Uncrossed` after `EndMatching`
needs that the taker accepts no price on the other side and that its own side's
levels are those of the orders; `IndexesAgree` after `MatchOne` needs that the
maker has the rest of the level behind it, each once; `RestingIsActive` needs that
what `Fill` is called with is at most what is left.

**Totals** (`OrderBookProofs`, `QuantitySums`): `TotalsMatch` is inductive together with
`IInv`. A step changes at most one level and what at most one order has left
(`OneTotalChanges`); the orders of the other levels are others, by `IndexesAgree`. That
taking an order out of a set, adding one, or changing one changes the sum by what the
code subtracts or adds is what `QuantitySums` shows (`TotalTakes`, `TotalAdds`,
`TotalFollows`). The sum is the fold of the community modules, which chooses an order of
summation; that the choice does not matter is proved by induction on the size of the
set. The library's induction theorems cannot be instantiated, so induction is stated for
a *set* of numbers (`NatIsReached`), from the well-foundedness of `<`.

**Price-time priority** (`OrderBookProofs`): `Spec => ImplementsPriority`, that is,
every step of the book is a step of `PriceTimePriority` or leaves its state alone. The
mapping forgets levels, queues, totals, stop orders and calls. `IInv` says that the
maker is in the best level; that it is the earliest there needs `TimeInv`: each queue
is in the order of the ranks in `ordersById`, and all ranks are behind the clock, so
that an order that rests is the last. `TimeInv` is kept because removal from any
position of a queue keeps its order (`RemoveIsSorted`, `TailIsSorted`) and because an
order is in one level only (`InOneLevel`, from `IndexesAgree`).

**Stop cascades** (`OrderBookProofs`): `CascadeInv` says that at the loop heads
nothing is due once a cycle has run its list, and that the last trade price is that of
the batch the cycle began with. From it follow `EligibleIsCurrent`, `CascadeSettled`
and `LastPriceIsLastTrade`. `TrailsTheMarket` is inductive together with `TypeOK`, and
gives the action property `TriggerRatchets`: a watermark moves only when the last
trade is beyond it, and the trigger is at a fixed distance.

**Recovery** (`OrderBookProofs`): the snapshot sorts and lists, the new book flattens and
looks up, and the result must be the book that was lost, but for the ranks.
`RecoveryIsFaithful` is proved for any reachable book, also one that has been recovered
before. The invariant is `RInv`: `IInv` and `TimeInv` again, since the queues are replayed
into `ordersById` level by level and must come out in the order they are in;
`TotalsMatch`, since the saved total is not restored but summed anew from the orders; and
`Entries`: the Maps are finite, so that there is a sorted list of them, and no two stop
orders have the same rank, so that there is only one. The proof goes through the operators
as the code does: the sort lists every member once and in order (`SortedBy` is a choice
among all listings, so that one exists is shown by induction on the size of the set); a
level restores to its queue, since no resting order is empty; the flattening of the levels
puts each order behind the earlier levels and at its place in its own (the place is the
new rank); so queues, totals, orders and the order of the stop orders come back, and `RInv`
with them. Calls keep `RInv` by the lemmas of the sections above. Hence
`BookSurvivesRecovery`, `QueuesAlwaysInOrder`, `RecoveryAlwaysFaithful`, and, since stop
orders come back with their watermarks and triggers, `TrailsThroughRecovery` and
`RatchetsThroughRecovery`.

**The price level** (`PriceLevelProofs`): the invariant `LInv` says that for each level
some sequence of distinct orders is threaded by its links (`Chain`): the head is the
first, the tail the last, `next` and `prev` lead from each to its neighbours, the orders
of the level are those of the sequence, `orderCount` is its length and `totalQuantity`
the sum of what its orders have left; and an order of no level has no links
(`Detached`). `append` makes the chain longer by one, `remove` closes it over the order it
takes out, wherever that is. What a walk along the links yields (`Forwards`, `Backwards`)
is that sequence, by induction along the walk. From this follow `WellLinked`,
`HeadIsCovered` (what the head has left is at most the total, so `decreaseTotalQuantity`
never throws after a fill) and the refinement of `FifoQueue`, whose queue is `Forwards`.

### The worker

**The log** (`CommandWorkerProofs`): `Spec => ImplementsLog`:
whatever crashes, is redelivered or fails, the log and the event stream take commands
in the order of the queue, none twice, as long as processes take turns. From
`PartitionLog` alone, `NoRepetitionNoOvertaking` derives what that means. The
invariant `IInv` places a message: the queue is the end of `sent`, the message in hand is
the one just before it, and everything logged lies before the message in hand or, once it
has been appended, ends with it; the event stream lies behind the log in the same way. A
crash or a requeue puts the message back where it was, which is why nothing overtakes.

**Statuses** (`CommandWorkerProofs`): `StatusIsTrue` is inductive once one adds that a
message being rejected is not in the log unless a call has failed, that a command
whose status is REJECTED is not in front of the handler before its append, and that a
handler past its append holds a logged command (`StatusInv`).

**No command twice** (`CommandWorkerProofs`, `MatchingNodeProofs`):
`LoggedOnce` for turns and for the nodes, with keys that expire in use, stops with a
handler in flight, consumers left behind and failing calls. It rests on the broker having
a message in one place, which it has as long as no connection is lost under a live handler;
for the Go workers it does not hold. Leadership plays no part: `DInv` says that a
message is in one place at a time (the queue or one handler, once), and that a handler
past `isCommandProcessed` and before its append holds a command that is not logged.

**Books are replays** (`CommandWorkerProofs`): `WorkerInv` is `IInv`, `StatusInv` and
`ReplayInv`. The latter says of each stored book and of the book of each process that
consumes which prefix of the log it holds: the snapshot has every command up to its
checkpoint in it and, while no call has failed and no command throws in mid-change
(`Clean`), is exactly that prefix; a live book is the log, plus the command in hand between
its execution and its append. That the replay of a prefix of commands that do not throw is
that prefix is again an induction stated for a set. The theorems are the types (a
checkpoint never points beyond the log), `SnapshotIsReplay`, `LiveBookIsReplay`, and,
without any condition, `ProcessedSurvives`: what a snapshot leaves out is in the log behind
its checkpoint, whatever failed before.

### The processes

**One consumer** (`MatchingNodeProofs`, `GoWorkerProofs`): `KeyGivesOneConsumer` and
`OneGoConsumer`. For the nodes the invariant is that, until a loss, a node that promotes,
leads or consumes holds the key (`KeyIsKept`), which every path out of a promotion or a
demotion must restore in the right order; a promotion that fails at its last check is the
one path that does not, and `leftovers` counts it. For the Go workers it is that a run has
the key until its last deferred call (`KeyOutlivesRun`).

**Failovers keep the partition** (`MatchingNodeProofs`): `KInv` adds to it `KeepInv`, under
the condition `NoLoss`. It carries `WorkerInv` over to nodes whose books are not all live:
a standby's book holds the log up to `replayed[p]`, a promotion that has loaded, replayed
and rechecked holds what its stage says (`InStage`, `UpTo`), and since nobody else appends
while a promotion holds the key, it finds the end of the log where it left it. Theorems:
`FailoversKeepPromise` (no repetition, no overtaking, no PROCESSED command lost, through
crashes, failing calls and promotions that fail before their last check) and
`StandbysFollowLog`.

**Failovers are turns** (`MatchingNodeProofs`): `NodeSpec => ImplementsTurns`, the
refinement of `CommandWorker` by every step up to the first loss or failing call. A node
that consumes has the turn; the step that starts the consumer is `TakeTurn`, and `InStage`
says that the book it starts with is the one a recovery from the stores would give.
Everything a standby or a promotion does before it is a stutter. Up to there
`CommandWorker`'s safety theorems therefore hold of the nodes too.

**Hand-overs of Go workers** (`GoWorkerProofs`): `RInv` says that until a key expires in use
the log is in order and each run's book is what its stage has loaded so far, as long as its
context lives (`Loaded`, `Ready`): calls made with a cancelled context change nothing, and a
run whose context is cancelled only dead-letters. Hence `GoHandovers` and
`HandoversAreSafe`.

**The cost of an end** (`GoWorkerProofs`): `CostInv` is an amortised count. A signal or a lost
key dooms a worker that runs; a doomed worker can dead-letter one command and is doomed no
more. `Paid` says that dead-lettered commands and doomed workers together are at most the
signals and expiries, as long as no other call has failed, which is `EndCostsOneCommand`.

### The feed

**Told once, in order, without a gap** (`MarketFeedProofs`): `FeedInv` places an
announcement as `IInv` places a message. What a client has seen, what is in the inbox and
what a process has yet to publish name commands that the handlers are through with
(`PastCommands`), each once; all of it, read in this order, is a chain in which no command
comes twice and, while no leadership check has been in doubt, none out of the order of the
queue, since only the process that consumes has anything to publish (`OnePublisher`). Every
command announced as applied was in the read model before it was announced, so a client
that joins before it fetches finds it in one or the other (`Covered`). Theorems:
`ToldOnceInOrder` and `NoGap`.

### The API

**Partitions** (`OrderApiProofs`): `PartitionersAgree` says that the Node and the Go
code take every symbol for the same partition, for any number of partitions and any
number of integers, 2^32 included, unless the symbol is blank for Go or not well-formed
(`IsCommon`). The JavaScript sum is not wrapped, Go's is; both are then an operand of an
exclusive or, which wraps, and `Wrap` changes nothing modulo `Modulus`
(`WrapIsCongruent`). So each round is the same function (`RoundsAgree`), and what is
left is that rounds keep integers integers: `Xor` by strong induction over its recursive
definition, the hash along the symbol (`HashIsInt`), both stated for sets.

**Queues and statuses** (`OrderApiProofs`): `ApiInv` follows a command from its route to
its decision. Whatever is on a wire or in a queue is the command of a request that has been
answered (`SentIsAnswered`), so its route saves no status any more, and a worker decides
only such commands (`DecidedIsFinal`); the partition a request carries is that of its
symbol (`RoutedByHash`), which never changes once received, and a queue holds what was
routed to it (`InItsQueue`). Which channel is open, lost or replaced plays no part:
`QueuedAlwaysUndecided` and `AlwaysInOwnQueue` hold for any number of requests, attempts
and broker stops.

### Only model-checked

Every invariant, every action property and every refinement of the passing runs is stated by
a theorem, `StatusIsTrue` for processes that take turns: for nodes that lose keys it is
model-checked. What is left to TLC:

* Recursive operators: none is used in a module with a theorem. Replays and walks are folds
  or recursive functions, and what is proved of them is proved by the induction described
  above.
* Liveness: `CallsEnd`, `EveryCommandSettles`, `SomeNodeLeads`, `LossIsNoticed`,
  `EveryCommandIsDecided`, `EveryRequestIsAnswered`, `AcceptedIsDecided`,
  `OutcomeIsTold`.

## 5. Not modelled

* The Go matching engine is a port of `OrderBook.js`, step by step; a module for it
  would repeat `OrderBook`. Its difference that matters, stop orders that are validated
  when they are placed, is `OrderBook` without `TriggerThrows`.
* Read routes, the server, error handling, configuration, the documentation generator
  and the sample client keep no state.
* Stream trimming (`RedisCommandLog.js:24`) and the expiry of keys: they need logs
  longer than any bound here. Every processed command saves a snapshot, so a trimmed
  stream matters to a replay without one only.
* A second handler in one process, beside that of a consumer which a promotion has left
  behind there (`MatchingNode.js:133`), and a demotion by the heartbeat whose recovery
  throws (`MatchingNode.js:190-194`).
* A broker that shuts down under a Node worker, and a consumer that the broker cancels
  (`orderCommanderWorker.js:84`): the worker goes on renewing its key and consumes
  nothing, which no text of the repository excludes. In `GoWorker` the loss of the
  connection is a step; its retries of the connection are not.
* Several symbols of one partition: `BookRegistry` and the streams keep them apart; only
  `discoverSymbols` of the replica meets all of them, and is left out.
* A message that is not JSON, timestamps, user ids, the wording of events, and the
  trade history `this.trades`, which the engine never reads.
