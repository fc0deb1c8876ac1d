# Market Data Hub: specification and verification

The hub (`src/app`) is one asyncio process.  It keeps one WebSocket to the
Coinbase Exchange, normalizes what it receives, keeps the latest state of each
topic (product), and streams events to any number of downstream WebSocket
connections.  Upstream subscriptions follow downstream demand.  This directory
models that process in TLA+, checks it with TLC and proves parts of it with TLAPS.

## 1. Inventory

| Component (source) | State | Operations | Interacts with |
|---|---|---|---|
| Connection registry (`registry/connection_registry.py`) | consumer → topics; topic → reference count | register, unregister, subscribe, unsubscribe, get_status | called by the endpoint, the status routes, the MCP tools |
| Broker (`pubsub/broker.py`) | topic → attached consumers; consumer → bounded queue | subscribe/unsubscribe/remove consumer, publish, get_consumer_queue | endpoint attaches; client publishes; pump reads |
| Upstream client, connection (`ingestion/coinbase_client.py`) | `_topics`, `_ws`, `_ws_lock`, runner task, stop event | start, stop, subscribe_topic, unsubscribe_topic, the reconnect loop | endpoint calls it; the exchange and the network are outside |
| Upstream client, data path (same file) | – | parse, normalize, filter by demand | snapshot store, broker, metrics |
| Snapshot store (`cache/snapshot_store.py`) | topic → last price, bid, ask, update time | apply_event, get_snapshot, list_snapshots | written by the data path, read by REST and MCP |
| Endpoint `/ws` (`main.py`) | per connection: handler task, pump task, `queue_ready` | subscribe, unsubscribe, reject, disconnect, cleanup | all of the above |
| Runtime (`runtime.py`) | the services and the counters `HubMetrics` | startup, shutdown | lifespan of `main.py` |
| Status routes (`api/status_routes.py`), MCP tools (`mcp/tools.py`) | none | read-only views made of several reads: status, catalog, snapshot of a topic | registry, client, store, metrics |
| MCP server and HTTP mount (`mcp/server.py`, `mcp/http_mcp.py`), configuration (`config.py`) | none of its own | – | libraries, environment |

### What makes it correct

* Registry: each count is the number of holders; a call moves a count by at most one consumer.
* Broker: per consumer, in order, bounded, freshest kept, independent of other consumers.
* Client: what the exchange serves is what the hub wants, through reconnects;
  calls return; `stop` leaves no task and no socket.
* Endpoint: registry, broker and client tell the same story; a finished
  connection leaves nothing behind; requests are answered.
* Store: fields and staleness of a row follow from the events seen.
* Views: REST and MCP say the same of a topic; what one answer mentions the
  others know; the tools do what their schemas say.
* Retries: spaced by delays that grow, are capped, and start anew after a connection.

### What is hard

Tasks of one event loop switch only at an `await` that suspends.  The locks of
registry and broker, and `_lock` of the client, are never held across such an
await: acquiring them never suspends, so any chain of calls through them is
atomic.  `_ws_lock` is different: it is held across `ws.send`.  Everything
interesting happens there: handlers, the runner's re-subscribe and `stop` queue
for it in FIFO order (asyncio.Lock does not let a newcomer overtake a waiter
that was woken), with decisions made before the wait.  On top of that, the
upstream connection can be lost, the runner cancelled, and the downstream peer
gone at any suspension.  The full list, with lines, is `hazards` in
`PROJECT.json`.

## 2. Modules

| Module | Models | State ↔ code | Actions ↔ code |
|---|---|---|---|
| `ConnectionRegistry` | the registry | dicts are functions on the keys present | one per mutator |
| `PubSubBroker` | the broker | buckets; queues as sequences | one per method; `GetMessage` is the pump's `queue.get` |
| `SlidingWindow` | abstract: what a consumer is promised | streams offered and received, and how far the window has passed | open, offer to a set, take, close |
| `BrokerStreams` | the broker with its history and the counters of `HubMetrics` | | as `PubSubBroker` |
| `CoinbaseClient` | connection side of the client | `ws_lock` is the FIFO queue of owner and waiters, each with the frame it will send; `wire` is what the exchange serves | one per stretch of a task between two suspensions |
| `Reconnect` | the retry counter and delay of `_run_loop`, added to the client | `attempt`, `last_delay` | reset in the step in which `_set_ws(ws)` returns, drawn in the step in which the loop begins to wait |
| `Hub` | `main.py` over instances of registry, broker and client | where handler and pump of each connection are suspended; `running` is the handler that has not been suspended | one per such stretch |
| `SnapshotStore` | the store | rows and the wall clock | operators for update and reads |
| `Ingestion` | data path: frame → event → store → publish | demand, published events | `ReceiveFrame`, demand changes, the clock |
| `HubViews` | the answers of `status_routes.py` and `tools.py` over the registry, the store and the client's topic set | answers are operators on the state, as no suspension falls between their reads; what the code writes twice is written twice here: each of the four functions that merge the stores, and the names of the tools in the checked set, the specs and the dispatch | the steps are those of the stores |
| `ConnectionRegistryProofs`, `PubSubBrokerProofs`, `BrokerStreamsProofs`, `CoinbaseClientProofs`, `ReconnectProofs`, `IngestionProofs`, `HubProofs`, `HubViewsProofs` | theorems about the module of that name | | |
| `MC*` | instances for TLC | | |

Definitions whose comment starts with "Mutation" are deliberately wrong variants
of the definition that follows.  No specification uses them.  Each shows that
a property fails if the code had that defect (`mutants` in `PROJECT.json`).

Decisions worth knowing:

* **Suspension.**  An action runs from one suspension to the next.  A task that
  finds `_ws_lock` free takes it, sends and goes on within the action; `ws.send`
  may finish at once or suspend (then the frame counts as delivered when it
  ends, as nobody else can send meanwhile).  In `Hub`, a handler whose call
  into the client returned at once keeps `running`, and no other task moves
  until it is suspended.
* **Sockets.**  `sock` is the runner's current socket.  A frame for a missing or
  closed socket is dropped without a word, as `_send_json` does.
* **Cancellation.**  `stop` marks the runner cancelled.  Its next step is the
  CancelledError at the await it is suspended at, including inside its own
  `finally`.
* **Numbers that overflow.**  `FatalFrames` lets the exchange send a frame on which
  `float()` or `json.loads` raises something `_run_loop` does not catch.
* **`Faulty` callers.**  `main.py:230` handles an exception of `subscribe_topic`.
  With the websockets library in use `send` raises only ConnectionClosed, which
  is swallowed, so the set is empty except in `hub_faults`, which exercises
  the rollback.
* **Finally.**  The handler cancels its pump and is suspended in `await pump_task`
  until the pump has met its CancelledError (`PumpCancelled`); other handlers, and
  other pumps, run in between.  A pump that has ended already lets it run on, and
  one that has failed makes the await raise.
* **Lost peers.**  A message that arrived before its peer was lost can still be read
  afterwards; of those at most one is left (`link = "unread"`).
* **Connections.**  A member of `Conns` is a slot; each new connection has a fresh
  uuid, so a slot may be used again once its handler has returned.

## 3. Runs

| Run | Instance | Shows |
|---|---|---|
| `views` | 3 consumers, 2 topics, one of them a default, clock 0..2 | counts exact (`RefcountsExact`), one consumer per step (`OneStepDemand`); the numbers of a status add up; nothing known is missing from the catalog; the four merges of the stores agree with each other and with `/status` (`OneTruth`); names, schemas and dispatch of the tools fit together (`ToolsFollowSpecs`); what was listed stays readable |
| `broker` | 2 consumers, 2 topics, room for 2, 3 messages | tables consistent, queues bounded, order across topics, newest message kept, events after an unsubscribe only drain, counters balance, and the broker implements `SlidingWindow` |
| `client` | 2 callers, 2 topics, 2 lost connections, fatal frames | `QueuedFramesLeadToDemand`: the frames still queued make up what the exchange does not serve yet, so that with none queued it serves exactly what is wanted (`WireInSync`, proved with it); the queue of the send lock holds exactly the tasks that wait for it (`LockServesWaiters`), no orphan socket, stop leaves nothing |
| `reconnect` | 2 callers, 1 topic, 2 lost connections, base 1 s, cap 60 s, jitter 0.8 or 1.2, fair | delays grow, are capped and never short of the doubled base, and start anew after a connection; calls and stop return; stable demand is served |
| `client_fatal_frame` | as above, expected to fail | finding 6 |
| `hub` | 2 connections, 2 topics, queue of 1 | the tables of all components are typed (`HubTypeOK`, with the registry's `RegistryTypeOK`), no queue goes before its pump was cancelled and awaited (`PumpHasQueue`), no trace after a finished handler, nothing unwanted upstream |
| `hub_faults` | 2 connections, 1 topic, sends that raise | registry and broker agree through rollbacks; the hub implements the specifications of registry, broker and client (`ImplementsComponents`) |
| `hub_served` | 2 connections, 1 topic, 2 lost connections, no market events, fair | demand is in the client's set at all times, a hub at rest serves exactly the demand (`QuietHubServesDemand`), no handler hangs in the hub, though its sends wait behind lost connections and the re-subscribe (`HandlersSettle`), and demand is served in the end |
| `hub_stale_cleanup`, `hub_pump_failure`, `hub_no_socket` | expected to fail | findings 1–3 |
| `ingestion` | 3 frames, 2 topics, clock 0..2 set back at will, threshold 1 | snapshots are the last known values of each field by itself, staleness exact, update time never goes back |

**Bounds.**  Named in the modules: `MaxDrops`, `MaxPublished`, `MaxFrames`,
`MaxTime`.  Two connections suffice for one to race another's cleanup; two
callers and the runner fill the lock queue with an owner and two waiters; two
topics let a cleanup have two topics to give back; two lost connections let the
reconnect after the first be lost too, while handlers wait; three messages overflow a
queue of two.  The retry counter is followed up to 8, above which the code treats all
values alike; only the two extremes of the jitter are tried, as delays are
monotonic in it.  Connections in `views` are interchangeable (symmetry).
Of the messages of a lost peer at most one is unread (`link`).  Nothing else is
bounded: requests, reconnect attempts, connection
slots and broker calls repeat for ever.

**Fairness.**  In the client, weak fairness of each task: a task that is ready
runs, a send or close ends (a dead peer is found by `ping_timeout` and
`close_timeout`), a timer fires.  In the hub, strong fairness of each handler, with the
pump it has cancelled and the message it has still to read, and of the runner: the ready queue of the event loop is
FIFO, so a task held up only while other tasks run is not passed over for ever.
In both, strong fairness of a successful connect: an exchange asked again and
again accepts at last.  Nothing is assumed of downstream peers: a peer may send
nothing, and one that does not read may hold up the acknowledgement of its
handler (`Replied`) and the events of its pump (`PumpSent`) for ever, on the same
socket.  A handler in `HandlersSettle` may therefore wait for its peer while that
is there, and for nothing else.  `CHECK_DEADLOCK FALSE` in the hub runs:
there, the hub may really have nothing left to do (all slots ended by finding 2,
no connection left to lose).  `reconnect` has no fatal frames, as a dead
runner serves nobody.

## 4. Findings

1. **Stale counts in the cleanup** (`main.py:315`, run `hub_stale_cleanup`).
   `_cleanup_ws_consumer` reads one status and then unsubscribes topic by topic.
   While the first unsubscribe waits for the send lock, another consumer may
   subscribe the second topic; the cleanup then removes it from `_topics`.  It is
   wanted and acknowledged, and no reconnect brings it back.  With one topic the
   window does not exist: `hub_served` passes with the same property.  Two topics
   in one cleanup are all it takes: `DemandAlwaysUpstream` proves the property for
   every behaviour in which no cleanup has two topics to give back.
2. **A failed pump prevents the cleanup** (`main.py:170`, run `hub_pump_failure`).
   Only CancelledError is suppressed around `await pump_task`.
3. **A first subscribe without a socket is acknowledged**
   (`coinbase_client.py:218`, run `hub_no_socket`), where `docs/TOPICS.md` 8.4
   describes `upstream_subscribe_failed`.  Demand is made up by the next connect
   (`DemandReachesWire`), so the document is what is off.
4. Not a run: the rollback of a failed subscribe leaves the topic in `_topics`
   (`main.py:230-233`), and a consumer that subscribed while the failing send
   waited stays acknowledged without a frame ever having been sent for it
   (`hub_served` with `Faulty <- MCOneFaulty` shows it).  No send of the library
   in use raises anything that starts a rollback.
5. Not a run: the first delay after a lost connection is drawn around twice
   `reconnect_delay_seconds` (`coinbase_client.py:176` raises the counter before
   it is used), where `config.py` calls that setting the "base delay" and
   `docs/SYSTEM_ARCHITECTURE.md` 6.2 has the backoff start from it.
   `DelayWithinBounds` states what the code does.
6. **A number that overflows ends the reconnect loop**
   (`coinbase_client.py:343`, run `client_fatal_frame`).  Nothing restarts it, and
   `/health` goes on saying that the runtime is ready.
7. Not a run: **a mid may join two events** (`snapshot_store.py:123`).  Each side of the
   book is kept from the last event that carried it, so a ticker with only a bid
   and a later one with only an ask give a numeric mid.  `docs/MCP_CONTEXT.md` 9
   (line 303) says that a numeric mid is "from the last merged event that had
   **both** bid and ask".  `MidOfOneEvent` in `Ingestion` states that sentence, and
   TLC violates it in the instance of `ingestion` with just these two tickers.
   `SnapshotIsLastKnown` states what the code does and `docs/TOPICS.md` 4.2 asks:
   a mid as soon as both sides are known, be it from two events.

## 5. Proofs

TLC checks a small instance, TLAPS every value of the constants.  The theorems
are listed under `theorems` in `PROJECT.json`.  Each invariant below is
inductive; what a run checks follows from it.

| Module | Invariant | Properties that follow |
|---|---|---|
| `ConnectionRegistryProofs` | `RegistryInv` | `RegistryTypeOK`, `RefcountsExact`, `OneStepDemand` |
| `PubSubBrokerProofs` | `BrokerInv` | `BrokerTypeOK`, `SubscribersHaveQueues`, `Bounded` |
| `BrokerStreamsProofs` | `StreamInv`; with it `OrderInv`, `CaughtUp`; `CountInv` | `ImplementsWindow`; `StreamInOrder`, `FreshestKept`, `LateEventsOnlyDrain`; `MetricsBalance` |
| `CoinbaseClientProofs` | `SocketInv`; `LockInv`; `SyncInv` (if `Faulty = {}`) | `NoOrphanSocket`, `StopLeavesNothing`; `LockServesWaiters`, `ClientTypeOK`; `QueuedFramesLeadToDemand`, `WireInSync` |
| `ReconnectProofs` | `DelayInv` | `DelayWithinBounds`, `RetriesSlowDown`, `ConnectionForgives`; `ReconnectSpec => ClientSpec` |
| `IngestionProofs` | `IngestionInv` | `StoreTypeOK`, `SnapshotIsLastKnown`, `StaleIsExact`, `UpdatedAtAdvances` |
| `HubProofs` | `ReplyNamesTopic`, `TaskInv`, `TasksTyped` | `ImplementsComponents`, `RegistryBrokerAgree`, `PumpHasQueue`, `GoneLeavesNoTrace`, `HubTypeOK`, and `NothingUnwantedUpstream` if `Faulty = {}` |
| | `DemandInv` (while `CleanupsGiveOneBack`) | `DemandIsUpstream`; with `Faulty = {}` also `QuietHubServesDemand` |
| `HubViewsProofs` | `RegistryInv`, `TablesInv` | `RefcountsExact`, `OneStepDemand`, `StatusAddsUp`, `EveryTopicListed`, `OneTruth`, `ListedStaysReadable`; `ToolsFollowSpecs` in every state |

**Registry.**  The type invariant is needed in the induction because
`_decrement_topic_refcount` pops an entry at zero: that a present entry is at
least one makes the pop exact.  `DecrementEffect` says what a decrement over a
set of topics does to each count; one lemma per action relates the holders of a
topic before and after by adding or removing one consumer.

**Broker.**  That a queue is created with the first attachment and deleted only
together with the last one is inductive with the bound.  For the refinement of
`SlidingWindow`, `StreamInv` says that what waits is a suffix of what was
offered: then the number of messages passed is a difference of two lengths, and a
step moves one or both of them by one.  Order and freshness need `OrderInv` (what
was offered and what was read are ordered, and what waits is newer than what was
read) and `CaughtUp` (if nothing waits, the newest was read).  For the drain, the
places of a topic in a queue without its head map one-to-one into those of the queue.
`MetricsBalance` counts the places taken in all queues; `CountInv` adds that only
finitely many consumers have a queue, which needs no assumption as the tables start
empty.  A publish takes one new place in each receiver's queue that is not full,
and none in a full one.

**Client.**  `NoOrphanSocket` is not inductive.  `SocketHasOwner` says of each place
of the runner who holds the open socket: the runner itself, `_ws`, or, when a
cancellation has ended the runner in its `finally`, `stop`, which finds the
socket in `_ws` and closes it.

`LockInv` says that the tasks at the send lock are those that wait for it, one
place each, the sender in front.  Steps that join, leave from the front or wait
again behind the others keep it; a cancellation takes the runner's one place out
of the queue, from wherever it is, and in front of it hands the lock on.  That
types the queue after a cancellation, so that `ClientTypeOK` follows for a client
that is stopped.

`SyncInv` is about the queue of the send lock: for each topic, the last frame
that mentions it decides whether the exchange is going to serve it, and that
agrees with `_topics`.  It is claimed only while no cancellation unwinds the
runner, as that removes the runner's frame from the middle of the queue.  It
takes from `SocketInv` who holds the socket, and needs `Faulty = {}`: a send that
raises after `_topics` was changed loses its frame (finding 4).

**Reconnect.**  `DelayInv` says that the retry counter stays within the bounded
exponent, that the last delay is the one drawn for the current retry when that is
not zero, that the counter is zero while `_ws` is set (and `_ws` is cleared before
the socket is closed), and with that the bounds of a delay, for all base delays,
caps, exponents and jitters that `ReconnectAssumption` admits.
`ReconnectImplementsClient` shows that every behaviour with counter and delays is
one of the client, so that what is proved of it holds here too.

**Data path.**  The properties find the newest event by CHOOSE.  `IngestionInv`
speaks of it relationally: some event of the topic carries the row's value and
no later one carries any; one more event keeps that true or takes its place.

**Hub.**  `HubImplementsComponents` shows that each step of the hub is at most one
step of registry, broker and client, through their own tables; so their theorems
hold inside the hub (`HubCountsExact`, `HubQueuesBounded`, `HubOrphansNoSocket`).
It needs `ReplyNamesTopic`: a rollback gives back the topic that was asked for.
`TaskInv` relates the tasks of a connection: a call into the client has its
handler inside it, a handler awaits only a pump that it cancelled or that is
over, the pump has ended before its queue is deleted, from the cleanup on the tables do not know the connection, only a cleanup has topics to
give back.  That a handler has at most one place at the send lock, and none once its
call has come back, is the client's `LockServesWaiters`, which holds in the hub
because the hub runs the client (`HubLockServesWaiters`); with `TaskInv` and
`RegistryBrokerAgree` that gives `GoneLeavesNoTrace`.  `TasksTyped` adds that a
connection is registered from accept to cleanup, so that the cleanup reads its
topics from an entry that is there.

`DemandIsUpstream` is false in general (finding 1), and `DemandInv` shows where it
breaks.  It says that a topic a cleanup has in hand is one nobody wants, and that its
handler has not been suspended since it knew.  The only step that does not keep
this is a suspension between two topics of one cleanup.  `CleanupsGiveOneBack` says
that no cleanup has two topics to give back; `DemandAlwaysUpstream` assumes it of
the behaviour, not of the constants, so consumers may want any number of topics
as long as none alone wants two when it goes.  With one topic it always holds
(`OneTopicHubServesDemand`).  The other half, that the exchange serves nothing
unwanted in a quiet hub, needs no such condition
(`QuietHubServesNothingUnwanted`).

**Views.**  The sum of the counts in `StatusAddsUp` is a fold over the active topics.
`SumIsPairs` shows that it is the number of pairs of an active topic and a holder,
by induction over finite sets, taken from the well-foundedness of the subset
relation as the library's own induction rule needs an operator parameter; the
pairs turned round are those the consumers list (`FS_Bijection`).  `TablesInv` says
that the tables stay finite whatever the set of topics.  `OneTruth` compares the four
merges, each as its function writes it, with the consumers that `/status` lists:
the counts they show are the number of holders because of `RegistryInv`
(`HintsAgree`), and their snapshots and the answers without one agree case by case.
That the tools follow their schemas needs no invariant: names, specs and dispatch
are compared for any contents of the stores.

**Assumptions.**  Finitely many consumers (`ConsumersFinite`), a queue size of at
least one (`QueueSizePositive`; the settings demand it), messages that
include the numbered ones (`StreamMessages`), distinct names for the tasks
(`HubConstants`, `ClientAssumption`), a price None that is no number
(`SnapshotAssumption`), arguments that are no product ids or no strings apart from
the topics (`ViewsAssumption`), `ReconnectAssumption`, and `Faulty = {}` where said.
The bounds `MaxPublished`, `MaxDrops`, `MaxFrames` and `MaxTime` are constants in
the proofs too, of any value.

**What stays with TLC.**

* Liveness (`HandlersSettle`, `DemandIsServed`, `CallsReturn`, `StopReturns`, `DemandReachesWire`): fairness
  and ENABLED are out of the prover's reach.
* `DemandIsUpstream` and `QuietHubServesDemand` without `CleanupsGiveOneBack`: the first
  is false then (finding 1), and the second with it.
* The properties of the runs that expect a violation.

## 6. Plan

1. Larger instances where time allows: three connections in `hub` with one topic.
2. `QueuedFramesLeadToDemand` while the runner is being cancelled, with the runner's
   frame taken out of the queue.

## 7. Not modelled

* MCP sessions and transports, over HTTP or stdio: library code.  The stdio
  process has a Runtime of its own (`server.py`), so that its tools show that
  process and not the hub that serves HTTP.
* Configuration parsing (its values are constants), wording of replies, schemas and logs.
* The size of a trade and the exchange timestamp (they only travel through),
  the age of a connection in `get_status`, the uptime and the count of messages
  sent downstream.
* Answers before the runtime is set (503, and "not_initialized" in `/health`):
  the server takes requests only between startup and shutdown of the lifespan,
  and no graceful-shutdown timeout is configured, so requests and handlers end
  before the runtime is shut down.  For the same reason `stop` is modelled at
  the client and not together with connections that are still served.
* What the exchange does with a frame that names a product it does not know:
  the hub logs the error message and keeps its demand (`docs/TOPICS.md` 8.3).
