--------------------------------- MODULE Hub ---------------------------------
(***************************************************************************)
(* app/main.py: the WebSocket endpoint /ws, which composes the registry,   *)
(* the broker and the upstream client.                                     *)
(*                                                                         *)
(* Each connection has a handler task and a pump task.  No lock of the     *)
(* registry or the broker is ever held across a suspension, so a handler   *)
(* runs through its calls to both, and into the client, without giving way *)
(* to another task.  It gives way where subscribe_topic or                 *)
(* unsubscribe_topic has to wait, and while it waits for its peer.  A call *)
(* to the client that comes back at once leaves the handler running: then  *)
(* no other task takes a step until the handler is suspended.              *)
(*                                                                         *)
(* A member of Conns stands for a connection slot: a new connection has a  *)
(* fresh uuid, and starts from a slot of which every trace is gone.  The   *)
(* phase modelled is the one in which the hub serves: the lifespan starts  *)
(* the client before it and stops it after it.                             *)
(*                                                                         *)
(* Bound: of the messages of a peer that is lost, at most one is still to  *)
(* be read.                                                                *)
(***************************************************************************)
EXTENDS Integers, Sequences, FiniteSets

CONSTANTS
  Conns,       \* downstream connections; the task and the consumer id of each
  Topics,
  QueueSize,
  Runner, Stopper, Faulty, MaxDrops,   \* of the upstream client
  Traded,      \* the topics of which the exchange has events to send
  Nobody       \* no handler is running

VARIABLES
  consumers, topic_refcounts,        \* the registry
  topic_subscribers, queues,         \* the broker
  topics, ws, sock, wire, ws_lock, in_send, call, runner,
  exiting, cancel, stop, stopper, drops,     \* the client
  handler,      \* where the handler task is suspended
  reply,        \* the acknowledgement it sends or sent last
  zeroed,       \* topics its cleanup has still to unsubscribe upstream
  pump,         \* where the pump task is suspended
  queue_ready,  \* the event that releases the pump
  link,         \* the downstream socket: "up", "lost", or lost with a message
                \* "unread", which receive_json returns before the disconnect
  running       \* the handler that runs without having been suspended

ASSUME HubConstants ==
  /\ Traded \subseteq Topics /\ Nobody \notin Conns
  /\ IsFiniteSet(Conns) /\ QueueSize \in Nat \ {0}
  /\ Runner \notin Conns /\ Stopper \notin Conns /\ Runner # Stopper
  /\ Faulty \subseteq Conns /\ MaxDrops \in Nat

Registry == INSTANCE ConnectionRegistry WITH Consumers <- Conns
Broker == INSTANCE PubSubBroker WITH Consumers <- Conns, Messages <- Topics
Client == INSTANCE CoinbaseClient WITH Callers <- Conns, FatalFrames <- FALSE

registryVars == <<consumers, topic_refcounts>>
brokerVars == <<topic_subscribers, queues>>
clientVars == <<topics, ws, sock, wire, ws_lock, in_send, call, runner,
                exiting, cancel, stop, stopper, drops>>
connVars == <<handler, reply, zeroed, pump, queue_ready, link, running>>
hubVars == <<registryVars, brokerVars, clientVars, connVars>>

NoReply == [op |-> "none", ok |-> FALSE]

Refcount(t) == Registry!TopicRefcount(t)

-----------------------------------------------------------------------------
HubInit ==
  /\ Registry!RegistryInit /\ Broker!BrokerInit /\ Client!ClientInit
  /\ handler = [c \in Conns |-> "gone"]
  /\ reply = [c \in Conns |-> NoReply]
  /\ zeroed = [c \in Conns |-> {}]
  /\ pump = [c \in Conns |-> "ended"]
  /\ queue_ready = [c \in Conns |-> FALSE]
  /\ link = [c \in Conns |-> "lost"]
  /\ running = Nobody

\* The handler of c is suspended at pc; the event loop may run anything.
Suspended(c, pc) == running = Nobody /\ handler[c] = pc
Goto(c, pc) == handler' = [handler EXCEPT ![c] = pc]

\* A call to the client leaves c running unless it suspended c.
RunsOnIfReturned(c) ==
  running' = IF call'[c] \in {"returned", "raised"} THEN c ELSE Nobody

\* The handler sends an acknowledgement, and is suspended.
Reply(c, op, t, ok) ==
  /\ Goto(c, "replying")
  /\ reply' = [reply EXCEPT ![c] = [op |-> op, topic |-> t, ok |-> ok]]
  /\ running' = Nobody

-----------------------------------------------------------------------------
\* accept, then the pump is created and the consumer registered.
Accept(c) ==
  /\ Suspended(c, "gone")
  /\ Registry!RegisterConsumer(c)
  /\ Goto(c, "reading")
  /\ pump' = [pump EXCEPT ![c] = "waiting"]
  /\ link' = [link EXCEPT ![c] = "up"]
  /\ UNCHANGED <<brokerVars, clientVars, reply, zeroed, queue_ready, running>>

\* receive_json returns a message.
TakesMessage(c) ==
  /\ Suspended(c, "reading") /\ link[c] # "lost"
  /\ link' = [link EXCEPT ![c] = IF @ = "unread" THEN "lost" ELSE @]

\* A message that is no JSON object, has another op, fails validation or names
\* no valid product is answered with ok = false and changes nothing.
RejectedMessage(c) ==
  /\ TakesMessage(c)
  /\ Goto(c, "replying")
  /\ reply' = [reply EXCEPT ![c] = NoReply]
  /\ UNCHANGED <<registryVars, brokerVars, clientVars, zeroed, pump,
                 queue_ready, running>>

\* Only the first demand for a topic goes to the exchange.
HandleSubscribe(c, t) ==
  /\ TakesMessage(c)
  /\ Registry!Subscribe(c, t)
  /\ Broker!SubscribeConsumer(t, c)
  /\ IF Refcount(t) = 0 /\ Refcount(t)' > 0
     THEN /\ Client!SubscribeTopic(c, t)
          /\ Goto(c, "subscribing")
          /\ reply' = [reply EXCEPT ![c] = [op |-> "subscribe", topic |-> t, ok |-> FALSE]]
          /\ RunsOnIfReturned(c)
          /\ UNCHANGED queue_ready
     ELSE /\ queue_ready' = [queue_ready EXCEPT ![c] = TRUE]
          /\ Reply(c, "subscribe", t, TRUE)
          /\ UNCHANGED clientVars
  /\ UNCHANGED <<zeroed, pump>>

SubscribedUpstream(c) ==
  /\ running = c /\ handler[c] = "subscribing" /\ call[c] = "returned"
  /\ queue_ready' = [queue_ready EXCEPT ![c] = TRUE]
  /\ Reply(c, "subscribe", reply[c].topic, TRUE)
  /\ UNCHANGED <<registryVars, brokerVars, clientVars, zeroed, pump, link>>

\* Mutation: the rollback forgets the broker.
RollbackRegistryOnly(c) ==
  /\ running = c /\ handler[c] = "subscribing" /\ call[c] = "raised"
  /\ Registry!Unsubscribe(c, reply[c].topic)
  /\ Reply(c, "subscribe", reply[c].topic, FALSE)
  /\ UNCHANGED <<brokerVars, clientVars, zeroed, pump, queue_ready, link>>

\* upstream_subscribe_failed: broker and registry are rolled back, the
\* client's topic set is not.
UpstreamSubscribeFailed(c) ==
  /\ running = c /\ handler[c] = "subscribing" /\ call[c] = "raised"
  /\ Broker!UnsubscribeConsumer(reply[c].topic, c)
  /\ Registry!Unsubscribe(c, reply[c].topic)
  /\ Reply(c, "subscribe", reply[c].topic, FALSE)
  /\ UNCHANGED <<clientVars, zeroed, pump, queue_ready, link>>

\* Mutation: every end of a demand goes to the exchange, not only the last.
UnsubscribeAlways(c, t) ==
  /\ TakesMessage(c)
  /\ Registry!Unsubscribe(c, t)
  /\ Broker!UnsubscribeConsumer(t, c)
  /\ Client!UnsubscribeTopic(c, t)
  /\ Goto(c, "unsubscribing")
  /\ reply' = [reply EXCEPT ![c] = [op |-> "unsubscribe", topic |-> t, ok |-> FALSE]]
  /\ RunsOnIfReturned(c)
  /\ UNCHANGED <<zeroed, pump, queue_ready>>

\* Only the end of the last demand for a topic goes to the exchange.
HandleUnsubscribe(c, t) ==
  /\ TakesMessage(c)
  /\ Registry!Unsubscribe(c, t)
  /\ Broker!UnsubscribeConsumer(t, c)
  /\ IF Refcount(t) > 0 /\ Refcount(t)' = 0
     THEN /\ Client!UnsubscribeTopic(c, t)
          /\ Goto(c, "unsubscribing")
          /\ reply' = [reply EXCEPT ![c] = [op |-> "unsubscribe", topic |-> t, ok |-> FALSE]]
          /\ RunsOnIfReturned(c)
     ELSE Reply(c, "unsubscribe", t, TRUE) /\ UNCHANGED clientVars
  /\ UNCHANGED <<zeroed, pump, queue_ready>>

\* An exception of the client is logged: the unsubscribe succeeds all the same.
UnsubscribedUpstream(c) ==
  /\ running = c /\ handler[c] = "unsubscribing"
  /\ Reply(c, "unsubscribe", reply[c].topic, TRUE)
  /\ UNCHANGED <<registryVars, brokerVars, clientVars, zeroed, pump, queue_ready, link>>

-----------------------------------------------------------------------------
\* Mutation: the cleanup comes before the pump is cancelled and awaited.
CleanUpFirst(c) ==
  /\ Registry!UnregisterConsumer(c)
  /\ Broker!RemoveConsumer(c)
  /\ zeroed' = [zeroed EXCEPT ![c] = {t \in consumers[c] : Refcount(t)' = 0}]
  /\ Goto(c, "cleaning") /\ running' = c
  /\ reply' = [reply EXCEPT ![c] = NoReply]
  /\ UNCHANGED <<clientVars, pump, queue_ready>>

\* The finally block up to `await pump_task`.  The handler is suspended until
\* the pump it cancels has ended; one that has ended lets it run on.  Only
\* CancelledError is suppressed, so a pump that has failed already makes the
\* await raise, and the handler ends without its cleanup.
EnterFinally(c) ==
  /\ \/ /\ pump[c] = "failed"
        /\ Goto(c, "crashed") /\ UNCHANGED <<pump, running>>
     \/ /\ pump[c] = "ended"
        /\ Goto(c, "joining") /\ running' = c /\ UNCHANGED pump
     \/ /\ pump[c] \notin {"failed", "ended"}
        /\ Goto(c, "joining") /\ pump' = [pump EXCEPT ![c] = "cancelled"]
        /\ UNCHANGED running
  /\ reply' = [reply EXCEPT ![c] = NoReply]
  /\ UNCHANGED <<registryVars, brokerVars, clientVars, zeroed, queue_ready>>

\* The transport of the peer has taken the acknowledgement.
Replied(c) ==
  /\ Suspended(c, "replying")
  /\ Goto(c, "reading")
  /\ reply' = [reply EXCEPT ![c] = NoReply]
  /\ UNCHANGED <<registryVars, brokerVars, clientVars, zeroed, pump,
                 queue_ready, link, running>>

\* The peer is gone: the acknowledgement cannot be sent, or receive_json
\* reports the disconnect.
ReplyFails(c) ==
  Suspended(c, "replying") /\ link[c] # "up" /\ EnterFinally(c) /\ UNCHANGED link

Disconnected(c) ==
  Suspended(c, "reading") /\ link[c] = "lost" /\ EnterFinally(c) /\ UNCHANGED link

\* A frame that is not JSON text makes receive_json raise.
MalformedFrame(c) == TakesMessage(c) /\ EnterFinally(c)

\* `await pump_task` has come back and raises nothing.
Joined(c) == running \in {Nobody, c} /\ handler[c] = "joining" /\ pump[c] = "ended"

\* Mutations: the counts are read before the consumer is unregistered; the
\* broker is not told; only the counts that go to zero are given back.
CleanUpWithOldStatus(c) ==
  /\ Joined(c)
  /\ Registry!UnregisterConsumer(c)
  /\ Broker!RemoveConsumer(c)
  /\ zeroed' = [zeroed EXCEPT ![c] = {t \in consumers[c] : Refcount(t) = 0}]
  /\ Goto(c, "cleaning") /\ running' = c
  /\ UNCHANGED <<clientVars, reply, pump, queue_ready, link>>
CleanUpRegistryOnly(c) ==
  /\ Joined(c)
  /\ Registry!UnregisterConsumer(c)
  /\ zeroed' = [zeroed EXCEPT ![c] = {t \in consumers[c] : Refcount(t)' = 0}]
  /\ Goto(c, "cleaning") /\ running' = c
  /\ UNCHANGED <<brokerVars, clientVars, reply, pump, queue_ready, link>>

CleanUpKeepsShared(c) ==
  /\ Joined(c)
  /\ consumers' = Registry!WithoutKeys(consumers, {c})
  /\ zeroed' = [zeroed EXCEPT ![c] = {t \in consumers[c] : Refcount(t) = 1}]
  /\ topic_refcounts' = Registry!WithoutKeys(topic_refcounts, zeroed'[c])
  /\ Broker!RemoveConsumer(c)
  /\ Goto(c, "cleaning") /\ running' = c
  /\ UNCHANGED <<clientVars, reply, pump, queue_ready, link>>

\* _cleanup_ws_consumer up to its loop: the topics whose count is now zero are
\* read off one status, taken before anything is awaited.
CleanUp(c) ==
  /\ Joined(c)
  /\ Registry!UnregisterConsumer(c)
  /\ Broker!RemoveConsumer(c)
  /\ zeroed' = [zeroed EXCEPT ![c] = {t \in consumers[c] : Refcount(t)' = 0}]
  /\ Goto(c, "cleaning")
  /\ running' = c
  /\ UNCHANGED <<clientVars, reply, pump, queue_ready, link>>

CleanUpTopic(c, t) ==
  /\ running = c /\ handler[c] = "cleaning" /\ t \in zeroed[c]
  /\ Client!UnsubscribeTopic(c, t)
  /\ zeroed' = [zeroed EXCEPT ![c] = @ \ {t}]
  /\ RunsOnIfReturned(c)
  /\ UNCHANGED <<registryVars, brokerVars, handler, reply, pump, queue_ready, link>>

CleanedUp(c) ==
  /\ running = c /\ handler[c] = "cleaning" /\ zeroed[c] = {}
  /\ Goto(c, "gone")
  /\ queue_ready' = [queue_ready EXCEPT ![c] = FALSE]
  /\ link' = [link EXCEPT ![c] = "lost"]
  /\ running' = Nobody
  /\ UNCHANGED <<registryVars, brokerVars, clientVars, reply, zeroed, pump>>

\* The client wakes the handler that waits in one of its calls.
ClientResumes(c) ==
  /\ running = Nobody
  /\ Client!CallerStep(c)
  /\ RunsOnIfReturned(c)
  /\ UNCHANGED <<registryVars, brokerVars, handler, reply, zeroed, pump,
                 queue_ready, link>>

-----------------------------------------------------------------------------
PumpAt(c, pc) == running = Nobody /\ pump[c] = pc
PumpGoto(c, pc) ==
  /\ pump' = [pump EXCEPT ![c] = pc]
  /\ UNCHANGED <<registryVars, clientVars, handler, reply, zeroed, queue_ready,
                 link, running>>

PumpStarts(c) ==
  /\ PumpAt(c, "waiting") /\ queue_ready[c]
  /\ PumpGoto(c, IF c \in DOMAIN queues THEN "getting" ELSE "ended")
  /\ UNCHANGED brokerVars

PumpGets(c) == PumpAt(c, "getting") /\ Broker!GetMessage(c) /\ PumpGoto(c, "sending")

\* CancelledError ends a cancelled pump at whichever await it meets it.
PumpCancelled(c) ==
  PumpAt(c, "cancelled") /\ PumpGoto(c, "ended") /\ UNCHANGED brokerVars

\* send_json returns, or raises if the peer is known to be gone.
PumpSent(c) ==
  PumpAt(c, "sending") /\ PumpGoto(c, "getting") /\ UNCHANGED brokerVars
PumpFails(c) ==
  /\ PumpAt(c, "sending") /\ link[c] # "up"
  /\ PumpGoto(c, "failed") /\ UNCHANGED brokerVars

LinkLost(c) ==
  /\ running = Nobody /\ link[c] = "up"
  /\ \E after \in {"unread", "lost"} : link' = [link EXCEPT ![c] = after]
  /\ UNCHANGED <<registryVars, brokerVars, clientVars, handler, reply, zeroed,
                 pump, queue_ready, running>>

-----------------------------------------------------------------------------
\* _dispatch_raw: an event of a topic that is no longer wanted is dropped.
Dispatch(t) ==
  /\ running = Nobody /\ Client!Running("receive")
  /\ t \in topics \cap Traded
  /\ Broker!Publish(t, t)
  /\ UNCHANGED <<registryVars, clientVars, connVars>>

Upstream ==
  /\ running = Nobody
  /\ Client!RunnerStep
  /\ UNCHANGED <<registryVars, brokerVars, connVars>>

UpstreamLost ==
  /\ running = Nobody
  /\ Client!ConnectionLost
  /\ UNCHANGED <<registryVars, brokerVars, connVars>>

\* Steps of the handler that nothing but the event loop has to allow.
HandlerStep(c) ==
  \/ SubscribedUpstream(c) \/ UpstreamSubscribeFailed(c) \/ UnsubscribedUpstream(c)
  \/ ReplyFails(c) \/ Disconnected(c)
  \/ CleanUp(c) \/ (\E t \in Topics : CleanUpTopic(c, t)) \/ CleanedUp(c)
  \/ ClientResumes(c)

PumpStep(c) ==
  PumpStarts(c) \/ PumpGets(c) \/ PumpSent(c) \/ PumpFails(c) \/ PumpCancelled(c)

ReceivesMessage(c) ==
  \/ RejectedMessage(c) \/ MalformedFrame(c)
  \/ \E t \in Topics : HandleSubscribe(c, t) \/ HandleUnsubscribe(c, t)

\* What the peer decides: when it connects, what it sends, whether it reads.
PeerStep(c) == Accept(c) \/ ReceivesMessage(c) \/ Replied(c) \/ LinkLost(c)

HubNext ==
  \/ \E c \in Conns : PeerStep(c) \/ HandlerStep(c) \/ PumpStep(c)
  \/ \E t \in Topics : Dispatch(t)
  \/ Upstream \/ UpstreamLost

\* The event loop runs the tasks that are ready in the order in which they
\* became so: a task that is held up only while others run is not passed over
\* for ever, hence strong fairness.  It runs a handler, the pump it cancelled,
\* and a handler whose message has arrived.  Nothing is assumed of the peers: a
\* peer may send nothing, and one that does not read may hold up the
\* acknowledgements of its handler and the events of its pump for ever.  An
\* exchange that is asked again and again accepts a connection at last.
HubFairness ==
  /\ \A c \in Conns :
       SF_hubVars(\/ HandlerStep(c) \/ PumpCancelled(c)
                  \/ link[c] = "unread" /\ ReceivesMessage(c))
  /\ SF_hubVars(Upstream)
  /\ SF_hubVars(running = Nobody /\ Client!Connected
                  /\ UNCHANGED <<registryVars, brokerVars, connVars>>)

HubSpec == HubInit /\ [][HubNext]_hubVars
FairHubSpec == HubSpec /\ HubFairness

-----------------------------------------------------------------------------
\* The tables are those of the components; each task is at one of its awaits.
HubTypeOK ==
  /\ Registry!RegistryTypeOK /\ Broker!BrokerTypeOK /\ Client!ClientTypeOK
  /\ handler \in [Conns -> {"gone", "reading", "subscribing", "unsubscribing",
                            "replying", "joining", "cleaning", "crashed"}]
  /\ pump \in [Conns -> {"waiting", "getting", "sending", "cancelled", "failed", "ended"}]
  /\ link \in [Conns -> {"up", "unread", "lost"}] /\ queue_ready \in [Conns -> BOOLEAN]
  /\ zeroed \in [Conns -> SUBSET Topics] /\ running \in Conns \cup {Nobody}

Demanded == {t \in Topics : Refcount(t) > 0}

\* Registry and broker are two tables kept by separate calls, and agree on who
\* has which topic at every point where another task can look, after errors,
\* rollbacks and disconnects too.
RegistryBrokerAgree ==
  \A c \in Conns, t \in Topics :
    (c \in DOMAIN consumers /\ t \in consumers[c]) <=> c \in Broker!Subscribers(t)

\* A pump that reads has a queue to read from, and it is the queue that
\* publish fills: no remove_consumer takes it away under the pump.
PumpHasQueue ==
  \A c \in Conns : pump[c] \in {"getting", "sending"} => c \in DOMAIN queues

\* A slot whose handler has returned left nothing behind: no registry entry,
\* no queue, no attachment, and no send of its own in the upstream client.
GoneLeavesNoTrace ==
  \A c \in Conns : handler[c] = "gone" =>
    /\ c \notin DOMAIN consumers /\ c \notin DOMAIN queues
    /\ \A t \in Topics : c \notin Broker!Subscribers(t)
    /\ c \notin {ws_lock[i].task : i \in DOMAIN ws_lock}

\* The hub asks the exchange for nothing nobody wants, except for topics that
\* a cleanup under way is about to give back.
NothingUnwantedUpstream ==
  topics \subseteq Demanded \cup UNION {zeroed[c] : c \in Conns}

\* Seen through its own tables, each component only ever does what it does
\* alone: no chain of calls that a handler makes between two suspensions does
\* two steps of one component at once, or one it has no method for, so what
\* holds of the components by themselves holds of them inside the hub.
ImplementsComponents ==
  Registry!RegistrySpec /\ Broker!BrokerSpec /\ Client!ClientSpec

\* "Upstream Coinbase subscriptions follow global refcount" (docstring of
\* topic_stream): what any consumer wants is in the client's topic set, and so
\* is sent again after each reconnect.
DemandIsUpstream == Demanded \subseteq topics

\* End to end and at once: whenever the reader reads from an open socket, no
\* task has or wants the send lock and no cleanup is under way, the exchange
\* serves exactly what some consumer wants.  Nothing is outstanding in such a
\* state that could still repair a difference, short of a reconnect.
Quiet ==
  /\ runner = "receive" /\ Client!WsIsOpen /\ ws_lock = <<>>
  /\ \A c \in Conns : zeroed[c] = {}
QuietHubServesDemand == Quiet => wire = Demanded

\* "On disconnect, all topics for this consumer are removed from the registry
\* and broker" (docstring of topic_stream), however the handler ended.
DisconnectCleansUp ==
  \A c \in Conns : handler[c] \in {"gone", "crashed"} =>
    c \notin DOMAIN consumers /\ c \notin DOMAIN queues

\* A first subscribe that found no upstream socket is refused
\* (docs/TOPICS.md, 8.4): an acknowledged demand has had one.
AckedDemandHadSocket ==
  \A c \in Conns : handler[c] = "replying" /\ reply[c].op = "subscribe" /\ reply[c].ok
    => sock # "none"

\* No handler hangs in the hub: a request gets as far as its acknowledgement,
\* and a connection that is lost comes to its end, cleanup and all, though its
\* upstream sends wait for the send lock behind other handlers, a connection
\* that is being lost and the re-subscribe of the next.  A handler that reads
\* or sends while its peer is there waits for the peer, and may do so for ever.
Busy(c) ==
  \/ handler[c] \in {"subscribing", "unsubscribing", "joining", "cleaning"}
  \/ handler[c] \in {"reading", "replying"} /\ link[c] # "up"
HandlersSettle == \A c \in Conns : []<>~Busy(c)

\* End to end: a topic that somebody wants from some time on is in the end
\* served by the exchange for good, and one that nobody wants is not.
DemandIsServed ==
  \A t \in Topics :
    /\ <>[](t \in Demanded) => <>[](t \in wire)
    /\ <>[](t \notin Demanded) => <>[](t \notin wire)
=============================================================================
