---------------------------- MODULE BrokerStreams ----------------------------
(***************************************************************************)
(* The broker observed from outside: what was published, what each         *)
(* consumer was offered and has read, and the counters of HubMetrics       *)
(* (app/runtime.py) that the broker moves along the way.                   *)
(*                                                                         *)
(* A message is a topic and its place in the order of publication, which   *)
(* is all the promises below tell apart.                                   *)
(***************************************************************************)
EXTENDS PubSubBroker, FiniteSets

CONSTANT MaxPublished      \* bound: messages published in a behaviour

ASSUME StreamMessages ==
  /\ MaxPublished \in Nat
  /\ [topic : Topics, seq : 1..MaxPublished] \subseteq Messages

VARIABLES
  published,                 \* number of messages published so far
  offered,                   \* consumer -> messages put on its queue, in order
  received,                  \* consumer -> messages read from it, in order
  broker_queue_puts,         \* HubMetrics
  broker_drop_oldest_total,  \* HubMetrics
  departed                   \* messages read, or deleted with their queue

historyVars == <<published, offered, received,
                 broker_queue_puts, broker_drop_oldest_total, departed>>
streamVars == <<topic_subscribers, queues, published, offered, received,
                broker_queue_puts, broker_drop_oldest_total, departed>>

Message(t) == [topic |-> t, seq |-> published + 1]

\* Mutation: a drop is counted only when the queue is over its size.
OverflowingLate(t) == {c \in Receivers(t) : Len(queues[c]) > QueueSize}

\* The queues that must give up their oldest message to take another one.
Overflowing(t) == {c \in Receivers(t) : Len(queues[c]) >= QueueSize}

-----------------------------------------------------------------------------
StreamInit ==
  /\ BrokerInit
  /\ published = 0
  /\ offered = [c \in Consumers |-> <<>>]
  /\ received = [c \in Consumers |-> <<>>]
  /\ broker_queue_puts = 0
  /\ broker_drop_oldest_total = 0
  /\ departed = 0

Attach(t, c) == SubscribeConsumer(t, c) /\ UNCHANGED historyVars

Detach(t, c) == UnsubscribeConsumer(t, c) /\ UNCHANGED historyVars

Remove(c) ==
  /\ RemoveConsumer(c)
  /\ departed' = departed + (IF c \in DOMAIN queues THEN Len(queues[c]) ELSE 0)
  /\ offered' = [offered EXCEPT ![c] = <<>>]
  /\ received' = [received EXCEPT ![c] = <<>>]
  /\ UNCHANGED <<published, broker_queue_puts, broker_drop_oldest_total>>

PublishNext(t) ==
  /\ published < MaxPublished
  /\ Publish(t, Message(t))
  /\ published' = published + 1
  /\ offered' = [c \in Consumers |-> IF c \in Receivers(t)
                                     THEN Append(offered[c], Message(t))
                                     ELSE offered[c]]
  /\ broker_queue_puts' = broker_queue_puts + Cardinality(Receivers(t))
  /\ broker_drop_oldest_total' =
       broker_drop_oldest_total + Cardinality(Overflowing(t))
  /\ UNCHANGED <<received, departed>>

Read(c) ==
  /\ GetMessage(c)
  /\ received' = [received EXCEPT ![c] = Append(@, Head(queues[c]))]
  /\ departed' = departed + 1
  /\ UNCHANGED <<published, offered, broker_queue_puts, broker_drop_oldest_total>>

StreamNext ==
  \/ \E c \in Consumers, t \in Topics : Attach(t, c) \/ Detach(t, c)
  \/ \E c \in Consumers : Remove(c) \/ Read(c)
  \/ \E t \in Topics : PublishNext(t)

StreamSpec == StreamInit /\ [][StreamNext]_streamVars

-----------------------------------------------------------------------------
\* Each consumer is served by a sliding window of its own over what was
\* offered to it: it reads in order, skips only messages that a full queue
\* pushed out at the old end, and neither another consumer nor one of its own
\* subscribes or unsubscribes of a single topic costs it a waiting message
\* (PubSubBroker.publish, _enqueue_drop_oldest, remove_consumer).
Window == INSTANCE SlidingWindow WITH
  Messages <- Messages, Size <- QueueSize,
  open <- DOMAIN queues,
  passed <- [c \in Consumers |-> IF c \in DOMAIN queues
                                 THEN Len(offered[c]) - Len(queues[c]) ELSE 0]
ImplementsWindow == Window!WindowSpec

\* Of two messages a consumer reads, or still has waiting, the one published
\* first comes first, across all the topics that share its queue.
StreamInOrder ==
  \A c \in DOMAIN queues :
    LET stream == received[c] \o queues[c]
    IN \A i, j \in DOMAIN stream : i < j => stream[i].seq < stream[j].seq

\* "Prefer freshness over completeness": however slow the consumer is, the
\* newest message it was offered is waiting for it or was the last it read.
FreshestKept ==
  \A c \in DOMAIN queues :
    offered[c] # <<>> =>
      LET stream == received[c] \o queues[c]
      IN stream # <<>> /\ stream[Len(stream)] = offered[c][Len(offered[c])]

\* The places in the queues where a message waits.
TakenPlaces == UNION {{c} \X DOMAIN queues[c] : c \in DOMAIN queues}

\* The counters an operator reads add up: every message put on a queue was
\* dropped from it, left it, or still waits in it.
MetricsBalance ==
  broker_queue_puts - broker_drop_oldest_total - departed = Cardinality(TakenPlaces)

\* unsubscribe_consumer leaves waiting messages of the topic on the queue, so
\* events may follow the acknowledgement of an unsubscribe; but those waiting
\* then, at most QueueSize, are the last: unless the consumer subscribes the
\* topic again their number only falls, whatever goes on with its other topics.
Waiting(t, c) ==
  IF c \in DOMAIN queues
  THEN Cardinality({i \in DOMAIN queues[c] : queues[c][i].topic = t}) ELSE 0
LateEventsOnlyDrain ==
  [][\A t \in Topics, c \in Consumers :
       c \notin Subscribers(t) => Waiting(t, c)' <= Waiting(t, c)]_streamVars
=============================================================================
