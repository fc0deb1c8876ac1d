---------------------------- MODULE PubSubBroker ----------------------------
(***************************************************************************)
(* app/pubsub/broker.py: topic fan-out onto one bounded queue per consumer *)
(* connection.                                                             *)
(*                                                                         *)
(* Nothing is awaited while the broker's lock is held and publish enqueues *)
(* with put_nowait only, so each method is one step of the event loop.     *)
(* For the same reason the second attempt in _enqueue_drop_oldest (queue   *)
(* still full after one get_nowait) has no counterpart: no other task runs *)
(* between the get and the put.                                            *)
(***************************************************************************)
EXTENDS Integers, Sequences

CONSTANTS Consumers, Topics, Messages, QueueSize

ASSUME QueueSizePositive == QueueSize \in Nat \ {0}    \* Settings.queue_size, ge=1

VARIABLES
  topic_subscribers,  \* topic -> set of attached consumers; no empty bucket
  queues              \* consumer -> its queue, oldest message first

brokerVars == <<topic_subscribers, queues>>

-----------------------------------------------------------------------------
\* dict.get(topic, ()) on the bucket table.
Subscribers(t) ==
  IF t \in DOMAIN topic_subscribers THEN topic_subscribers[t] ELSE {}

\* The bucket table in which each topic t has the set f[t], empty ones deleted.
Buckets(f) == [t \in {u \in Topics : f[u] # {}} |-> f[t]]

\* Mutations: one message too many fits; the newest message goes instead of
\* the oldest; the newest message is put in front.
EnqueueOffByOne(q, m) == Append(IF Len(q) > QueueSize THEN Tail(q) ELSE q, m)
EnqueueDropNewest(q, m) == IF Len(q) >= QueueSize THEN q ELSE Append(q, m)
EnqueueInFront(q, m) == <<m>> \o (IF Len(q) >= QueueSize THEN Tail(q) ELSE q)

\* put_nowait after making room at the head of a full queue.
EnqueueDropOldest(q, m) ==
  Append(IF Len(q) >= QueueSize THEN Tail(q) ELSE q, m)

\* Mutation: the buckets of all topics are served.
ReceiversOfAny(t) == UNION {Subscribers(u) : u \in Topics} \cap DOMAIN queues

\* The queues publish selects for a topic.
Receivers(t) == Subscribers(t) \cap DOMAIN queues

-----------------------------------------------------------------------------
BrokerInit ==
  /\ topic_subscribers = [t \in {} |-> {}]
  /\ queues = [c \in {} |-> <<>>]

\* Mutation: each subscribe makes a new queue.
SubscribeNewQueue(t, c) ==
  /\ queues' = [d \in DOMAIN queues \cup {c} |->
                  IF d \in DOMAIN queues \ {c} THEN queues[d] ELSE <<>>]
  /\ topic_subscribers' =
       Buckets([u \in Topics |-> Subscribers(u) \cup (IF u = t THEN {c} ELSE {})])

SubscribeConsumer(t, c) ==
  /\ queues' = [d \in DOMAIN queues \cup {c} |->
                  IF d \in DOMAIN queues THEN queues[d] ELSE <<>>]
  /\ topic_subscribers' =
       Buckets([u \in Topics |-> Subscribers(u) \cup (IF u = t THEN {c} ELSE {})])

UnsubscribeConsumer(t, c) ==
  /\ topic_subscribers' =
       Buckets([u \in Topics |-> Subscribers(u) \ (IF u = t THEN {c} ELSE {})])
  /\ UNCHANGED queues

\* Mutation: only the queue is deleted.
RemoveQueueOnly(c) ==
  /\ queues' = [d \in DOMAIN queues \ {c} |-> queues[d]]
  /\ UNCHANGED topic_subscribers

RemoveConsumer(c) ==
  /\ topic_subscribers' = Buckets([u \in Topics |-> Subscribers(u) \ {c}])
  /\ queues' = [d \in DOMAIN queues \ {c} |-> queues[d]]

\* Mutation: the topic is enqueued in place of the message.
PublishTopic(t, m) ==
  /\ queues' = [c \in DOMAIN queues |->
                  IF c \in Receivers(t) THEN EnqueueDropOldest(queues[c], t)
                                        ELSE queues[c]]
  /\ UNCHANGED topic_subscribers

Publish(t, m) ==
  /\ queues' = [c \in DOMAIN queues |->
                  IF c \in Receivers(t) THEN EnqueueDropOldest(queues[c], m)
                                        ELSE queues[c]]
  /\ UNCHANGED topic_subscribers

\* The consumer's pump takes the oldest message (queue.get in app/main.py).
GetMessage(c) ==
  /\ c \in DOMAIN queues
  /\ queues[c] # <<>>
  /\ queues' = [queues EXCEPT ![c] = Tail(@)]
  /\ UNCHANGED topic_subscribers

BrokerNext ==
  \/ \E c \in Consumers, t \in Topics :
       SubscribeConsumer(t, c) \/ UnsubscribeConsumer(t, c)
  \/ \E c \in Consumers : RemoveConsumer(c) \/ GetMessage(c)
  \/ \E t \in Topics, m \in Messages : Publish(t, m)

BrokerSpec == BrokerInit /\ [][BrokerNext]_brokerVars

-----------------------------------------------------------------------------
\* Both tables are dicts over the topics, ids and messages of the model.
BrokerTypeOK ==
  /\ DOMAIN topic_subscribers \subseteq Topics
  /\ topic_subscribers \in [DOMAIN topic_subscribers -> SUBSET Consumers]
  /\ DOMAIN queues \subseteq Consumers
  /\ queues \in [DOMAIN queues -> Seq(Messages)]

\* publish skips an attached consumer that has no queue without a word; that
\* never happens, because a queue is created with the first attachment and
\* goes only together with the last one.
SubscribersHaveQueues ==
  \A t \in Topics : Subscribers(t) \subseteq DOMAIN queues

\* Memory per consumer is bounded: the backlog of a peer that does not read stays
\* within settings.queue_size, however much is published.
Bounded == \A c \in DOMAIN queues : Len(queues[c]) <= QueueSize
=============================================================================
