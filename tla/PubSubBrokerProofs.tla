------------------------- MODULE PubSubBrokerProofs -------------------------
(***************************************************************************)
(* The tables of PubSubBroker, for any consumers, topics, messages and     *)
(* queue size: an attached consumer has a queue, queues are bounded, no    *)
(* bucket is empty.                                                        *)
(***************************************************************************)
EXTENDS PubSubBroker, TLAPS

(***************************************************************************)
(* The three are inductive together: that a present queue is a sequence is *)
(* what the length of a full one, less its oldest message, rests on.       *)
(***************************************************************************)
BrokerInv == BrokerTypeOK /\ SubscribersHaveQueues /\ Bounded

\* Buckets turns a function on all topics into a table without empty buckets
\* that answers every lookup as the function does.
LEMMA BucketsLookup ==
  ASSUME NEW f \in [Topics -> SUBSET Consumers], topic_subscribers' = Buckets(f)
  PROVE  /\ DOMAIN topic_subscribers' \subseteq Topics
         /\ topic_subscribers' \in [DOMAIN topic_subscribers' -> SUBSET Consumers]
         /\ \A t \in DOMAIN topic_subscribers' : topic_subscribers'[t] # {}
         /\ \A t \in Topics : Subscribers(t)' = f[t]
<1>1. topic_subscribers' = [t \in {u \in Topics : f[u] # {}} |-> f[t]]
  BY DEF Buckets
<1>2. QED
  BY <1>1 DEF Subscribers

\* A lookup gives consumers of the model.
LEMMA SubscribersType ==
  ASSUME BrokerTypeOK, NEW t \in Topics
  PROVE  Subscribers(t) \subseteq Consumers
BY DEF BrokerTypeOK, Subscribers

\* _enqueue_drop_oldest keeps a queue a queue, and within its size.
LEMMA EnqueueKeepsBound ==
  ASSUME NEW q \in Seq(Messages), Len(q) <= QueueSize, NEW m \in Messages
  PROVE  /\ EnqueueDropOldest(q, m) \in Seq(Messages)
         /\ Len(EnqueueDropOldest(q, m)) <= QueueSize
<1>1. CASE Len(q) >= QueueSize
  <2>1. q # <<>>
    BY <1>1, QueueSizePositive
  <2>2. Tail(q) \in Seq(Messages) /\ Len(Tail(q)) = Len(q) - 1
    BY <2>1
  <2>3. QED
    BY <1>1, <2>2, QueueSizePositive DEF EnqueueDropOldest
<1>2. CASE ~(Len(q) >= QueueSize)
  BY <1>2, QueueSizePositive DEF EnqueueDropOldest
<1>3. QED
  BY <1>1, <1>2

\* A first attachment makes the queue, any other finds it.
LEMMA SubscribeKeepsBrokerInv ==
  ASSUME BrokerInv, NEW c \in Consumers, NEW t \in Topics, SubscribeConsumer(t, c)
  PROVE  BrokerInv'
<1> USE DEF BrokerInv
<1> DEFINE f == [u \in Topics |-> Subscribers(u) \cup (IF u = t THEN {c} ELSE {})]
<1>1. f \in [Topics -> SUBSET Consumers]
  BY SubscribersType
<1>2. topic_subscribers' = Buckets(f)
  BY DEF SubscribeConsumer
<1>3. /\ DOMAIN queues' = DOMAIN queues \cup {c}
      /\ \A d \in DOMAIN queues' : queues'[d] = IF d \in DOMAIN queues THEN queues[d] ELSE <<>>
      /\ queues' = [d \in DOMAIN queues' |-> queues'[d]]
  BY DEF SubscribeConsumer
<1>4. BrokerTypeOK'
  <2>1. ASSUME NEW d \in DOMAIN queues' PROVE queues'[d] \in Seq(Messages)
    <3>1. d \in DOMAIN queues => queues[d] \in Seq(Messages)
      BY DEF BrokerTypeOK
    <3>2. <<>> \in Seq(Messages)
      OBVIOUS
    <3>3. QED
      BY <1>3, <3>1, <3>2
  <2>2. QED
    BY <1>1, <1>2, <1>3, <2>1, BucketsLookup DEF BrokerTypeOK
<1>5. SubscribersHaveQueues'
  <2>1. \A u \in Topics : Subscribers(u)' = f[u]
    BY <1>1, <1>2, BucketsLookup
  <2>2. QED
    BY <1>3, <2>1 DEF SubscribersHaveQueues
<1>6. Bounded'
  BY <1>3, QueueSizePositive DEF Bounded
<1>7. QED
  BY <1>4, <1>5, <1>6

\* Detaching from a topic deletes no queue.
LEMMA UnsubscribeKeepsBrokerInv ==
  ASSUME BrokerInv, NEW c \in Consumers, NEW t \in Topics, UnsubscribeConsumer(t, c)
  PROVE  BrokerInv'
<1> USE DEF BrokerInv
<1> DEFINE f == [u \in Topics |-> Subscribers(u) \ (IF u = t THEN {c} ELSE {})]
<1>1. f \in [Topics -> SUBSET Consumers]
  BY SubscribersType
<1>2. topic_subscribers' = Buckets(f) /\ queues' = queues
  BY DEF UnsubscribeConsumer
<1>3. BrokerTypeOK'
  BY <1>1, <1>2, BucketsLookup DEF BrokerTypeOK
<1>4. SubscribersHaveQueues'
  <2>1. \A u \in Topics : Subscribers(u)' = f[u]
    BY <1>1, <1>2, BucketsLookup
  <2>2. QED
    BY <1>2, <2>1 DEF SubscribersHaveQueues
<1>5. Bounded'
  BY <1>2 DEF Bounded
<1>6. QED
  BY <1>3, <1>4, <1>5

\* The queue of a consumer goes only together with its last attachment.
LEMMA RemoveKeepsBrokerInv ==
  ASSUME BrokerInv, NEW c \in Consumers, RemoveConsumer(c)
  PROVE  BrokerInv'
<1> USE DEF BrokerInv
<1> DEFINE f == [u \in Topics |-> Subscribers(u) \ {c}]
<1>1. f \in [Topics -> SUBSET Consumers]
  BY SubscribersType
<1>2. /\ topic_subscribers' = Buckets(f)
      /\ queues' = [d \in DOMAIN queues \ {c} |-> queues[d]]
  BY DEF RemoveConsumer
<1>3. BrokerTypeOK'
  BY <1>1, <1>2, BucketsLookup DEF BrokerTypeOK
<1>4. SubscribersHaveQueues'
  <2>1. \A u \in Topics : Subscribers(u)' = f[u]
    BY <1>1, <1>2, BucketsLookup
  <2>2. QED
    BY <1>2, <2>1 DEF SubscribersHaveQueues
<1>5. Bounded'
  BY <1>2 DEF Bounded
<1>6. QED
  BY <1>3, <1>4, <1>5

\* publish changes the contents of queues only, each within its size.
LEMMA PublishKeepsBrokerInv ==
  ASSUME BrokerInv, NEW t \in Topics, NEW m \in Messages, Publish(t, m)
  PROVE  BrokerInv'
<1> USE DEF BrokerInv
<1>1. /\ topic_subscribers' = topic_subscribers
      /\ DOMAIN queues' = DOMAIN queues
      /\ queues' = [c \in DOMAIN queues' |-> queues'[c]]
      /\ \A c \in DOMAIN queues : queues'[c] = IF c \in Receivers(t)
                                               THEN EnqueueDropOldest(queues[c], m)
                                               ELSE queues[c]
  BY DEF Publish
<1>2. ASSUME NEW c \in DOMAIN queues
      PROVE  queues'[c] \in Seq(Messages) /\ Len(queues'[c]) <= QueueSize
  <2>1. queues[c] \in Seq(Messages) /\ Len(queues[c]) <= QueueSize
    BY DEF BrokerTypeOK, Bounded
  <2>2. QED
    BY <1>1, <2>1, EnqueueKeepsBound
<1>3. BrokerTypeOK'
  BY <1>1, <1>2 DEF BrokerTypeOK
<1>4. SubscribersHaveQueues'
  BY <1>1 DEF SubscribersHaveQueues, Subscribers
<1>5. Bounded'
  BY <1>1, <1>2 DEF Bounded
<1>6. QED
  BY <1>3, <1>4, <1>5

\* The pump shortens one queue.
LEMMA GetMessageKeepsBrokerInv ==
  ASSUME BrokerInv, NEW c \in Consumers, GetMessage(c)
  PROVE  BrokerInv'
<1> USE DEF BrokerInv
<1>1. /\ topic_subscribers' = topic_subscribers
      /\ DOMAIN queues' = DOMAIN queues
      /\ queues' = [d \in DOMAIN queues' |-> queues'[d]]
      /\ \A d \in DOMAIN queues : queues'[d] = IF d = c THEN Tail(queues[c]) ELSE queues[d]
      /\ c \in DOMAIN queues /\ queues[c] # <<>>
  BY DEF GetMessage
<1>2. ASSUME NEW d \in DOMAIN queues
      PROVE  queues'[d] \in Seq(Messages) /\ Len(queues'[d]) <= QueueSize
  <2>1. queues[d] \in Seq(Messages) /\ Len(queues[d]) <= QueueSize
    BY DEF BrokerTypeOK, Bounded
  <2>2. CASE d = c
    <3>1. Tail(queues[d]) \in Seq(Messages) /\ Len(Tail(queues[d])) = Len(queues[d]) - 1
      BY <1>1, <2>1, <2>2
    <3>2. QED
      BY <1>1, <2>1, <2>2, <3>1, QueueSizePositive
  <2>3. CASE d # c
    BY <1>1, <2>1, <2>3
  <2>4. QED
    BY <2>2, <2>3
<1>3. BrokerTypeOK'
  BY <1>1, <1>2 DEF BrokerTypeOK
<1>4. SubscribersHaveQueues'
  BY <1>1 DEF SubscribersHaveQueues, Subscribers
<1>5. Bounded'
  BY <1>1, <1>2 DEF Bounded
<1>6. QED
  BY <1>3, <1>4, <1>5

\* In every reachable state the broker's tables are well formed, publish skips
\* no attached consumer, and no queue exceeds settings.queue_size.
THEOREM BrokerInvariant == BrokerSpec => []BrokerInv
<1>1. BrokerInit => BrokerInv
  BY DEF BrokerInit, BrokerInv, BrokerTypeOK, SubscribersHaveQueues, Bounded, Subscribers
<1>2. BrokerInv /\ [BrokerNext]_brokerVars => BrokerInv'
  <2> SUFFICES ASSUME BrokerInv, [BrokerNext]_brokerVars
               PROVE  BrokerInv'
    OBVIOUS
  <2>1. ASSUME NEW c \in Consumers, NEW t \in Topics, SubscribeConsumer(t, c)
        PROVE  BrokerInv'
    BY <2>1, SubscribeKeepsBrokerInv
  <2>2. ASSUME NEW c \in Consumers, NEW t \in Topics, UnsubscribeConsumer(t, c)
        PROVE  BrokerInv'
    BY <2>2, UnsubscribeKeepsBrokerInv
  <2>3. ASSUME NEW c \in Consumers, RemoveConsumer(c) PROVE BrokerInv'
    BY <2>3, RemoveKeepsBrokerInv
  <2>4. ASSUME NEW c \in Consumers, GetMessage(c) PROVE BrokerInv'
    BY <2>4, GetMessageKeepsBrokerInv
  <2>5. ASSUME NEW t \in Topics, NEW m \in Messages, Publish(t, m) PROVE BrokerInv'
    BY <2>5, PublishKeepsBrokerInv
  <2>6. CASE UNCHANGED brokerVars
    BY <2>6 DEF brokerVars, BrokerInv, BrokerTypeOK, SubscribersHaveQueues,
                Bounded, Subscribers
  <2>7. QED
    BY <2>1, <2>2, <2>3, <2>4, <2>5, <2>6 DEF BrokerNext
<1>3. QED
  BY <1>1, <1>2, PTL DEF BrokerSpec

\* publish never skips an attached consumer for want of a queue.
THEOREM SubscribersAlwaysHaveQueues == BrokerSpec => []SubscribersHaveQueues
<1>1. BrokerInv => SubscribersHaveQueues
  BY DEF BrokerInv
<1>2. QED
  BY BrokerInvariant, <1>1, PTL

\* Memory per consumer stays bounded, whatever the load and the readers.
THEOREM AlwaysBounded == BrokerSpec => []Bounded
<1>1. BrokerInv => Bounded
  BY DEF BrokerInv
<1>2. QED
  BY BrokerInvariant, <1>1, PTL

\* Both tables of the broker hold what they are declared to hold.
THEOREM BrokerAlwaysTyped == BrokerSpec => []BrokerTypeOK
<1>1. BrokerInv => BrokerTypeOK
  BY DEF BrokerInv
<1>2. QED
  BY BrokerInvariant, <1>1, PTL
=============================================================================
