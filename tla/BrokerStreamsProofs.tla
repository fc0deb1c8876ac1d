------------------------ MODULE BrokerStreamsProofs ------------------------
(***************************************************************************)
(* The broker implements SlidingWindow, for any consumers, topics and      *)
(* queue size and any number of messages: what waits for a consumer is a   *)
(* suffix of what it was offered (StreamInv).  And what a consumer reads   *)
(* is in the order of publication and ends with the newest message it was  *)
(* offered, once nothing waits (OrderInv).  The counters of HubMetrics     *)
(* account for every message put on a queue (CountInv).                    *)
(***************************************************************************)
EXTENDS BrokerStreams, PubSubBrokerProofs, FiniteSetTheorems

\* What waits for a consumer is the newest part of what it was offered.
IsSuffix(q, s) ==
  /\ Len(q) <= Len(s)
  /\ \A i \in 1..Len(q) : q[i] = s[Len(s) - Len(q) + i]

HistoryTypeOK ==
  /\ published \in 0..MaxPublished
  /\ offered \in [Consumers -> Seq(Messages)]
  /\ received \in [Consumers -> Seq(Messages)]

QueuesAreSuffixes == \A c \in DOMAIN queues : IsSuffix(queues[c], offered[c])

\* A consumer without a queue starts from nothing.
NoQueueNoHistory ==
  \A c \in Consumers \ DOMAIN queues : offered[c] = <<>> /\ received[c] = <<>>

StreamInv == BrokerInv /\ HistoryTypeOK /\ QueuesAreSuffixes /\ NoQueueNoHistory

\* How far the window of c has passed over the messages offered to it.
Passed ==
  [c \in Consumers |-> IF c \in DOMAIN queues THEN Len(offered[c]) - Len(queues[c]) ELSE 0]

-----------------------------------------------------------------------------
\* The number of messages passed, when one of the two lengths moves by one.
LEMMA GapMoves ==
  ASSUME NEW a \in Nat, NEW b \in Nat
  PROVE  /\ (a + 1) - b = a - b + 1 /\ a - (b - 1) = a - b + 1
         /\ b >= 1 => a - b < a
OBVIOUS

\* One message more, at the new end of both; one less at the old end of a queue.
LEMMA SuffixAppend ==
  ASSUME NEW q \in Seq(Messages), NEW s \in Seq(Messages), IsSuffix(q, s), NEW m \in Messages
  PROVE  IsSuffix(Append(q, m), Append(s, m))
<1>1. /\ Len(Append(q, m)) = Len(q) + 1 /\ Len(Append(s, m)) = Len(s) + 1
      /\ Len(q) \in Nat /\ Len(s) \in Nat /\ Len(q) <= Len(s)
  BY DEF IsSuffix
<1>2. ASSUME NEW i \in 1..(Len(q) + 1)
      PROVE  Append(q, m)[i] = Append(s, m)[Len(s) - Len(q) + i]
  <2>1. CASE i = Len(q) + 1
    BY <1>1, <2>1
  <2>2. CASE i \in 1..Len(q)
    <3>1. q[i] = s[Len(s) - Len(q) + i] /\ Len(s) - Len(q) + i \in 1..Len(s)
      BY <1>1, <2>2 DEF IsSuffix
    <3>2. QED
      BY <1>1, <2>2, <3>1
  <2>3. QED
    BY <1>1, <2>1, <2>2
<1> DEFINE qq == Append(q, m)
           ss == Append(s, m)
<1>3. /\ Len(qq) = Len(q) + 1 /\ Len(ss) = Len(s) + 1
      /\ \A i \in 1..(Len(q) + 1) : qq[i] = ss[Len(s) - Len(q) + i]
  BY <1>1, <1>2
<1> HIDE DEF qq, ss
<1>4. ASSUME NEW i \in 1..Len(qq)
      PROVE  qq[i] = ss[Len(ss) - Len(qq) + i]
  <2>1. Len(ss) - Len(qq) + i = Len(s) - Len(q) + i /\ i \in 1..(Len(q) + 1)
    BY <1>1, <1>3
  <2>2. QED
    BY <1>3, <2>1
<1>5. IsSuffix(qq, ss)
  BY <1>1, <1>3, <1>4 DEF IsSuffix
<1>6. QED
  BY <1>5 DEF qq, ss

LEMMA SuffixTail ==
  ASSUME NEW q \in Seq(Messages), NEW s \in Seq(Messages), IsSuffix(q, s), q # <<>>
  PROVE  /\ IsSuffix(Tail(q), s) /\ Tail(q) \in Seq(Messages) /\ Len(Tail(q)) = Len(q) - 1
         /\ Len(q) \in 1..Len(s) /\ Head(q) = s[Len(s) - Len(q) + 1]
<1>1. /\ Tail(q) \in Seq(Messages) /\ Len(Tail(q)) = Len(q) - 1
      /\ \A i \in 1..(Len(q) - 1) : Tail(q)[i] = q[i + 1]
      /\ Len(q) \in Nat \ {0} /\ Len(s) \in Nat /\ Head(q) = q[1]
  OBVIOUS
<1>2. IsSuffix(Tail(q), s)
  BY <1>1 DEF IsSuffix
<1>3. QED
  BY <1>1, <1>2 DEF IsSuffix

\* _enqueue_drop_oldest, seen from the stream: the window moves on exactly if
\* the queue was full.
LEMMA EnqueueMovesWindow ==
  ASSUME NEW q \in Seq(Messages), NEW s \in Seq(Messages), IsSuffix(q, s),
         Len(q) <= QueueSize, NEW m \in Messages
  PROVE  /\ IsSuffix(EnqueueDropOldest(q, m), Append(s, m))
         /\ Len(q) = QueueSize =>
              Len(Append(s, m)) - Len(EnqueueDropOldest(q, m)) = Len(s) - Len(q) + 1
         /\ Len(q) # QueueSize =>
              Len(Append(s, m)) - Len(EnqueueDropOldest(q, m)) = Len(s) - Len(q)
<1>1. Len(q) \in Nat /\ Len(s) \in Nat /\ Len(Append(s, m)) = Len(s) + 1
  OBVIOUS
<1>2. CASE Len(q) = QueueSize
  <2>1. q # <<>> /\ Len(q) >= QueueSize
    BY <1>1, <1>2, QueueSizePositive
  <2>2. /\ IsSuffix(Tail(q), s) /\ Tail(q) \in Seq(Messages) /\ Len(Tail(q)) = Len(q) - 1
    BY <2>1, SuffixTail
  <2>3. EnqueueDropOldest(q, m) = Append(Tail(q), m)
    BY <2>1 DEF EnqueueDropOldest
  <2>4. Len(Append(Tail(q), m)) = Len(q)
    BY <1>1, <2>2
  <2>5. IsSuffix(Append(Tail(q), m), Append(s, m))
    BY <2>2, SuffixAppend
  <2>6. Len(Append(s, m)) - Len(EnqueueDropOldest(q, m)) = Len(s) - Len(q) + 1
    <3>1. (Len(s) + 1) - Len(q) = Len(s) - Len(q) + 1
      BY <1>1, GapMoves
    <3>2. QED
      BY <1>1, <2>3, <2>4, <3>1, Zenon
  <2>7. QED
    BY <1>2, <2>3, <2>5, <2>6
<1>3. CASE Len(q) # QueueSize
  <2>1. EnqueueDropOldest(q, m) = Append(q, m)
    BY <1>1, <1>3, QueueSizePositive DEF EnqueueDropOldest
  <2>2. IsSuffix(Append(q, m), Append(s, m)) /\ Len(Append(q, m)) = Len(q) + 1
    BY SuffixAppend
  <2>3. Len(Append(s, m)) - Len(EnqueueDropOldest(q, m)) = Len(s) - Len(q)
    BY <1>1, <2>1, <2>2
  <2>4. QED
    BY <1>1, <1>3, <2>1, <2>2, <2>3
<1>4. QED
  BY <1>2, <1>3

-----------------------------------------------------------------------------
\* Each step keeps the invariant and is one of the window, or none.
LEMMA AttachStep ==
  ASSUME StreamInv, NEW c \in Consumers, NEW t \in Topics, Attach(t, c)
  PROVE  StreamInv' /\ [Window!WindowNext]_(Window!windowVars)
<1> USE DEF StreamInv
<1>1. /\ SubscribeConsumer(t, c)
      /\ UNCHANGED <<published, offered, received>>
      /\ DOMAIN queues' = DOMAIN queues \cup {c}
      /\ \A d \in DOMAIN queues' : queues'[d] = IF d \in DOMAIN queues THEN queues[d] ELSE <<>>
  BY DEF Attach, historyVars, SubscribeConsumer
<1>2. BrokerInv'
  BY <1>1, SubscribeKeepsBrokerInv
<1>3. HistoryTypeOK' /\ NoQueueNoHistory'
  BY <1>1 DEF HistoryTypeOK, NoQueueNoHistory
<1>4. QueuesAreSuffixes'
  <2> SUFFICES ASSUME NEW d \in DOMAIN queues' PROVE IsSuffix(queues'[d], offered[d])
    BY <1>1 DEF QueuesAreSuffixes
  <2>1. CASE d \in DOMAIN queues
    BY <1>1, <2>1 DEF QueuesAreSuffixes
  <2>2. CASE d \notin DOMAIN queues
    <3>1. queues'[d] = <<>> /\ offered[d] = <<>>
      BY <1>1, <2>2 DEF NoQueueNoHistory
    <3>2. IsSuffix(<<>>, <<>>)
      BY DEF IsSuffix
    <3>3. QED
      BY <3>1, <3>2
  <2>3. QED
    BY <2>1, <2>2
<1>5. Passed' = Passed
  <2> SUFFICES ASSUME NEW d \in Consumers PROVE Passed'[d] = Passed[d]
    BY DEF Passed
  <2>1. CASE d \in DOMAIN queues
    BY <1>1, <2>1 DEF Passed
  <2>2. CASE d \notin DOMAIN queues
    BY <1>1, <2>2 DEF Passed, NoQueueNoHistory
  <2>3. QED
    BY <2>1, <2>2
<1>6. CASE c \in DOMAIN queues
  BY <1>1, <1>5, <1>6, <1>2, <1>3, <1>4 DEF Window!windowVars, Passed
<1>7. CASE c \notin DOMAIN queues
  <2>1. Window!Open(c)
    BY <1>1, <1>5, <1>7 DEF Window!Open, Passed
  <2>2. QED
    BY <1>2, <1>3, <1>4, <2>1 DEF Window!WindowNext
<1>8. QED
  BY <1>6, <1>7

LEMMA DetachStep ==
  ASSUME StreamInv, NEW c \in Consumers, NEW t \in Topics, Detach(t, c)
  PROVE  StreamInv' /\ [Window!WindowNext]_(Window!windowVars)
<1> USE DEF StreamInv
<1>1. /\ UnsubscribeConsumer(t, c)
      /\ UNCHANGED <<queues, published, offered, received>>
  BY DEF Detach, historyVars, UnsubscribeConsumer
<1>2. BrokerInv'
  BY <1>1, UnsubscribeKeepsBrokerInv
<1>3. HistoryTypeOK' /\ NoQueueNoHistory' /\ QueuesAreSuffixes'
  BY <1>1 DEF HistoryTypeOK, NoQueueNoHistory, QueuesAreSuffixes
<1>4. UNCHANGED Window!windowVars
  BY <1>1 DEF Window!windowVars
<1>5. QED
  BY <1>2, <1>3, <1>4

LEMMA RemoveStep ==
  ASSUME StreamInv, NEW c \in Consumers, Remove(c)
  PROVE  StreamInv' /\ [Window!WindowNext]_(Window!windowVars)
<1> USE DEF StreamInv
<1>1. /\ RemoveConsumer(c) /\ published' = published
      /\ offered' = [offered EXCEPT ![c] = <<>>]
      /\ received' = [received EXCEPT ![c] = <<>>]
      /\ DOMAIN queues' = DOMAIN queues \ {c}
      /\ \A d \in DOMAIN queues' : queues'[d] = queues[d]
  BY DEF Remove, RemoveConsumer
<1>2. /\ \A d \in Consumers : offered'[d] = IF d = c THEN <<>> ELSE offered[d]
      /\ \A d \in Consumers : received'[d] = IF d = c THEN <<>> ELSE received[d]
  BY <1>1 DEF HistoryTypeOK
<1>3. BrokerInv'
  BY <1>1, RemoveKeepsBrokerInv
<1>4. HistoryTypeOK'
  BY <1>1 DEF HistoryTypeOK
<1>5. NoQueueNoHistory' /\ QueuesAreSuffixes'
  BY <1>1, <1>2 DEF NoQueueNoHistory, QueuesAreSuffixes, BrokerInv, BrokerTypeOK
<1>6. Passed' = [Passed EXCEPT ![c] = 0]
  <2> SUFFICES ASSUME NEW d \in Consumers
               PROVE  Passed'[d] = IF d = c THEN 0 ELSE Passed[d]
    BY DEF Passed
  <2>1. CASE d = c
    BY <1>1, <2>1 DEF Passed
  <2>2. CASE d # c
    BY <1>1, <1>2, <2>2 DEF Passed
  <2>3. QED
    BY <2>1, <2>2
<1>7. CASE c \in DOMAIN queues
  <2>1. Window!Close(c)
    BY <1>1, <1>6, <1>7 DEF Window!Close, Passed
  <2>2. QED
    BY <1>3, <1>4, <1>5, <2>1 DEF Window!WindowNext
<1>8. CASE c \notin DOMAIN queues
  <2>1. offered' = offered /\ received' = received
    BY <1>1, <1>8 DEF NoQueueNoHistory, HistoryTypeOK
  <2>2. Passed' = Passed /\ DOMAIN queues' = DOMAIN queues
    BY <1>1, <1>6, <1>8 DEF Passed
  <2>3. QED
    BY <1>3, <1>4, <1>5, <2>1, <2>2 DEF Window!windowVars, Passed
<1>9. QED
  BY <1>7, <1>8

LEMMA PublishStep ==
  ASSUME StreamInv, NEW t \in Topics, PublishNext(t)
  PROVE  StreamInv' /\ [Window!WindowNext]_(Window!windowVars)
<1> USE DEF StreamInv
<1> DEFINE m == Message(t)
           S == Receivers(t)
<1>1. m \in Messages /\ published' \in 0..MaxPublished
  <2>1. published + 1 \in 1..MaxPublished
    BY StreamMessages DEF PublishNext, HistoryTypeOK
  <2>2. QED
    BY <2>1, StreamMessages DEF Message, PublishNext
<1>2. /\ Publish(t, m) /\ received' = received
      /\ DOMAIN queues' = DOMAIN queues /\ S \subseteq DOMAIN queues
      /\ \A c \in DOMAIN queues :
           queues'[c] = IF c \in S THEN EnqueueDropOldest(queues[c], m) ELSE queues[c]
      /\ offered' = [c \in Consumers |-> IF c \in S THEN Append(offered[c], m) ELSE offered[c]]
  BY DEF PublishNext, Publish, Receivers
<1>3. BrokerInv' /\ DOMAIN queues \subseteq Consumers
  BY <1>1, <1>2, PublishKeepsBrokerInv DEF BrokerInv, BrokerTypeOK
<1> HIDE DEF m, S
<1>4. ASSUME NEW c \in DOMAIN queues
      PROVE  /\ IsSuffix(queues'[c], offered'[c])
             /\ c \in S /\ Len(queues[c]) = QueueSize =>
                  Len(offered'[c]) - Len(queues'[c]) = Len(offered[c]) - Len(queues[c]) + 1
             /\ ~(c \in S /\ Len(queues[c]) = QueueSize) =>
                  Len(offered'[c]) - Len(queues'[c]) = Len(offered[c]) - Len(queues[c])
             /\ Len(queues[c]) \in Nat /\ Len(offered[c]) \in Nat
  <2>1. /\ queues[c] \in Seq(Messages) /\ offered[c] \in Seq(Messages)
        /\ Len(queues[c]) <= QueueSize /\ IsSuffix(queues[c], offered[c])
        /\ Len(queues[c]) \in Nat /\ Len(offered[c]) \in Nat /\ c \in Consumers
    BY <1>3 DEF BrokerInv, BrokerTypeOK, Bounded, HistoryTypeOK, QueuesAreSuffixes
  <2>2. CASE c \in S
    <3>1. /\ queues'[c] = EnqueueDropOldest(queues[c], m)
          /\ offered'[c] = Append(offered[c], m)
      BY <1>2, <2>1, <2>2
    <3>2. QED
      BY <1>1, <2>1, <2>2, <3>1, EnqueueMovesWindow, ZenonT(60)
  <2>3. CASE c \notin S
    <3>1. queues'[c] = queues[c] /\ offered'[c] = offered[c]
      BY <1>2, <2>1, <2>3
    <3>2. QED
      BY <2>1, <2>3, <3>1
  <2>4. QED
    BY <2>2, <2>3
<1>5. HistoryTypeOK' /\ QueuesAreSuffixes' /\ NoQueueNoHistory'
  <2>1. offered' \in [Consumers -> Seq(Messages)]
    BY <1>1, <1>2 DEF HistoryTypeOK
  <2>2. HistoryTypeOK'
    BY <1>1, <1>2, <2>1 DEF HistoryTypeOK
  <2>3. QueuesAreSuffixes'
    BY <1>2, <1>4 DEF QueuesAreSuffixes
  <2>4. NoQueueNoHistory'
    BY <1>2 DEF NoQueueNoHistory
  <2>5. QED
    BY <2>2, <2>3, <2>4
<1>6. Passed' = [c \in Consumers |->
                   IF c \in S /\ Len(offered[c]) - Passed[c] = QueueSize
                   THEN Passed[c] + 1 ELSE Passed[c]]
  <2> SUFFICES ASSUME NEW c \in Consumers
               PROVE  Passed'[c] = IF c \in S /\ Len(offered[c]) - Passed[c] = QueueSize
                                   THEN Passed[c] + 1 ELSE Passed[c]
    BY DEF Passed
  <2>1. CASE c \in DOMAIN queues
    <3>1. /\ Passed[c] = Len(offered[c]) - Len(queues[c])
          /\ Passed'[c] = Len(offered'[c]) - Len(queues'[c])
      BY <1>2, <2>1 DEF Passed
    <3>2. Len(offered[c]) - Passed[c] = Len(queues[c])
      BY <1>4, <2>1, <3>1
    <3>3. QED
      BY <1>4, <2>1, <3>1, <3>2
  <2>2. CASE c \notin DOMAIN queues
    <3>1. Passed[c] = 0 /\ Passed'[c] = 0 /\ c \notin S
      BY <1>2, <2>2 DEF Passed
    <3>2. QED
      BY <3>1
  <2>3. QED
    BY <2>1, <2>2
<1>7. PICK R \in SUBSET Consumers, n \in Messages : R = S /\ n = m
  BY <1>1, <1>2, <1>3
<1>8. Window!Offer(R, n)
  BY <1>2, <1>6, <1>7 DEF Window!Offer, Passed
<1>9. QED
  BY <1>3, <1>5, <1>8 DEF Window!WindowNext

LEMMA ReadStep ==
  ASSUME StreamInv, NEW c \in Consumers, Read(c)
  PROVE  StreamInv' /\ [Window!WindowNext]_(Window!windowVars)
<1> USE DEF StreamInv
<1>1. /\ GetMessage(c) /\ UNCHANGED <<published, offered>>
      /\ received' = [received EXCEPT ![c] = Append(@, Head(queues[c]))]
      /\ c \in DOMAIN queues /\ queues[c] # <<>> /\ DOMAIN queues' = DOMAIN queues
      /\ \A d \in DOMAIN queues : queues'[d] = IF d = c THEN Tail(queues[c]) ELSE queues[d]
  BY DEF Read, GetMessage
<1>2. BrokerInv'
  BY <1>1, GetMessageKeepsBrokerInv
<1>3. /\ queues[c] \in Seq(Messages) /\ offered[c] \in Seq(Messages)
      /\ IsSuffix(queues[c], offered[c])
  BY <1>1 DEF BrokerInv, BrokerTypeOK, HistoryTypeOK, QueuesAreSuffixes
<1>4. /\ IsSuffix(Tail(queues[c]), offered[c])
      /\ Len(Tail(queues[c])) = Len(queues[c]) - 1
      /\ Len(queues[c]) \in 1..Len(offered[c]) /\ Len(offered[c]) \in Nat
      /\ Head(queues[c]) = offered[c][Len(offered[c]) - Len(queues[c]) + 1]
  BY <1>1, <1>3, SuffixTail
<1>4a. /\ Len(queues[c]) \in Nat /\ Len(offered[c]) \in Nat
       /\ Len(queues[c]) >= 1 /\ Len(queues[c]) <= Len(offered[c])
       /\ Len(Tail(queues[c])) = Len(queues[c]) - 1
  BY <1>4
<1>5. Head(queues[c]) \in Messages
  BY <1>1, <1>3
<1>6. HistoryTypeOK'
  <2>1. Append(received[c], Head(queues[c])) \in Seq(Messages)
    BY <1>5 DEF HistoryTypeOK
  <2>2. QED
    BY <1>1, <2>1 DEF HistoryTypeOK
<1>7. QueuesAreSuffixes'
  BY <1>1, <1>4 DEF QueuesAreSuffixes
<1>8. NoQueueNoHistory'
  BY <1>1 DEF NoQueueNoHistory, HistoryTypeOK
<1>9. Passed[c] = Len(offered[c]) - Len(queues[c])
  BY <1>1 DEF Passed
<1>10. Passed' = [Passed EXCEPT ![c] = @ + 1]
  <2> SUFFICES ASSUME NEW d \in Consumers
               PROVE  Passed'[d] = IF d = c THEN Passed[c] + 1 ELSE Passed[d]
    BY DEF Passed
  <2>1. CASE d = c
    <3>1. Passed'[d] = Len(offered[c]) - Len(Tail(queues[c]))
      BY <1>1, <2>1 DEF Passed
    <3>2. Passed'[d] = Len(offered[c]) - Len(queues[c]) + 1
      BY <1>4a, <3>1, GapMoves
    <3>3. QED
      BY <1>9, <2>1, <3>2
  <2>2. CASE d # c
    <3>1. d \in DOMAIN queues => queues'[d] = queues[d]
      BY <1>1, <2>2
    <3>2. QED
      BY <1>1, <2>2, <3>1 DEF Passed
  <2>3. QED
    BY <2>1, <2>2
<1>11. /\ Passed[c] < Len(offered[c])
       /\ received' = [received EXCEPT ![c] = Append(@, offered[c][Passed[c] + 1])]
  <2>1. Passed[c] < Len(offered[c]) /\ Passed[c] + 1 = Len(offered[c]) - Len(queues[c]) + 1
    BY <1>9, <1>4a, GapMoves
  <2>2. Head(queues[c]) = offered[c][Passed[c] + 1]
    BY <1>4, <2>1
  <2>3. QED
    BY <1>1, <2>1, <2>2
<1>12. Window!Take(c)
  BY <1>1, <1>10, <1>11 DEF Window!Take, Passed
<1>13. QED
  BY <1>2, <1>6, <1>7, <1>8, <1>12 DEF Window!WindowNext

-----------------------------------------------------------------------------
LEMMA StreamStep ==
  ASSUME StreamInv, [StreamNext]_streamVars
  PROVE  StreamInv' /\ [Window!WindowNext]_(Window!windowVars)
<1>1. CASE UNCHANGED streamVars
  BY <1>1 DEF streamVars, StreamInv, BrokerInv, BrokerTypeOK, SubscribersHaveQueues,
     Bounded, Subscribers, HistoryTypeOK, QueuesAreSuffixes, NoQueueNoHistory,
     Window!windowVars
<1>2. QED
  BY <1>1, AttachStep, DetachStep, RemoveStep, PublishStep, ReadStep DEF StreamNext

\* Whatever is published, subscribed, unsubscribed and read, and at whatever
\* speed: what waits for a consumer is the newest part of what it was offered.
THEOREM StreamInvariant == StreamSpec => []StreamInv
<1>1. StreamInit => StreamInv
  BY StreamMessages DEF StreamInit, BrokerInit, StreamInv, BrokerInv, BrokerTypeOK,
     SubscribersHaveQueues, Bounded, Subscribers, HistoryTypeOK, QueuesAreSuffixes,
     NoQueueNoHistory
<1>2. QED
  BY <1>1, StreamStep, PTL DEF StreamSpec

\* Each consumer is served by a sliding window of its own: in order, skipping
\* only from the old end and only when its own queue is full, undisturbed by
\* other consumers and by its own other topics.
THEOREM BrokerImplementsWindow == StreamSpec => ImplementsWindow
<1>1. StreamInit => Window!WindowInit
  BY DEF StreamInit, BrokerInit, Window!WindowInit
<1>2. QED
  BY <1>1, StreamStep, StreamInvariant, PTL
     DEF StreamSpec, ImplementsWindow, Window!WindowSpec

-----------------------------------------------------------------------------
\* The messages of s are among the first n and in the order of publication.
InOrder(s, n) ==
  /\ \A i \in 1..Len(s) : s[i].seq \in 1..n
  /\ \A i, j \in 1..Len(s) : i < j => s[i].seq < s[j].seq

\* All of r was published before all of q.
AllBefore(r, q) == \A i \in 1..Len(r), j \in 1..Len(q) : r[i].seq < q[j].seq

\* A consumer was offered messages in order and read messages in order, and what
\* waits for it is newer than all it has read.
OrderInv ==
  /\ \A c \in Consumers : InOrder(offered[c], published) /\ InOrder(received[c], published)
  /\ \A c \in DOMAIN queues : AllBefore(received[c], queues[c])

\* A consumer for which nothing waits has read the newest message.
CaughtUp ==
  \A c \in DOMAIN queues : queues[c] = <<>> /\ offered[c] # <<>> =>
    /\ received[c] # <<>>
    /\ received[c][Len(received[c])] = offered[c][Len(offered[c])]

\* A suffix of an ordered sequence is ordered.
LEMMA SuffixInOrder ==
  ASSUME NEW q \in Seq(Messages), NEW s \in Seq(Messages), IsSuffix(q, s),
         NEW n \in Nat, InOrder(s, n)
  PROVE  InOrder(q, n)
<1>1. Len(q) \in Nat /\ Len(s) \in Nat /\ Len(q) <= Len(s)
  BY DEF IsSuffix
<1>2. ASSUME NEW i \in 1..Len(q)
      PROVE  Len(s) - Len(q) + i \in 1..Len(s) /\ q[i] = s[Len(s) - Len(q) + i]
  BY <1>1 DEF IsSuffix
<1>3. ASSUME NEW i \in 1..Len(q), NEW j \in 1..Len(q), i < j
      PROVE  q[i].seq < q[j].seq
  <2>1. Len(s) - Len(q) + i < Len(s) - Len(q) + j
    BY <1>1, <1>3
  <2>2. QED
    BY <1>2, <2>1 DEF InOrder
<1>4. QED
  BY <1>2, <1>3 DEF InOrder

\* A message newer than all of s may follow it.
LEMMA AppendInOrder ==
  ASSUME NEW s \in Seq(Messages), NEW n \in Nat, InOrder(s, n),
         NEW m \in Messages, m.seq \in 1..n,
         \A i \in 1..Len(s) : s[i].seq < m.seq
  PROVE  InOrder(Append(s, m), n)
<1> DEFINE ss == Append(s, m)
<1>1. /\ Len(s) \in Nat /\ Len(ss) = Len(s) + 1 /\ ss[Len(s) + 1] = m
      /\ \A i \in 1..Len(s) : ss[i] = s[i]
  OBVIOUS
<1> HIDE DEF ss
<1>2. \A i \in 1..Len(ss) : i \in 1..Len(s) \/ i = Len(s) + 1
  BY <1>1
<1>3. \A i, j \in 1..Len(ss) : i < j => i \in 1..Len(s)
  BY <1>1
<1>4. InOrder(ss, n)
  BY <1>1, <1>2, <1>3 DEF InOrder
<1>5. QED
  BY <1>4 DEF ss

\* The newest message of all may follow any.
LEMMA NewestInOrder ==
  ASSUME NEW s \in Seq(Messages), NEW n \in Nat, InOrder(s, n),
         NEW m \in Messages, m.seq = n + 1
  PROVE  /\ InOrder(s, n + 1) /\ InOrder(Append(s, m), n + 1)
         /\ \A i \in 1..Len(s) : s[i].seq < m.seq
<1>1. InOrder(s, n + 1) /\ \A i \in 1..Len(s) : s[i].seq < m.seq
  BY DEF InOrder
<1>2. QED
  BY <1>1, AppendInOrder

\* _enqueue_drop_oldest, seen from the messages: the last is the new one, and
\* every other was there.
LEMMA EnqueueKeepsMessages ==
  ASSUME NEW q \in Seq(Messages), Len(q) <= QueueSize, NEW m \in Messages
  PROVE  /\ EnqueueDropOldest(q, m) # <<>>
         /\ \A j \in 1..Len(EnqueueDropOldest(q, m)) :
              \/ EnqueueDropOldest(q, m)[j] = m
              \/ \E i \in 1..Len(q) : EnqueueDropOldest(q, m)[j] = q[i]
<1>1. ASSUME NEW s \in Seq(Messages)
      PROVE  /\ Append(s, m) # <<>>
             /\ \A j \in 1..Len(Append(s, m)) :
                  Append(s, m)[j] = m \/ \E i \in 1..Len(s) : Append(s, m)[j] = s[i]
  OBVIOUS
<1>2. CASE Len(q) >= QueueSize
  <2>1. /\ Tail(q) \in Seq(Messages)
        /\ \A i \in 1..Len(Tail(q)) : i + 1 \in 1..Len(q) /\ Tail(q)[i] = q[i + 1]
    <3>1. q # <<>>
      BY <1>2, QueueSizePositive
    <3>2. QED
      BY <3>1
  <2>2. EnqueueDropOldest(q, m) = Append(Tail(q), m)
    BY <1>2 DEF EnqueueDropOldest
  <2>3. QED
    BY <1>1, <2>1, <2>2
<1>3. CASE ~(Len(q) >= QueueSize)
  BY <1>1, <1>3 DEF EnqueueDropOldest
<1>4. QED
  BY <1>2, <1>3

LEMMA PublishKeepsOrder ==
  ASSUME StreamInv, OrderInv, CaughtUp, NEW t \in Topics, PublishNext(t)
  PROVE  OrderInv' /\ CaughtUp'
<1> DEFINE m == Message(t)
           S == Receivers(t)
<1>1. /\ published \in Nat /\ published' = published + 1
      /\ m \in Messages /\ m.seq = published + 1
  <2>1. published + 1 \in 1..MaxPublished
    BY StreamMessages DEF PublishNext, StreamInv, HistoryTypeOK
  <2>2. QED
    BY <2>1, StreamMessages, SMTT(30) DEF Message, PublishNext, StreamInv, HistoryTypeOK
<1>2. /\ received' = received /\ DOMAIN queues' = DOMAIN queues
      /\ DOMAIN queues \subseteq Consumers
      /\ \A c \in DOMAIN queues :
           queues'[c] = IF c \in S THEN EnqueueDropOldest(queues[c], m) ELSE queues[c]
      /\ offered' = [c \in Consumers |-> IF c \in S THEN Append(offered[c], m) ELSE offered[c]]
  BY DEF PublishNext, Publish, Receivers, StreamInv, BrokerInv, BrokerTypeOK
<1>3. /\ \A c \in Consumers : offered[c] \in Seq(Messages) /\ received[c] \in Seq(Messages)
      /\ \A c \in DOMAIN queues : queues[c] \in Seq(Messages) /\ Len(queues[c]) <= QueueSize
  BY DEF StreamInv, BrokerInv, BrokerTypeOK, Bounded, HistoryTypeOK
<1> HIDE DEF m, S
<1>4. ASSUME NEW c \in Consumers
      PROVE  InOrder(offered'[c], published') /\ InOrder(received'[c], published')
  <2>1. InOrder(offered[c], published) /\ InOrder(received[c], published)
    BY DEF OrderInv
  <2>2. /\ InOrder(offered[c], published + 1) /\ InOrder(Append(offered[c], m), published + 1)
        /\ InOrder(received[c], published + 1)
    BY <1>1, <1>3, <2>1, NewestInOrder
  <2>3. QED
    BY <1>1, <1>2, <2>2
<1>5. ASSUME NEW c \in DOMAIN queues
      PROVE  AllBefore(received'[c], queues'[c])
  <2>1. \A i \in 1..Len(received[c]) : received[c][i].seq < m.seq
    BY <1>1, <1>2, <1>3, NewestInOrder DEF OrderInv
  <2>2. AllBefore(received[c], queues[c])
    BY DEF OrderInv
  <2>3. CASE c \in S
    <3>1. queues'[c] = EnqueueDropOldest(queues[c], m) /\ received'[c] = received[c]
      BY <1>2, <2>3
    <3>2. \A j \in 1..Len(queues'[c]) :
            queues'[c][j] = m \/ \E i \in 1..Len(queues[c]) : queues'[c][j] = queues[c][i]
      BY <1>1, <1>3, <3>1, EnqueueKeepsMessages
    <3>3. QED
      BY <2>1, <2>2, <3>1, <3>2 DEF AllBefore
  <2>4. CASE c \notin S
    BY <1>2, <2>2, <2>4
  <2>5. QED
    BY <2>3, <2>4
<1>6. ASSUME NEW c \in DOMAIN queues, queues'[c] = <<>>, offered'[c] # <<>>
      PROVE  /\ received'[c] # <<>>
             /\ received'[c][Len(received'[c])] = offered'[c][Len(offered'[c])]
  <2>1. c \notin S
    BY <1>1, <1>2, <1>3, <1>6, EnqueueKeepsMessages
  <2>2. queues'[c] = queues[c] /\ offered'[c] = offered[c] /\ received'[c] = received[c]
    BY <1>2, <2>1
  <2>3. QED
    BY <1>6, <2>2 DEF CaughtUp
<1>7. QED
  BY <1>2, <1>4, <1>5, <1>6 DEF OrderInv, CaughtUp

LEMMA ReadKeepsOrder ==
  ASSUME StreamInv, OrderInv, CaughtUp, NEW c \in Consumers, Read(c)
  PROVE  OrderInv' /\ CaughtUp'
<1> DEFINE q == queues[c]
           r == received[c]
<1>1. /\ published' = published /\ offered' = offered
      /\ c \in DOMAIN queues /\ q # <<>> /\ DOMAIN queues' = DOMAIN queues
      /\ \A d \in DOMAIN queues : queues'[d] = IF d = c THEN Tail(q) ELSE queues[d]
      /\ \A d \in Consumers : received'[d] = IF d = c THEN Append(r, Head(q)) ELSE received[d]
      /\ DOMAIN queues \subseteq Consumers
  BY DEF Read, GetMessage, StreamInv, BrokerInv, BrokerTypeOK, HistoryTypeOK
<1>2. /\ q \in Seq(Messages) /\ r \in Seq(Messages) /\ offered[c] \in Seq(Messages)
      /\ IsSuffix(q, offered[c]) /\ published \in Nat
      /\ InOrder(r, published) /\ InOrder(offered[c], published) /\ AllBefore(r, q)
  BY <1>1 DEF StreamInv, BrokerInv, BrokerTypeOK, HistoryTypeOK, QueuesAreSuffixes, OrderInv
<1>3. InOrder(q, published)
  BY <1>2, SuffixInOrder
<1> HIDE DEF q, r
<1>4. /\ Tail(q) \in Seq(Messages) /\ Head(q) = q[1] /\ Head(q) \in Messages
      /\ Len(q) \in Nat /\ 1 \in 1..Len(q)
      /\ \A i \in 1..Len(Tail(q)) : i + 1 \in 1..Len(q) /\ Tail(q)[i] = q[i + 1] /\ 1 < i + 1
  BY <1>1, <1>2
<1>5. InOrder(Append(r, Head(q)), published)
  <2>1. Head(q).seq \in 1..published /\ \A i \in 1..Len(r) : r[i].seq < Head(q).seq
    BY <1>2, <1>3, <1>4 DEF InOrder, AllBefore
  <2>2. QED
    BY <1>2, <1>4, <2>1, AppendInOrder
<1>6. AllBefore(Append(r, Head(q)), Tail(q))
  <2>1. \A j \in 1..Len(Tail(q)) : Head(q).seq < Tail(q)[j].seq
    BY <1>3, <1>4 DEF InOrder
  <2>2. \A i \in 1..Len(r), j \in 1..Len(Tail(q)) : r[i].seq < Tail(q)[j].seq
    BY <1>2, <1>4 DEF AllBefore
  <2>3. \A i \in 1..Len(Append(r, Head(q))) :
          Append(r, Head(q))[i] = Head(q) \/ (i \in 1..Len(r) /\ Append(r, Head(q))[i] = r[i])
    BY <1>2, <1>4
  <2>4. QED
    BY <2>1, <2>2, <2>3 DEF AllBefore
<1>7. OrderInv'
  <2>1. ASSUME NEW d \in Consumers
        PROVE  InOrder(offered'[d], published') /\ InOrder(received'[d], published')
    BY <1>1, <1>5 DEF OrderInv
  <2>2. ASSUME NEW d \in DOMAIN queues PROVE AllBefore(received'[d], queues'[d])
    BY <1>1, <1>6 DEF OrderInv
  <2>3. QED
    BY <1>1, <2>1, <2>2 DEF OrderInv
<1>8. CaughtUp'
  <2> SUFFICES ASSUME NEW d \in DOMAIN queues, queues'[d] = <<>>, offered[d] # <<>>
               PROVE  /\ received'[d] # <<>>
                      /\ received'[d][Len(received'[d])] = offered[d][Len(offered[d])]
    BY <1>1 DEF CaughtUp
  <2>1. CASE d = c
    <3>1. Tail(q) = <<>> /\ received'[d] = Append(r, Head(q))
      BY <1>1, <2>1
    <3>2. /\ Len(Append(r, Head(q))) = Len(r) + 1 /\ Append(r, Head(q)) # <<>>
          /\ Append(r, Head(q))[Len(r) + 1] = Head(q)
      BY <1>2, <1>4
    <3>3. Head(q) = offered[c][Len(offered[c])]
      <4>1. /\ Len(Tail(q)) = Len(q) - 1 /\ Len(q) \in 1..Len(offered[c])
            /\ Head(q) = offered[c][Len(offered[c]) - Len(q) + 1]
        BY <1>1, <1>2, SuffixTail
      <4>2. Len(q) = 1
        <5>1. Len(<<>>) = 0 /\ Len(Tail(q)) = Len(<<>>) /\ Len(q) \in Nat
          <6>1. Len(Tail(q)) = Len(<<>>)
            BY <3>1, Zenon
          <6>2. QED
            BY <1>4, <6>1
        <5>2. \A n \in Nat : n - 1 = 0 => n = 1
          OBVIOUS
        <5>3. QED
          BY <4>1, <5>1, <5>2, Zenon
      <4>3. \A n \in Nat : n - 1 + 1 = n
        OBVIOUS
      <4>4. Len(offered[c]) \in Nat
        BY <1>2
      <4>5. QED
        BY <4>1, <4>2, <4>3, <4>4, Zenon
    <3>4. QED
      BY <2>1, <3>1, <3>2, <3>3
  <2>2. CASE d # c
    BY <1>1, <2>2 DEF CaughtUp
  <2>3. QED
    BY <2>1, <2>2
<1>9. QED
  BY <1>7, <1>8

LEMMA OrderStep ==
  ASSUME StreamInv, OrderInv, CaughtUp, [StreamNext]_streamVars
  PROVE  OrderInv' /\ CaughtUp'
<1>1. ASSUME NEW c \in Consumers, NEW t \in Topics, Attach(t, c)
      PROVE  OrderInv' /\ CaughtUp'
  <2>1. /\ published' = published /\ offered' = offered /\ received' = received
        /\ DOMAIN queues' = DOMAIN queues \cup {c}
        /\ \A d \in DOMAIN queues' : queues'[d] = IF d \in DOMAIN queues THEN queues[d] ELSE <<>>
    BY <1>1 DEF Attach, SubscribeConsumer, historyVars
  <2>2. /\ \A q : AllBefore(<<>>, q)
        /\ c \notin DOMAIN queues => received[c] = <<>> /\ offered[c] = <<>>
    BY DEF AllBefore, StreamInv, NoQueueNoHistory
  <2>3. QED
    BY <2>1, <2>2 DEF OrderInv, CaughtUp
<1>2. ASSUME NEW c \in Consumers, NEW t \in Topics, Detach(t, c)
      PROVE  OrderInv' /\ CaughtUp'
  BY <1>2 DEF Detach, UnsubscribeConsumer, historyVars, OrderInv, CaughtUp
<1>3. ASSUME NEW c \in Consumers, Remove(c)
      PROVE  OrderInv' /\ CaughtUp'
  <2>1. /\ published' = published
        /\ \A d \in Consumers : offered'[d] = IF d = c THEN <<>> ELSE offered[d]
        /\ \A d \in Consumers : received'[d] = IF d = c THEN <<>> ELSE received[d]
        /\ DOMAIN queues' = DOMAIN queues \ {c} /\ DOMAIN queues \subseteq Consumers
        /\ \A d \in DOMAIN queues' : queues'[d] = queues[d]
    BY <1>3 DEF Remove, RemoveConsumer, StreamInv, HistoryTypeOK, BrokerInv, BrokerTypeOK
  <2>2. \A n : InOrder(<<>>, n)
    BY DEF InOrder
  <2>3. QED
    BY <2>1, <2>2 DEF OrderInv, CaughtUp
<1>4. CASE UNCHANGED streamVars
  BY <1>4 DEF streamVars, OrderInv, CaughtUp
<1>5. QED
  BY <1>1, <1>2, <1>3, <1>4, PublishKeepsOrder, ReadKeepsOrder DEF StreamNext

\* What a consumer has read and what waits for it, in order and up to date.
THEOREM StreamOrderInvariant == StreamSpec => [](OrderInv /\ CaughtUp)
<1>1. StreamInit => OrderInv /\ CaughtUp
  BY DEF StreamInit, BrokerInit, OrderInv, InOrder, AllBefore, CaughtUp
<1>2. QED
  BY <1>1, OrderStep, StreamInvariant, PTL DEF StreamSpec

\* The stream that a consumer reads, now and later: its places, and its last one.
LEMMA Concatenation ==
  ASSUME NEW r \in Seq(Messages), NEW q \in Seq(Messages)
  PROVE  /\ DOMAIN (r \o q) = 1..(Len(r) + Len(q)) /\ Len(r \o q) = Len(r) + Len(q)
         /\ Len(r) \in Nat /\ Len(q) \in Nat
         /\ \A i \in 1..Len(r) : (r \o q)[i] = r[i]
         /\ \A i \in 1..(Len(r) + Len(q)) : i > Len(r) =>
              i - Len(r) \in 1..Len(q) /\ (r \o q)[i] = q[i - Len(r)]
OBVIOUS

\* Of two messages a consumer reads, of whatever topics, the one published first
\* comes first, for any number of consumers, topics and messages.
THEOREM StreamAlwaysInOrder == StreamSpec => []StreamInOrder
<1>1. StreamInv /\ OrderInv => StreamInOrder
  <2> SUFFICES ASSUME StreamInv, OrderInv, NEW c \in DOMAIN queues,
                      NEW i \in DOMAIN (received[c] \o queues[c]),
                      NEW j \in DOMAIN (received[c] \o queues[c]), i < j
               PROVE  (received[c] \o queues[c])[i].seq < (received[c] \o queues[c])[j].seq
    BY DEF StreamInOrder
  <2> DEFINE r == received[c]
             q == queues[c]
             s == r \o q
  <2>1. /\ r \in Seq(Messages) /\ q \in Seq(Messages) /\ InOrder(r, published)
        /\ AllBefore(r, q) /\ offered[c] \in Seq(Messages) /\ IsSuffix(q, offered[c])
        /\ InOrder(offered[c], published) /\ published \in Nat
    BY DEF StreamInv, BrokerInv, BrokerTypeOK, HistoryTypeOK, QueuesAreSuffixes, OrderInv
  <2>2. InOrder(q, published)
    BY <2>1, SuffixInOrder
  <2>3. /\ i \in 1..(Len(r) + Len(q)) /\ j \in 1..(Len(r) + Len(q))
        /\ Len(r) \in Nat /\ Len(q) \in Nat
        /\ \A k \in 1..Len(r) : s[k] = r[k]
        /\ \A k \in 1..(Len(r) + Len(q)) : k > Len(r) =>
              k - Len(r) \in 1..Len(q) /\ s[k] = q[k - Len(r)]
    BY <2>1, Concatenation
  <2> HIDE DEF r, q, s
  <2>4. CASE j <= Len(r)
    <3>1. i \in 1..Len(r) /\ j \in 1..Len(r)
      BY <2>3, <2>4
    <3>2. QED
      BY <2>1, <2>3, <3>1 DEF InOrder, s, r, q
  <2>5. CASE i <= Len(r) /\ j > Len(r)
    <3>1. i \in 1..Len(r) /\ s[i] = r[i] /\ j - Len(r) \in 1..Len(q) /\ s[j] = q[j - Len(r)]
      BY <2>3, <2>5
    <3>2. s[i].seq < s[j].seq
      BY <2>1, <3>1 DEF AllBefore
    <3>3. QED
      BY <3>2, SMTT(30) DEF s, r, q
  <2>6. CASE i > Len(r)
    <3>1. /\ i - Len(r) \in 1..Len(q) /\ s[i] = q[i - Len(r)]
          /\ j - Len(r) \in 1..Len(q) /\ s[j] = q[j - Len(r)]
          /\ i - Len(r) < j - Len(r)
      BY <2>3, <2>6
    <3>2. s[i].seq < s[j].seq
      BY <2>2, <3>1 DEF InOrder
    <3>3. QED
      BY <3>2, SMTT(30) DEF s, r, q
  <2>7. i \in Nat /\ j \in Nat /\ Len(r) \in Nat
    BY <2>3
  <2>8. j <= Len(r) \/ (i <= Len(r) /\ j > Len(r)) \/ i > Len(r)
    BY <2>7
  <2>9. QED
    BY <2>4, <2>5, <2>6, <2>8
<1>2. QED
  BY <1>1, StreamInvariant, StreamOrderInvariant, PTL

\* However slow a consumer is and whatever is dropped, the newest message it was
\* offered waits for it or was the last it read.
THEOREM FreshestAlwaysKept == StreamSpec => []FreshestKept
<1>1. StreamInv /\ CaughtUp => FreshestKept
  <2> SUFFICES ASSUME StreamInv, CaughtUp, NEW c \in DOMAIN queues, offered[c] # <<>>
               PROVE  LET stream == received[c] \o queues[c]
                      IN /\ stream # <<>>
                         /\ stream[Len(stream)] = offered[c][Len(offered[c])]
    BY DEF FreshestKept
  <2> DEFINE r == received[c]
             q == queues[c]
             s == r \o q
  <2>1. /\ r \in Seq(Messages) /\ q \in Seq(Messages) /\ offered[c] \in Seq(Messages)
        /\ IsSuffix(q, offered[c])
    BY DEF StreamInv, BrokerInv, BrokerTypeOK, HistoryTypeOK, QueuesAreSuffixes
  <2>2. /\ Len(s) = Len(r) + Len(q) /\ Len(r) \in Nat /\ Len(q) \in Nat
        /\ \A k \in 1..Len(r) : s[k] = r[k]
        /\ \A k \in 1..(Len(r) + Len(q)) : k > Len(r) => s[k] = q[k - Len(r)]
    BY <2>1, Concatenation
  <2>3. CASE q = <<>>
    <3>1. r # <<>> /\ r[Len(r)] = offered[c][Len(offered[c])]
      BY <2>3 DEF CaughtUp
    <3>2. Len(q) = 0 /\ Len(r) \in 1..Len(r)
      BY <2>1, <2>3, <3>1
    <3>3. Len(s) = Len(r) /\ s[Len(s)] = r[Len(r)] /\ Len(s) # 0
      BY <2>2, <3>2
    <3>4. QED
      BY <3>1, <3>3
  <2>4. CASE q # <<>>
    <3>1. Len(q) \in 1..Len(q) /\ Len(q) > 0
      BY <2>1, <2>4
    <3>2. q[Len(q)] = offered[c][Len(offered[c])]
      <4>1. q[Len(q)] = offered[c][Len(offered[c]) - Len(q) + Len(q)]
        BY <2>1, <3>1 DEF IsSuffix
      <4>2. QED
        BY <2>1, <2>2, <4>1
    <3>3. Len(s) - Len(r) = Len(q) /\ Len(s) > Len(r) /\ Len(s) \in 1..(Len(r) + Len(q))
      BY <2>2, <3>1
    <3>4. s[Len(s)] = q[Len(q)] /\ Len(s) # 0
      BY <2>2, <3>3
    <3>5. QED
      BY <3>2, <3>4
  <2>5. QED
    BY <2>3, <2>4
<1>2. QED
  BY <1>1, StreamInvariant, StreamOrderInvariant, PTL

-----------------------------------------------------------------------------
\* The places in q of messages of t.
Places(q, t) == {i \in DOMAIN q : q[i].topic = t}

LEMMA PlacesCount ==
  ASSUME NEW S, NEW q \in Seq(S), NEW t
  PROVE  IsFiniteSet(Places(q, t)) /\ Cardinality(Places(q, t)) \in Nat
<1>1. Len(q) \in Nat /\ DOMAIN q = 1..Len(q)
  OBVIOUS
<1>2. IsFiniteSet(1..Len(q))
  BY <1>1, FS_Interval
<1>3. Places(q, t) \subseteq 1..Len(q)
  BY <1>1 DEF Places
<1>4. QED
  BY <1>2, <1>3, FS_Subset, FS_CardinalityType

\* Taking the oldest message away adds none.
LEMMA TailDrains ==
  ASSUME NEW S, NEW q \in Seq(S), NEW t, q # <<>>
  PROVE  Cardinality(Places(Tail(q), t)) <= Cardinality(Places(q, t))
<1> DEFINE f == [i \in Places(Tail(q), t) |-> i + 1]
<1>1. \A i \in DOMAIN Tail(q) : i \in Int /\ i + 1 \in DOMAIN q /\ Tail(q)[i] = q[i + 1]
  OBVIOUS
<1>2. f \in [Places(Tail(q), t) -> Places(q, t)]
  BY <1>1 DEF Places
<1>3. \A i, j \in Places(Tail(q), t) : f[i] = f[j] => i = j
  BY <1>1 DEF Places
<1>4. f \in Injection(Places(Tail(q), t), Places(q, t))
  BY <1>2, <1>3 DEF Injection, IsInjective
<1>5. QED
  BY <1>4, PlacesCount, FS_Injection

\* Nor does a message of another topic.
LEMMA OtherTopicAddsNone ==
  ASSUME NEW S, NEW q \in Seq(S), NEW m, NEW t, m.topic # t
  PROVE  Places(Append(q, m), t) = Places(q, t)
<1>1. /\ Len(q) \in Nat /\ DOMAIN q = 1..Len(q) /\ DOMAIN Append(q, m) = 1..(Len(q) + 1)
      /\ Append(q, m)[Len(q) + 1] = m
      /\ \A i \in 1..Len(q) : Append(q, m)[i] = q[i]
  OBVIOUS
<1>2. \A i \in 1..(Len(q) + 1) : i \in 1..Len(q) \/ i = Len(q) + 1
  BY <1>1
<1>3. QED
  BY <1>1, <1>2 DEF Places

LEMMA EnqueueDrains ==
  ASSUME NEW S, NEW q \in Seq(S), NEW m, NEW t, m.topic # t
  PROVE  Cardinality(Places(EnqueueDropOldest(q, m), t)) <= Cardinality(Places(q, t))
<1>1. Cardinality(Places(q, t)) \in Nat
  BY PlacesCount
<1>2. CASE Len(q) >= QueueSize
  <2>1. q # <<>> /\ Tail(q) \in Seq(S)
    BY <1>2, QueueSizePositive
  <2>2. Places(EnqueueDropOldest(q, m), t) = Places(Tail(q), t)
    BY <1>2, <2>1, OtherTopicAddsNone DEF EnqueueDropOldest
  <2>3. QED
    BY <2>1, <2>2, TailDrains
<1>3. CASE ~(Len(q) >= QueueSize)
  BY <1>1, <1>3, OtherTopicAddsNone DEF EnqueueDropOldest
<1>4. QED
  BY <1>2, <1>3

\* What waits of a topic when a consumer unsubscribes it is the last of it, for
\* any number of consumers, topics and messages: until the consumer subscribes
\* again the number only falls.
THEOREM LateEventsAlwaysDrain == StreamSpec => LateEventsOnlyDrain
<1> DEFINE Drain == \A t \in Topics, c \in Consumers :
                      c \notin Subscribers(t) => Waiting(t, c)' <= Waiting(t, c)
<1>1. BrokerInv /\ [StreamNext]_streamVars => [Drain]_streamVars
  <2> SUFFICES ASSUME BrokerInv, StreamNext,
                      NEW t \in Topics, NEW c \in Consumers, c \notin Subscribers(t)
               PROVE  Waiting(t, c)' <= Waiting(t, c)
    OBVIOUS
  <2>1. /\ c \in DOMAIN queues => queues[c] \in Seq(Messages)
        /\ Waiting(t, c) \in Nat
        /\ c \in DOMAIN queues => Waiting(t, c) = Cardinality(Places(queues[c], t))
        /\ c \in DOMAIN queues' => Waiting(t, c)' = Cardinality(Places(queues'[c], t))
        /\ c \notin DOMAIN queues' => Waiting(t, c)' = 0
    <3>1. \A b \in DOMAIN queues : queues[b] \in Seq(Messages)
      BY DEF BrokerInv, BrokerTypeOK
    <3>2. /\ c \in DOMAIN queues => Waiting(t, c) = Cardinality(Places(queues[c], t))
          /\ c \notin DOMAIN queues => Waiting(t, c) = 0
      BY DEF Waiting, Places
    <3>3. /\ c \in DOMAIN queues' => Waiting(t, c)' = Cardinality(Places(queues'[c], t))
          /\ c \notin DOMAIN queues' => Waiting(t, c)' = 0
      BY DEF Waiting, Places
    <3>4. Waiting(t, c) \in Nat
      <4>1. CASE c \in DOMAIN queues
        BY <3>1, <3>2, <4>1, PlacesCount
      <4>2. CASE c \notin DOMAIN queues
        BY <3>2, <4>2
      <4>3. QED
        BY <4>1, <4>2
    <3>5. QED
      BY <3>1, <3>2, <3>3, <3>4
  <2>2. CASE c \in DOMAIN queues /\ c \in DOMAIN queues' /\ queues'[c] = queues[c]
    BY <2>1, <2>2
  <2>3. CASE c \notin DOMAIN queues'
    BY <2>1, <2>3
  <2>4. CASE c \in DOMAIN queues' /\ queues'[c] = <<>>
    <3>1. Places(queues'[c], t) = {}
      BY <2>4 DEF Places
    <3>2. Cardinality(Places(queues'[c], t)) = 0
      BY <3>1, FS_EmptySet
    <3>3. QED
      BY <2>1, <2>4, <3>2
  <2>5. ASSUME NEW u \in Topics, NEW d \in Consumers, Attach(u, d) \/ Detach(u, d)
        PROVE  Waiting(t, c)' <= Waiting(t, c)
    BY <2>2, <2>3, <2>4, <2>5 DEF Attach, Detach, SubscribeConsumer, UnsubscribeConsumer
  <2>6. ASSUME NEW d \in Consumers, Remove(d)
        PROVE  Waiting(t, c)' <= Waiting(t, c)
    BY <2>2, <2>3, <2>6 DEF Remove, RemoveConsumer
  <2>7. ASSUME NEW d \in Consumers, Read(d)
        PROVE  Waiting(t, c)' <= Waiting(t, c)
    <3>1. /\ DOMAIN queues' = DOMAIN queues /\ d \in DOMAIN queues
          /\ \A b \in DOMAIN queues : b # d => queues'[b] = queues[b]
          /\ queues[d] # <<>> /\ queues'[d] = Tail(queues[d])
      BY <2>7 DEF Read, GetMessage
    <3>2. CASE c = d
      BY <2>1, <3>1, <3>2, TailDrains
    <3>3. CASE c # d
      BY <2>2, <2>3, <3>1, <3>3
    <3>4. QED
      BY <3>2, <3>3
  <2>8. ASSUME NEW u \in Topics, PublishNext(u)
        PROVE  Waiting(t, c)' <= Waiting(t, c)
    <3>1. /\ DOMAIN queues' = DOMAIN queues
          /\ \A b \in DOMAIN queues :
               queues'[b] = IF b \in Receivers(u) THEN EnqueueDropOldest(queues[b], Message(u))
                                                  ELSE queues[b]
      BY <2>8 DEF PublishNext, Publish
    <3>2. CASE c \in DOMAIN queues /\ c \in Receivers(u)
      <4>1. u # t
        BY <3>2 DEF Receivers
      <4>2. Message(u).topic # t
        BY <4>1 DEF Message
      <4>3. queues'[c] = EnqueueDropOldest(queues[c], Message(u))
        BY <3>1, <3>2
      <4>4. QED
        BY <2>1, <3>1, <3>2, <4>2, <4>3, EnqueueDrains
    <3>3. CASE c \in DOMAIN queues /\ c \notin Receivers(u)
      BY <2>2, <3>1, <3>3
    <3>4. QED
      BY <2>3, <3>1, <3>2, <3>3
  <2>9. QED
    BY <2>5, <2>6, <2>7, <2>8 DEF StreamNext
<1>2. StreamSpec => []BrokerInv
  <2>1. StreamInv => BrokerInv
    BY DEF StreamInv
  <2>2. QED
    BY <2>1, StreamInvariant, PTL
<1>3. QED
  BY <1>1, <1>2, PTL DEF StreamSpec, LateEventsOnlyDrain

-----------------------------------------------------------------------------
(***************************************************************************)
(* The counters.  Every step moves them by as many as the places taken in  *)
(* the queues gain or lose; the tables are finite because they start empty *)
(* and grow by one entry at a time, so nothing is asked of Consumers.      *)
(***************************************************************************)
CountInv ==
  /\ IsFiniteSet(DOMAIN queues) /\ IsFiniteSet(TakenPlaces)
  /\ broker_queue_puts \in Int /\ broker_drop_oldest_total \in Int /\ departed \in Int
  /\ MetricsBalance

\* P holds the places where a message waits in a table of queues.
TakenAre(table, P) ==
  \A p : p \in P <=> \E c \in DOMAIN table : \E i \in 1..Len(table[c]) : p = <<c, i>>

LEMMA PlaceTaken ==
  ASSUME NEW table, \A c \in DOMAIN table : table[c] \in Seq(Messages)
  PROVE  TakenAre(table, UNION {{c} \X DOMAIN table[c] : c \in DOMAIN table})
<1>1. \A c \in DOMAIN table : DOMAIN table[c] = 1..Len(table[c])
  OBVIOUS
<1>2. \A c, p : p \in {c} \X DOMAIN table[c] <=> \E i \in DOMAIN table[c] : p = <<c, i>>
  OBVIOUS
<1>3. \A p : p \in UNION {{c} \X DOMAIN table[c] : c \in DOMAIN table} <=>
         \E c \in DOMAIN table : p \in {c} \X DOMAIN table[c]
  OBVIOUS
<1>4. QED
  BY <1>1, <1>2, <1>3 DEF TakenAre

LEMMA PlacesAreTaken ==
  ASSUME BrokerInv, BrokerInv'
  PROVE  TakenAre(queues, TakenPlaces) /\ TakenAre(queues', TakenPlaces')
<1>1. \A c \in DOMAIN queues : queues[c] \in Seq(Messages)
  BY DEF BrokerInv, BrokerTypeOK
<1>2. \A c \in DOMAIN queues' : queues'[c] \in Seq(Messages)
  BY DEF BrokerInv, BrokerTypeOK
<1>3. TakenAre(queues, TakenPlaces)
  BY <1>1, PlaceTaken DEF TakenPlaces
<1>4. TakenAre(queues', TakenPlaces')
  BY <1>2, PlaceTaken DEF TakenPlaces
<1>5. QED
  BY <1>3, <1>4

\* Places taken by one consumer, and one place for each of several consumers.
LEMMA PlacesOfOne ==
  ASSUME NEW c, NEW n \in Nat
  PROVE  IsFiniteSet({c} \X (1..n)) /\ Cardinality({c} \X (1..n)) = n
<1>1. IsFiniteSet({c}) /\ Cardinality({c}) = 1
  BY FS_Singleton
<1>2. IsFiniteSet(1..n) /\ Cardinality(1..n) = n
  BY FS_Interval
<1>3. /\ IsFiniteSet({c} \X (1..n))
      /\ Cardinality({c} \X (1..n)) = Cardinality({c}) * Cardinality(1..n)
  BY <1>1, <1>2, FS_Product, Zenon
<1>4. QED
  BY <1>1, <1>2, <1>3

LEMMA OnePlaceEach ==
  ASSUME NEW S, IsFiniteSet(S), NEW g
  PROVE  LET P == {<<c, g[c]>> : c \in S}
         IN  IsFiniteSet(P) /\ Cardinality(P) = Cardinality(S)
<1> DEFINE P == {<<c, g[c]>> : c \in S}
           f == [c \in S |-> <<c, g[c]>>]
<1>1. f \in Bijection(S, P)
  BY DEF Bijection, Injection, Surjection, IsInjective
<1>2. ExistsBijection(S, P)
  BY <1>1 DEF ExistsBijection
<1>3. QED
  BY <1>2, FS_Bijection

\* Two sets without a common member.
LEMMA DisjointCount ==
  ASSUME NEW S, IsFiniteSet(S), NEW T, IsFiniteSet(T), S \cap T = {}
  PROVE  IsFiniteSet(S \cup T) /\ Cardinality(S \cup T) = Cardinality(S) + Cardinality(T)
<1>1. Cardinality(S \cap T) = 0
  BY FS_EmptySet
<1>2. Cardinality(S) \in Nat /\ Cardinality(T) \in Nat
  BY FS_CardinalityType
<1>3. /\ IsFiniteSet(S \cup T)
      /\ Cardinality(S \cup T) = Cardinality(S) + Cardinality(T) - Cardinality(S \cap T)
  BY FS_Union, Zenon
<1>4. QED
  BY <1>1, <1>2, <1>3

LEMMA AttachKeepsCount ==
  ASSUME BrokerInv, BrokerInv', CountInv, NEW c, NEW t, Attach(t, c)
  PROVE  CountInv'
<1>1. /\ DOMAIN queues' = DOMAIN queues \cup {c}
      /\ \A d \in DOMAIN queues' : queues'[d] = IF d \in DOMAIN queues THEN queues[d] ELSE <<>>
      /\ UNCHANGED <<broker_queue_puts, broker_drop_oldest_total, departed>>
  BY DEF Attach, SubscribeConsumer, historyVars
<1>2. IsFiniteSet(DOMAIN queues')
  BY <1>1, FS_AddElement DEF CountInv
<1>3. \A d \in DOMAIN queues' :
        IF d \in DOMAIN queues THEN queues'[d] = queues[d] ELSE 1..Len(queues'[d]) = {}
  BY <1>1
<1>4. TakenAre(queues, TakenPlaces) /\ TakenAre(queues', TakenPlaces')
  BY PlacesAreTaken
<1>6. TakenPlaces' = TakenPlaces
  BY <1>1, <1>3, <1>4 DEF TakenAre
<1>7. QED
  BY <1>1, <1>2, <1>6 DEF CountInv, MetricsBalance

\* As many messages gone as places given back keep the balance.
LEMMA GoneBalance ==
  ASSUME NEW puts \in Int, NEW drops \in Int, NEW gone \in Int, NEW k \in Nat, NEW n \in Nat,
         puts - drops - gone = k + n
  PROVE  gone + n \in Int /\ puts - drops - (gone + n) = k
OBVIOUS

LEMMA RemoveKeepsCount ==
  ASSUME BrokerInv, BrokerInv', CountInv, NEW c, Remove(c)
  PROVE  CountInv'
<1>1. /\ DOMAIN queues' = DOMAIN queues \ {c}
      /\ \A d \in DOMAIN queues' : queues'[d] = queues[d]
      /\ departed' = departed + (IF c \in DOMAIN queues THEN Len(queues[c]) ELSE 0)
      /\ UNCHANGED <<broker_queue_puts, broker_drop_oldest_total>>
  BY DEF Remove, RemoveConsumer
<1>2. IsFiniteSet(DOMAIN queues')
  BY <1>1, FS_RemoveElement DEF CountInv
<1>3. TakenAre(queues, TakenPlaces) /\ TakenAre(queues', TakenPlaces')
  BY PlacesAreTaken
<1>4. CASE c \in DOMAIN queues
  <2> DEFINE gone == {c} \X (1..Len(queues[c]))
  <2>1. Len(queues[c]) \in Nat
    BY <1>4 DEF BrokerInv, BrokerTypeOK
  <2>2. IsFiniteSet(gone) /\ Cardinality(gone) = Len(queues[c])
    BY <2>1, PlacesOfOne
  <2>3. TakenPlaces = TakenPlaces' \cup gone /\ TakenPlaces' \cap gone = {}
    BY <1>1, <1>3, <1>4 DEF TakenAre
  <2>4. IsFiniteSet(TakenPlaces')
    BY <2>3, FS_Subset DEF CountInv
  <2>5. /\ Cardinality(TakenPlaces) = Cardinality(TakenPlaces') + Len(queues[c])
        /\ Cardinality(TakenPlaces') \in Nat
    BY <2>2, <2>3, <2>4, DisjointCount, FS_CardinalityType
  <2>6. departed' = departed + Len(queues[c])
    BY <1>1, <1>4
  <2>7. /\ departed' \in Int
        /\ broker_queue_puts - broker_drop_oldest_total - departed' = Cardinality(TakenPlaces')
    <3> DEFINE n == Len(queues[c])
               k == Cardinality(TakenPlaces')
               gone1 == departed'
    <3>1. /\ broker_queue_puts \in Int /\ broker_drop_oldest_total \in Int /\ departed \in Int
          /\ broker_queue_puts - broker_drop_oldest_total - departed = k + n
          /\ k \in Nat /\ n \in Nat /\ gone1 = departed + n
      BY <2>1, <2>5, <2>6 DEF CountInv, MetricsBalance
    <3> HIDE DEF n, k, gone1
    <3>2. gone1 \in Int /\ broker_queue_puts - broker_drop_oldest_total - gone1 = k
      BY <3>1, GoneBalance
    <3>3. QED
      BY <3>2 DEF gone1, k
  <2>8. QED
    BY <1>1, <1>2, <2>4, <2>7 DEF CountInv, MetricsBalance
<1>5. CASE c \notin DOMAIN queues
  <2>1. TakenPlaces' = TakenPlaces
    <3>1. DOMAIN queues' = DOMAIN queues /\ \A d \in DOMAIN queues : queues'[d] = queues[d]
      BY <1>1, <1>5
    <3>2. QED
      BY <1>3, <3>1 DEF TakenAre
  <2>2. departed' = departed
    BY <1>1, <1>5 DEF CountInv
  <2>3. QED
    BY <1>1, <1>2, <2>1, <2>2 DEF CountInv, MetricsBalance
<1>6. QED
  BY <1>4, <1>5

LEMMA ReadKeepsCount ==
  ASSUME BrokerInv, BrokerInv', CountInv, NEW c, Read(c)
  PROVE  CountInv'
<1>1. /\ c \in DOMAIN queues /\ queues[c] # <<>> /\ DOMAIN queues' = DOMAIN queues
      /\ \A d \in DOMAIN queues : queues'[d] = IF d = c THEN Tail(queues[c]) ELSE queues[d]
      /\ departed' = departed + 1
      /\ UNCHANGED <<broker_queue_puts, broker_drop_oldest_total>>
  BY DEF Read, GetMessage
<1>2. /\ Len(queues[c]) \in Nat \ {0} /\ Len(queues'[c]) = Len(queues[c]) - 1
  <2>1. queues[c] \in Seq(Messages)
    BY <1>1 DEF BrokerInv, BrokerTypeOK
  <2>2. QED
    BY <1>1, <2>1
<1>3. TakenAre(queues, TakenPlaces) /\ TakenAre(queues', TakenPlaces')
  BY PlacesAreTaken
<1>4. \A d \in DOMAIN queues : d # c => Len(queues'[d]) = Len(queues[d])
  BY <1>1
<1>5. TakenPlaces' = TakenPlaces \ {<<c, Len(queues[c])>>} /\ <<c, Len(queues[c])>> \in TakenPlaces
  BY <1>1, <1>2, <1>3, <1>4 DEF TakenAre
<1>6. /\ IsFiniteSet(TakenPlaces') /\ Cardinality(TakenPlaces') = Cardinality(TakenPlaces) - 1
      /\ Cardinality(TakenPlaces) \in Nat
  BY <1>5, FS_RemoveElement, FS_CardinalityType DEF CountInv
<1>7. QED
  BY <1>1, <1>6 DEF CountInv, MetricsBalance

\* A publish takes a new place in each receiver's queue that is not full.
LEMMA PublishKeepsCount ==
  ASSUME BrokerInv, BrokerInv', CountInv, NEW t \in Topics, PublishNext(t)
  PROVE  CountInv'
<1> DEFINE taken == {<<c, Len(queues[c]) + 1>> : c \in Receivers(t) \ Overflowing(t)}
           m == Message(t)
<1>1. /\ DOMAIN queues' = DOMAIN queues
      /\ Receivers(t) \subseteq DOMAIN queues /\ Overflowing(t) \subseteq Receivers(t)
      /\ \A c \in DOMAIN queues :
           queues'[c] = IF c \in Receivers(t) THEN EnqueueDropOldest(queues[c], m) ELSE queues[c]
      /\ broker_queue_puts' = broker_queue_puts + Cardinality(Receivers(t))
      /\ broker_drop_oldest_total' = broker_drop_oldest_total + Cardinality(Overflowing(t))
      /\ departed' = departed
  BY DEF PublishNext, Publish, Receivers, Overflowing
<1> HIDE DEF m
<1>2. ASSUME NEW c \in DOMAIN queues
      PROVE  /\ Len(queues[c]) \in Nat
             /\ Len(queues'[c]) = IF c \in Receivers(t) \ Overflowing(t)
                                  THEN Len(queues[c]) + 1 ELSE Len(queues[c])
  <2>1. queues[c] \in Seq(Messages) /\ Len(queues[c]) \in Nat
    BY DEF BrokerInv, BrokerTypeOK
  <2>2. CASE c \in Overflowing(t)
    <3>1. Len(queues[c]) >= QueueSize /\ c \in Receivers(t)
      BY <2>2 DEF Overflowing
    <3>2. queues[c] # <<>> /\ queues'[c] = Append(Tail(queues[c]), m)
      BY <1>1, <2>1, <3>1, QueueSizePositive DEF EnqueueDropOldest
    <3>3. QED
      BY <2>1, <2>2, <3>2
  <2>3. CASE c \in Receivers(t) \ Overflowing(t)
    <3>1. queues'[c] = Append(queues[c], m)
      BY <1>1, <2>3 DEF Overflowing, EnqueueDropOldest
    <3>2. QED
      BY <2>1, <2>3, <3>1
  <2>4. CASE c \notin Receivers(t)
    BY <1>1, <2>1, <2>4
  <2>5. QED
    BY <2>2, <2>3, <2>4
<1>3. TakenAre(queues, TakenPlaces) /\ TakenAre(queues', TakenPlaces')
  BY PlacesAreTaken
<1>4. TakenPlaces' = TakenPlaces \cup taken /\ TakenPlaces \cap taken = {}
  <2>1. \A c \in DOMAIN queues, i \in Int : i \in 1..Len(queues'[c]) <=>
          \/ i \in 1..Len(queues[c])
          \/ c \in Receivers(t) \ Overflowing(t) /\ i = Len(queues[c]) + 1
    BY <1>2
  <2>2. \A c \in DOMAIN queues : Len(queues[c]) + 1 \notin 1..Len(queues[c])
                                 /\ Len(queues[c]) + 1 \in Int
    BY <1>2
  <2>3. \A p : p \in taken <=>
          \E c \in Receivers(t) \ Overflowing(t) : p = <<c, Len(queues[c]) + 1>>
    OBVIOUS
  <2> HIDE DEF taken
  <2>4. QED
    BY <1>1, <1>3, <2>1, <2>2, <2>3 DEF TakenAre
<1>5. /\ IsFiniteSet(Receivers(t)) /\ IsFiniteSet(Overflowing(t))
      /\ IsFiniteSet(Receivers(t) \ Overflowing(t))
      /\ Cardinality(Receivers(t) \ Overflowing(t)) =
           Cardinality(Receivers(t)) - Cardinality(Overflowing(t))
  <2>1. IsFiniteSet(Receivers(t))
    BY <1>1, FS_Subset DEF CountInv
  <2>2. Receivers(t) \cap Overflowing(t) = Overflowing(t)
    BY <1>1
  <2>3. QED
    BY <1>1, <2>1, <2>2, FS_Subset, FS_Difference
<1>6. IsFiniteSet(taken) /\ Cardinality(taken) = Cardinality(Receivers(t) \ Overflowing(t))
  <2> DEFINE g == [c \in Receivers(t) \ Overflowing(t) |-> Len(queues[c]) + 1]
             P == {<<c, g[c]>> : c \in Receivers(t) \ Overflowing(t)}
  <2>1. IsFiniteSet(P) /\ Cardinality(P) = Cardinality(Receivers(t) \ Overflowing(t))
    BY <1>5, OnePlaceEach
  <2>2. P = taken
    OBVIOUS
  <2>3. QED
    BY <2>1, <2>2
<1> HIDE DEF taken
<1>7. /\ IsFiniteSet(TakenPlaces')
      /\ Cardinality(TakenPlaces') = Cardinality(TakenPlaces) + Cardinality(taken)
  BY <1>4, <1>6, DisjointCount DEF CountInv
<1>8. /\ Cardinality(TakenPlaces) \in Nat /\ Cardinality(Receivers(t)) \in Nat
      /\ Cardinality(Overflowing(t)) \in Nat
  BY <1>5, FS_CardinalityType DEF CountInv
<1>9. QED
  BY <1>1, <1>5, <1>6, <1>7, <1>8 DEF CountInv, MetricsBalance

\* The counters an operator reads add up at every moment, for any consumers,
\* topics and queue size: puts less drops less messages gone are those waiting.
THEOREM MetricsAlwaysBalance == StreamSpec => []MetricsBalance
<1>1. StreamInit => CountInv
  <2> SUFFICES ASSUME StreamInit PROVE CountInv
    OBVIOUS
  <2>1. DOMAIN queues = {} /\ TakenPlaces = {}
    BY DEF StreamInit, BrokerInit, TakenPlaces
  <2>2. IsFiniteSet({}) /\ Cardinality({}) = 0
    BY FS_EmptySet
  <2>3. QED
    BY <2>1, <2>2 DEF StreamInit, CountInv, MetricsBalance
<1>2. CountInv /\ BrokerInv /\ BrokerInv' /\ [StreamNext]_streamVars => CountInv'
  <2> SUFFICES ASSUME CountInv, BrokerInv, BrokerInv', [StreamNext]_streamVars
               PROVE  CountInv'
    OBVIOUS
  <2>1. CASE UNCHANGED streamVars
    BY <2>1 DEF streamVars, CountInv, MetricsBalance, TakenPlaces
  <2>2. ASSUME NEW c \in Consumers, NEW t \in Topics, Detach(t, c)
        PROVE  CountInv'
    BY <2>2 DEF Detach, UnsubscribeConsumer, historyVars, CountInv, MetricsBalance, TakenPlaces
  <2>3. QED
    BY <2>1, <2>2, AttachKeepsCount, RemoveKeepsCount, ReadKeepsCount, PublishKeepsCount
       DEF StreamNext
<1>3. StreamInv => BrokerInv
  BY DEF StreamInv
<1>4. CountInv => MetricsBalance
  BY DEF CountInv
<1>5. QED
  BY <1>1, <1>2, <1>3, <1>4, StreamInvariant, PTL DEF StreamSpec
=============================================================================
