------------------------------ MODULE HubProofs ------------------------------
(***************************************************************************)
(* Hub implements the specifications of its components, for any number of  *)
(* connections and topics: what a handler does between two suspensions is  *)
(* at most one step of each of them.  What is proved of a component by     *)
(* itself therefore holds inside the hub.  Then the hub's own invariants:  *)
(* the two tables agree (ReplyNamesTopic), a task finds what it was        *)
(* promised when it wakes (TaskInv), nothing is asked of the exchange that *)
(* nobody wants, and what is wanted is asked for as long as no cleanup     *)
(* acts on a stale count (DemandInv).  TasksTyped adds that a connection   *)
(* is registered from its accept to its cleanup, for the types.            *)
(***************************************************************************)
EXTENDS Hub, TLAPS

\* A handler that waits for its first subscribe knows which topic it was for:
\* the rollback gives back that topic and no other.
ReplyNamesTopic ==
  /\ DOMAIN handler = Conns /\ DOMAIN reply = Conns
  /\ \A c \in Conns : handler[c] = "subscribing" => reply[c].topic \in Topics

\* A handler that goes on to anything but a subscribe disturbs nobody's topic.
LEMMA GotoKeepsTopic ==
  ASSUME ReplyNamesTopic, NEW c \in Conns, NEW pc, pc # "subscribing", Goto(c, pc),
         \/ UNCHANGED reply
         \/ \E r : reply' = [reply EXCEPT ![c] = r]
  PROVE  ReplyNamesTopic'
BY DEF ReplyNamesTopic, Goto

LEMMA ReplyNamesTopicHolds == HubSpec => []ReplyNamesTopic
<1>1. HubInit => ReplyNamesTopic
  BY DEF HubInit, ReplyNamesTopic
<1>2. ReplyNamesTopic /\ [HubNext]_hubVars => ReplyNamesTopic'
  <2> SUFFICES ASSUME ReplyNamesTopic, [HubNext]_hubVars
               PROVE  ReplyNamesTopic'
    OBVIOUS
  <2>1. CASE UNCHANGED <<handler, reply>>
    BY <2>1 DEF ReplyNamesTopic
  <2>2. ASSUME NEW c \in Conns, PeerStep(c) PROVE ReplyNamesTopic'
    <3>1. CASE Accept(c) \/ RejectedMessage(c) \/ Replied(c)
      BY <3>1, GotoKeepsTopic DEF Accept, RejectedMessage, Replied
    <3>2. CASE MalformedFrame(c)
      BY <3>2, GotoKeepsTopic DEF MalformedFrame, EnterFinally
    <3>3. CASE LinkLost(c)
      BY <2>1, <3>3 DEF LinkLost
    <3>4. ASSUME NEW t \in Topics, HandleSubscribe(c, t) PROVE ReplyNamesTopic'
      <4>1. CASE Reply(c, "subscribe", t, TRUE)
        BY <4>1, GotoKeepsTopic DEF Reply
      <4>2. CASE /\ Goto(c, "subscribing")
                 /\ reply' = [reply EXCEPT ![c] = [op |-> "subscribe", topic |-> t, ok |-> FALSE]]
        BY <4>2 DEF Goto, ReplyNamesTopic
      <4>3. QED
        BY <3>4, <4>1, <4>2 DEF HandleSubscribe
    <3>5. ASSUME NEW t \in Topics, HandleUnsubscribe(c, t) PROVE ReplyNamesTopic'
      BY <3>5, GotoKeepsTopic DEF HandleUnsubscribe, Reply
    <3>6. QED
      BY <2>2, <3>1, <3>2, <3>3, <3>4, <3>5 DEF PeerStep, ReceivesMessage
  <2>3. ASSUME NEW c \in Conns, HandlerStep(c) PROVE ReplyNamesTopic'
    <3>1. CASE SubscribedUpstream(c) \/ UpstreamSubscribeFailed(c) \/ UnsubscribedUpstream(c)
      BY <3>1, GotoKeepsTopic
         DEF SubscribedUpstream, UpstreamSubscribeFailed, UnsubscribedUpstream, Reply
    <3>2. CASE ReplyFails(c) \/ Disconnected(c)
      BY <3>2, GotoKeepsTopic DEF ReplyFails, Disconnected, EnterFinally
    <3>3. CASE CleanUp(c) \/ CleanedUp(c)
      BY <3>3, GotoKeepsTopic DEF CleanUp, CleanedUp
    <3>4. CASE (\E t \in Topics : CleanUpTopic(c, t)) \/ ClientResumes(c)
      BY <2>1, <3>4 DEF CleanUpTopic, ClientResumes
    <3>5. QED
      BY <2>3, <3>1, <3>2, <3>3, <3>4 DEF HandlerStep
  <2>4. ASSUME NEW c \in Conns, PumpStep(c) PROVE ReplyNamesTopic'
    BY <2>1, <2>4 DEF PumpStep, PumpStarts, PumpGets, PumpSent, PumpFails, PumpCancelled, PumpGoto
  <2>5. CASE (\E t \in Topics : Dispatch(t)) \/ Upstream \/ UpstreamLost
    BY <2>1, <2>5 DEF Dispatch, Upstream, UpstreamLost, connVars
  <2>6. CASE UNCHANGED hubVars
    BY <2>1, <2>6 DEF hubVars, connVars
  <2>7. QED
    BY <2>2, <2>3, <2>4, <2>5, <2>6 DEF HubNext
<1>3. QED
  BY <1>1, <1>2, PTL DEF HubSpec

-----------------------------------------------------------------------------
LEMMA RegistryStepOrStutter ==
  ASSUME ReplyNamesTopic, [HubNext]_hubVars
  PROVE  [Registry!RegistryNext]_(Registry!registryVars)
<1>1. CASE UNCHANGED registryVars
  BY <1>1 DEF registryVars, Registry!registryVars
<1>2. ASSUME NEW c \in Conns, PeerStep(c)
      PROVE  [Registry!RegistryNext]_(Registry!registryVars)
  <2>1. CASE Accept(c)
    BY <2>1 DEF Accept, Registry!RegistryNext
  <2>2. CASE RejectedMessage(c) \/ MalformedFrame(c) \/ Replied(c) \/ LinkLost(c)
    BY <1>1, <2>2 DEF RejectedMessage, MalformedFrame, EnterFinally, Replied, LinkLost
  <2>3. CASE \E t \in Topics : HandleSubscribe(c, t) \/ HandleUnsubscribe(c, t)
    BY <2>3 DEF HandleSubscribe, HandleUnsubscribe, Registry!RegistryNext
  <2>4. QED
    BY <1>2, <2>1, <2>2, <2>3 DEF PeerStep, ReceivesMessage
<1>3. ASSUME NEW c \in Conns, HandlerStep(c)
      PROVE  [Registry!RegistryNext]_(Registry!registryVars)
  <2>1. CASE UpstreamSubscribeFailed(c)
    <3>1. reply[c].topic \in Topics /\ Registry!Unsubscribe(c, reply[c].topic)
      BY <2>1 DEF UpstreamSubscribeFailed, ReplyNamesTopic
    <3>2. QED
      BY <3>1 DEF Registry!RegistryNext
  <2>2. CASE CleanUp(c)
    BY <2>2 DEF CleanUp, Registry!RegistryNext
  <2>3. CASE SubscribedUpstream(c) \/ UnsubscribedUpstream(c)
    BY <1>1, <2>3 DEF SubscribedUpstream, UnsubscribedUpstream
  <2>4. CASE ReplyFails(c) \/ Disconnected(c)
    BY <1>1, <2>4 DEF ReplyFails, Disconnected, EnterFinally
  <2>5. CASE (\E t \in Topics : CleanUpTopic(c, t)) \/ CleanedUp(c) \/ ClientResumes(c)
    BY <1>1, <2>5 DEF CleanUpTopic, CleanedUp, ClientResumes
  <2>6. QED
    BY <1>3, <2>1, <2>2, <2>3, <2>4, <2>5 DEF HandlerStep
<1>4. ASSUME NEW c \in Conns, PumpStep(c)
      PROVE  [Registry!RegistryNext]_(Registry!registryVars)
  BY <1>1, <1>4 DEF PumpStep, PumpStarts, PumpGets, PumpSent, PumpFails, PumpCancelled, PumpGoto
<1>5. CASE (\E t \in Topics : Dispatch(t)) \/ Upstream \/ UpstreamLost
  BY <1>1, <1>5 DEF Dispatch, Upstream, UpstreamLost
<1>6. CASE UNCHANGED hubVars
  BY <1>1, <1>6 DEF hubVars
<1>7. QED
  BY <1>2, <1>3, <1>4, <1>5, <1>6 DEF HubNext

LEMMA BrokerStepOrStutter ==
  ASSUME ReplyNamesTopic, [HubNext]_hubVars
  PROVE  [Broker!BrokerNext]_(Broker!brokerVars)
<1>1. CASE UNCHANGED brokerVars
  BY <1>1 DEF brokerVars, Broker!brokerVars
<1>2. ASSUME NEW c \in Conns, PeerStep(c)
      PROVE  [Broker!BrokerNext]_(Broker!brokerVars)
  <2>1. CASE Accept(c) \/ RejectedMessage(c) \/ MalformedFrame(c) \/ Replied(c) \/ LinkLost(c)
    BY <1>1, <2>1
       DEF Accept, RejectedMessage, MalformedFrame, EnterFinally, Replied, LinkLost
  <2>2. CASE \E t \in Topics : HandleSubscribe(c, t) \/ HandleUnsubscribe(c, t)
    BY <2>2 DEF HandleSubscribe, HandleUnsubscribe, Broker!BrokerNext
  <2>3. QED
    BY <1>2, <2>1, <2>2 DEF PeerStep, ReceivesMessage
<1>3. ASSUME NEW c \in Conns, HandlerStep(c)
      PROVE  [Broker!BrokerNext]_(Broker!brokerVars)
  <2>1. CASE UpstreamSubscribeFailed(c)
    <3>1. reply[c].topic \in Topics /\ Broker!UnsubscribeConsumer(reply[c].topic, c)
      BY <2>1 DEF UpstreamSubscribeFailed, ReplyNamesTopic
    <3>2. QED
      BY <3>1 DEF Broker!BrokerNext
  <2>2. CASE CleanUp(c)
    BY <2>2 DEF CleanUp, Broker!BrokerNext
  <2>3. CASE SubscribedUpstream(c) \/ UnsubscribedUpstream(c)
    BY <1>1, <2>3 DEF SubscribedUpstream, UnsubscribedUpstream
  <2>4. CASE ReplyFails(c) \/ Disconnected(c)
    BY <1>1, <2>4 DEF ReplyFails, Disconnected, EnterFinally
  <2>5. CASE (\E t \in Topics : CleanUpTopic(c, t)) \/ CleanedUp(c) \/ ClientResumes(c)
    BY <1>1, <2>5 DEF CleanUpTopic, CleanedUp, ClientResumes
  <2>6. QED
    BY <1>3, <2>1, <2>2, <2>3, <2>4, <2>5 DEF HandlerStep
<1>4. ASSUME NEW c \in Conns, PumpStep(c)
      PROVE  [Broker!BrokerNext]_(Broker!brokerVars)
  <2>1. CASE PumpGets(c)
    BY <2>1 DEF PumpGets, Broker!BrokerNext
  <2>2. CASE PumpStarts(c) \/ PumpSent(c) \/ PumpFails(c) \/ PumpCancelled(c)
    BY <1>1, <2>2 DEF PumpStarts, PumpSent, PumpFails, PumpCancelled
  <2>3. QED
    BY <1>4, <2>1, <2>2 DEF PumpStep
<1>5. CASE \E t \in Topics : Dispatch(t)
  BY <1>5 DEF Dispatch, Broker!BrokerNext
<1>6. CASE Upstream \/ UpstreamLost
  BY <1>1, <1>6 DEF Upstream, UpstreamLost
<1>7. CASE UNCHANGED hubVars
  BY <1>1, <1>7 DEF hubVars
<1>8. QED
  BY <1>2, <1>3, <1>4, <1>5, <1>6, <1>7 DEF HubNext

LEMMA ClientStepOrStutter ==
  ASSUME [HubNext]_hubVars
  PROVE  [Client!ClientNext]_(Client!clientVars)
<1>1. CASE UNCHANGED clientVars
  BY <1>1 DEF clientVars, Client!clientVars
<1>2. ASSUME NEW c \in Conns, PeerStep(c)
      PROVE  [Client!ClientNext]_(Client!clientVars)
  <2>1. CASE Accept(c) \/ RejectedMessage(c) \/ MalformedFrame(c) \/ Replied(c) \/ LinkLost(c)
    BY <1>1, <2>1
       DEF Accept, RejectedMessage, MalformedFrame, EnterFinally, Replied, LinkLost
  <2>2. CASE \E t \in Topics : HandleSubscribe(c, t) \/ HandleUnsubscribe(c, t)
    BY <1>1, <2>2 DEF HandleSubscribe, HandleUnsubscribe, Client!ClientNext
  <2>3. QED
    BY <1>2, <2>1, <2>2 DEF PeerStep, ReceivesMessage
<1>3. ASSUME NEW c \in Conns, HandlerStep(c)
      PROVE  [Client!ClientNext]_(Client!clientVars)
  <2>1. CASE \E t \in Topics : CleanUpTopic(c, t)
    BY <2>1 DEF CleanUpTopic, Client!ClientNext
  <2>2. CASE ClientResumes(c)
    BY <2>2 DEF ClientResumes, Client!ClientNext
  <2>3. CASE SubscribedUpstream(c) \/ UpstreamSubscribeFailed(c) \/ UnsubscribedUpstream(c)
    BY <1>1, <2>3 DEF SubscribedUpstream, UpstreamSubscribeFailed, UnsubscribedUpstream
  <2>4. CASE ReplyFails(c) \/ Disconnected(c)
    BY <1>1, <2>4 DEF ReplyFails, Disconnected, EnterFinally
  <2>5. CASE CleanUp(c) \/ CleanedUp(c)
    BY <1>1, <2>5 DEF CleanUp, CleanedUp
  <2>6. QED
    BY <1>3, <2>1, <2>2, <2>3, <2>4, <2>5 DEF HandlerStep
<1>4. ASSUME NEW c \in Conns, PumpStep(c)
      PROVE  [Client!ClientNext]_(Client!clientVars)
  BY <1>1, <1>4 DEF PumpStep, PumpStarts, PumpGets, PumpSent, PumpFails, PumpCancelled, PumpGoto
<1>5. CASE \E t \in Topics : Dispatch(t)
  BY <1>1, <1>5 DEF Dispatch
<1>6. CASE Upstream \/ UpstreamLost
  BY <1>6 DEF Upstream, UpstreamLost, Client!ClientNext
<1>7. CASE UNCHANGED hubVars
  BY <1>1, <1>7 DEF hubVars
<1>8. QED
  BY <1>2, <1>3, <1>4, <1>5, <1>6, <1>7 DEF HubNext

\* Through main.py each component only ever does what it does alone, for any
\* number of connections and topics, with rollbacks and disconnects.
THEOREM HubImplementsComponents == HubSpec => ImplementsComponents
<1>1. HubInit => Registry!RegistryInit /\ Broker!BrokerInit /\ Client!ClientInit
  BY DEF HubInit
<1>2. ReplyNamesTopic /\ [HubNext]_hubVars =>
        /\ [Registry!RegistryNext]_(Registry!registryVars)
        /\ [Broker!BrokerNext]_(Broker!brokerVars)
        /\ [Client!ClientNext]_(Client!clientVars)
  BY RegistryStepOrStutter, BrokerStepOrStutter, ClientStepOrStutter
<1>3. QED
  BY <1>1, <1>2, ReplyNamesTopicHolds, PTL
     DEF HubSpec, ImplementsComponents, Registry!RegistrySpec, Broker!BrokerSpec,
         Client!ClientSpec

-----------------------------------------------------------------------------
\* What a call to the registry does to the pairs of consumer and topic.
Wants(c, t) == c \in DOMAIN consumers /\ t \in consumers[c]

LEMMA SubscribePairs ==
  ASSUME NEW c \in Conns, NEW t \in Topics,
         Registry!Subscribe(c, t), Broker!SubscribeConsumer(t, c)
  PROVE  /\ \A d \in Conns, u \in Topics :
              Wants(d, u)' <=> (Wants(d, u) \/ (d = c /\ u = t))
         /\ \A d \in Conns, u \in Topics :
              (d \in Broker!Subscribers(u)')
                <=> (d \in Broker!Subscribers(u) \/ (d = c /\ u = t))
<1>1. \A d \in Conns, u \in Topics :
        Wants(d, u)' <=> (Wants(d, u) \/ (d = c /\ u = t))
  BY DEF Wants, Registry!Subscribe, Registry!WithEntry, Registry!registryVars
<1>2. \A u \in Topics :
        Broker!Subscribers(u)' = Broker!Subscribers(u) \cup (IF u = t THEN {c} ELSE {})
  BY DEF Broker!SubscribeConsumer, Broker!Buckets, Broker!Subscribers
<1>3. QED
  BY <1>1, <1>2

LEMMA UnsubscribePairs ==
  ASSUME NEW c \in Conns, NEW t \in Topics,
         Registry!Unsubscribe(c, t), Broker!UnsubscribeConsumer(t, c)
  PROVE  /\ \A d \in Conns, u \in Topics :
              Wants(d, u)' <=> (Wants(d, u) /\ ~(d = c /\ u = t))
         /\ \A d \in Conns, u \in Topics :
              (d \in Broker!Subscribers(u)')
                <=> (d \in Broker!Subscribers(u) /\ ~(d = c /\ u = t))
<1>1. \A d \in Conns, u \in Topics :
        Wants(d, u)' <=> (Wants(d, u) /\ ~(d = c /\ u = t))
  BY DEF Wants, Registry!Unsubscribe, Registry!WithEntry, Registry!registryVars
<1>2. \A u \in Topics :
        Broker!Subscribers(u)' = Broker!Subscribers(u) \ (IF u = t THEN {c} ELSE {})
  BY DEF Broker!UnsubscribeConsumer, Broker!Buckets, Broker!Subscribers
<1>3. QED
  BY <1>1, <1>2

LEMMA RemovePairs ==
  ASSUME NEW c \in Conns, Registry!UnregisterConsumer(c), Broker!RemoveConsumer(c)
  PROVE  /\ \A d \in Conns, u \in Topics : Wants(d, u)' <=> (Wants(d, u) /\ d # c)
         /\ \A d \in Conns, u \in Topics :
              (d \in Broker!Subscribers(u)') <=> (d \in Broker!Subscribers(u) /\ d # c)
<1>1. \A d \in Conns, u \in Topics : Wants(d, u)' <=> (Wants(d, u) /\ d # c)
  BY DEF Wants, Registry!UnregisterConsumer, Registry!WithoutKeys, Registry!registryVars
<1>2. \A u \in Topics : Broker!Subscribers(u)' = Broker!Subscribers(u) \ {c}
  BY DEF Broker!RemoveConsumer, Broker!Buckets, Broker!Subscribers
<1>3. QED
  BY <1>1, <1>2

\* After rollbacks, disconnects and any interleaving of connections, the registry
\* says that a consumer wants a topic exactly if the broker delivers it.
THEOREM RegistryBrokerAlwaysAgree == HubSpec => []RegistryBrokerAgree
<1>1. HubInit => RegistryBrokerAgree
  BY DEF HubInit, Registry!RegistryInit, Broker!BrokerInit, Broker!Subscribers,
         RegistryBrokerAgree
<1>2. ReplyNamesTopic /\ RegistryBrokerAgree /\ [HubNext]_hubVars => RegistryBrokerAgree'
  <2> SUFFICES ASSUME ReplyNamesTopic, RegistryBrokerAgree, [HubNext]_hubVars
               PROVE  RegistryBrokerAgree'
    OBVIOUS
  <2> USE DEF RegistryBrokerAgree
  <2>1. CASE UNCHANGED <<consumers, topic_subscribers>>
    BY <2>1 DEF Broker!Subscribers
  <2>2. ASSUME NEW c \in Conns, PeerStep(c) PROVE RegistryBrokerAgree'
    <3>1. CASE Accept(c)
      BY <3>1 DEF Accept, Registry!RegisterConsumer, Registry!WithEntry,
                  Broker!Subscribers, brokerVars
    <3>2. CASE RejectedMessage(c) \/ MalformedFrame(c) \/ Replied(c) \/ LinkLost(c)
      BY <2>1, <3>2 DEF RejectedMessage, MalformedFrame, EnterFinally, Replied, LinkLost,
                        registryVars, brokerVars
    <3>3. ASSUME NEW t \in Topics, HandleSubscribe(c, t) PROVE RegistryBrokerAgree'
      <4>1. Registry!Subscribe(c, t) /\ Broker!SubscribeConsumer(t, c)
        BY <3>3 DEF HandleSubscribe
      <4>2. QED
        BY <4>1, SubscribePairs DEF Wants
    <3>4. ASSUME NEW t \in Topics, HandleUnsubscribe(c, t) PROVE RegistryBrokerAgree'
      <4>1. Registry!Unsubscribe(c, t) /\ Broker!UnsubscribeConsumer(t, c)
        BY <3>4 DEF HandleUnsubscribe
      <4>2. QED
        BY <4>1, UnsubscribePairs DEF Wants
    <3>5. QED
      BY <2>2, <3>1, <3>2, <3>3, <3>4 DEF PeerStep, ReceivesMessage
  <2>3. ASSUME NEW c \in Conns, HandlerStep(c) PROVE RegistryBrokerAgree'
    <3>1. CASE UpstreamSubscribeFailed(c)
      <4>1. PICK t \in Topics :
              Registry!Unsubscribe(c, t) /\ Broker!UnsubscribeConsumer(t, c)
        BY <3>1 DEF UpstreamSubscribeFailed, ReplyNamesTopic
      <4>2. QED
        BY <4>1, UnsubscribePairs DEF Wants
    <3>2. CASE CleanUp(c)
      <4>1. Registry!UnregisterConsumer(c) /\ Broker!RemoveConsumer(c)
        BY <3>2 DEF CleanUp
      <4>2. QED
        BY <4>1, RemovePairs DEF Wants
    <3>3. CASE SubscribedUpstream(c) \/ UnsubscribedUpstream(c)
      BY <2>1, <3>3 DEF SubscribedUpstream, UnsubscribedUpstream, registryVars, brokerVars
    <3>4. CASE ReplyFails(c) \/ Disconnected(c)
      BY <2>1, <3>4 DEF ReplyFails, Disconnected, EnterFinally, registryVars, brokerVars
    <3>5. CASE (\E t \in Topics : CleanUpTopic(c, t)) \/ CleanedUp(c) \/ ClientResumes(c)
      BY <2>1, <3>5 DEF CleanUpTopic, CleanedUp, ClientResumes, registryVars, brokerVars
    <3>6. QED
      BY <2>3, <3>1, <3>2, <3>3, <3>4, <3>5 DEF HandlerStep
  <2>4. ASSUME NEW c \in Conns, PumpStep(c) PROVE RegistryBrokerAgree'
    BY <2>1, <2>4 DEF PumpStep, PumpStarts, PumpGets, PumpSent, PumpFails, PumpCancelled, PumpGoto,
                      Broker!GetMessage, registryVars, brokerVars
  <2>5. CASE (\E t \in Topics : Dispatch(t)) \/ Upstream \/ UpstreamLost
    BY <2>1, <2>5 DEF Dispatch, Broker!Publish, Upstream, UpstreamLost,
                      registryVars, brokerVars
  <2>6. CASE UNCHANGED hubVars
    BY <2>1, <2>6 DEF hubVars, registryVars, brokerVars
  <2>7. QED
    BY <2>2, <2>3, <2>4, <2>5, <2>6 DEF HubNext
<1>3. QED
  BY <1>1, <1>2, ReplyNamesTopicHolds, PTL DEF HubSpec

-----------------------------------------------------------------------------
\* The proofs about the components, with the hub's connections as consumers.
RegistryProofs == INSTANCE ConnectionRegistryProofs WITH Consumers <- Conns
BrokerProofs == INSTANCE PubSubBrokerProofs WITH Consumers <- Conns, Messages <- Topics
ClientProofs ==
  INSTANCE CoinbaseClientProofs WITH Callers <- Conns, FatalFrames <- FALSE

\* Two instances of a module have its definitions under two names: the steps
\* that go from one to the other unfold both.

\* The registry's invariant, inside the hub.
LEMMA HubRegistryInvariant == HubSpec => []RegistryProofs!RegistryInv
<1>1. RegistryProofs!IsFiniteSet(Conns)
  BY HubConstants DEF IsFiniteSet, RegistryProofs!IsFiniteSet
<1>2. RegistryProofs!RegistrySpec => []RegistryProofs!RegistryInv
  BY <1>1, RegistryProofs!RegistryInvariant, PTL
<1>3. Registry!RegistryInit => RegistryProofs!RegistryInit
  BY DEF Registry!RegistryInit, RegistryProofs!RegistryInit
<1>4. [Registry!RegistryNext]_(Registry!registryVars)
        => [RegistryProofs!RegistryNext]_(RegistryProofs!registryVars)
  BY DEF Registry!RegistryNext, RegistryProofs!RegistryNext,
         Registry!registryVars, RegistryProofs!registryVars,
         Registry!RegisterConsumer, RegistryProofs!RegisterConsumer,
         Registry!UnregisterConsumer, RegistryProofs!UnregisterConsumer,
         Registry!Subscribe, RegistryProofs!Subscribe,
         Registry!Unsubscribe, RegistryProofs!Unsubscribe,
         Registry!WithEntry, RegistryProofs!WithEntry,
         Registry!WithoutKeys, RegistryProofs!WithoutKeys,
         Registry!TopicRefcount, RegistryProofs!TopicRefcount,
         Registry!IncrementTopicRefcount, RegistryProofs!IncrementTopicRefcount,
         Registry!DecrementTopicRefcounts, RegistryProofs!DecrementTopicRefcounts
<1>5. QED
  BY <1>2, <1>3, <1>4, HubImplementsComponents, PTL
     DEF ImplementsComponents, Registry!RegistrySpec, RegistryProofs!RegistrySpec

\* The counts on which the handlers decide who is the first and who the last
\* to want a topic are exact inside the hub.
THEOREM HubCountsExact == HubSpec => []Registry!RefcountsExact
<1>1. RegistryProofs!RegistryInv => Registry!RefcountsExact
  BY DEF RegistryProofs!RegistryInv,
         Registry!RefcountsExact, RegistryProofs!RefcountsExact,
         Registry!TopicRefcount, RegistryProofs!TopicRefcount,
         Registry!Holders, RegistryProofs!Holders,
         Registry!Cardinality, RegistryProofs!Cardinality,
         Registry!IsFiniteSet, RegistryProofs!IsFiniteSet
<1>2. QED
  BY <1>1, HubRegistryInvariant, PTL

\* The broker's invariant, inside the hub.
LEMMA HubBrokerInvariant == HubSpec => []BrokerProofs!BrokerInv
<1>1. QueueSize \in Nat \ {0}
  BY HubConstants
<1>2. BrokerProofs!BrokerSpec => []BrokerProofs!BrokerInv
  BY <1>1, BrokerProofs!BrokerInvariant, PTL
<1>3. Broker!BrokerInit => BrokerProofs!BrokerInit
  BY DEF Broker!BrokerInit, BrokerProofs!BrokerInit
<1>4. [Broker!BrokerNext]_(Broker!brokerVars)
        => [BrokerProofs!BrokerNext]_(BrokerProofs!brokerVars)
  BY DEF Broker!BrokerNext, BrokerProofs!BrokerNext,
         Broker!brokerVars, BrokerProofs!brokerVars,
         Broker!SubscribeConsumer, BrokerProofs!SubscribeConsumer,
         Broker!UnsubscribeConsumer, BrokerProofs!UnsubscribeConsumer,
         Broker!RemoveConsumer, BrokerProofs!RemoveConsumer,
         Broker!Publish, BrokerProofs!Publish,
         Broker!GetMessage, BrokerProofs!GetMessage,
         Broker!Subscribers, BrokerProofs!Subscribers,
         Broker!Buckets, BrokerProofs!Buckets,
         Broker!Receivers, BrokerProofs!Receivers,
         Broker!EnqueueDropOldest, BrokerProofs!EnqueueDropOldest
<1>5. QED
  BY <1>2, <1>3, <1>4, HubImplementsComponents, PTL
     DEF ImplementsComponents, Broker!BrokerSpec, BrokerProofs!BrokerSpec

\* Inside the hub no backlog exceeds settings.queue_size, whatever the exchange
\* sends and however slow the peers are.
THEOREM HubQueuesBounded == HubSpec => []Broker!Bounded
<1>1. BrokerProofs!BrokerInv => Broker!Bounded
  BY DEF BrokerProofs!BrokerInv, Broker!Bounded, BrokerProofs!Bounded
<1>2. QED
  BY <1>1, HubBrokerInvariant, PTL

\* The client's steps inside the hub, and what the constants have to be.
LEMMA HubRunsClient ==
  /\ HubSpec => ClientProofs!ClientSpec
  /\ Runner \notin Conns /\ Stopper \notin Conns /\ Runner # Stopper
  /\ Faulty \subseteq Conns /\ FALSE \in BOOLEAN /\ MaxDrops \in Nat
<1>1. /\ Runner \notin Conns /\ Stopper \notin Conns /\ Runner # Stopper
      /\ Faulty \subseteq Conns /\ FALSE \in BOOLEAN /\ MaxDrops \in Nat
  BY HubConstants
<1>2. Client!ClientInit => ClientProofs!ClientInit
  BY DEF Client!ClientInit, ClientProofs!ClientInit
<1>3. [Client!ClientNext]_(Client!clientVars)
        => [ClientProofs!ClientNext]_(ClientProofs!clientVars)
  BY ZenonT(60) DEF Client!ClientNext, ClientProofs!ClientNext,
         Client!clientVars, ClientProofs!clientVars,
         Client!callVars, ClientProofs!callVars,
         Client!stopVars, ClientProofs!stopVars,
         Client!Frame, ClientProofs!Frame,
         Client!NoFrame, ClientProofs!NoFrame,
         Client!Entry, ClientProofs!Entry,
         Client!Applied, ClientProofs!Applied,
         Client!WsIsOpen, ClientProofs!WsIsOpen,
         Client!Granted, ClientProofs!Granted,
         Client!FirstFrame, ClientProofs!FirstFrame,
         Client!Sent, ClientProofs!Sent,
         Client!Skipped, ClientProofs!Skipped,
         Client!Suspended, ClientProofs!Suspended,
         Client!Returns, ClientProofs!Returns,
         Client!CallerSend, ClientProofs!CallerSend,
         Client!SendJson, ClientProofs!SendJson,
         Client!SubscribeTopic, ClientProofs!SubscribeTopic,
         Client!UnsubscribeTopic, ClientProofs!UnsubscribeTopic,
         Client!CallerLocked, ClientProofs!CallerLocked,
         Client!CallerSent, ClientProofs!CallerSent,
         Client!AfterFinally, ClientProofs!AfterFinally,
         Client!ClearWs, ClientProofs!ClearWs,
         Client!EnterFinally, ClientProofs!EnterFinally,
         Client!RunnerSend, ClientProofs!RunnerSend,
         Client!SetWsAndSubscribe, ClientProofs!SetWsAndSubscribe,
         Client!Running, ClientProofs!Running,
         Client!Connected, ClientProofs!Connected,
         Client!ConnectFailed, ClientProofs!ConnectFailed,
         Client!WsLocked, ClientProofs!WsLocked,
         Client!SubscribeAllLocked, ClientProofs!SubscribeAllLocked,
         Client!SubscribeAllSent, ClientProofs!SubscribeAllSent,
         Client!ReceiveEnds, ClientProofs!ReceiveEnds,
         Client!ReceiveFatal, ClientProofs!ReceiveFatal,
         Client!ClearLocked, ClientProofs!ClearLocked,
         Client!SocketClosed, ClientProofs!SocketClosed,
         Client!BackoffOver, ClientProofs!BackoffOver,
         Client!RunnerCancelled, ClientProofs!RunnerCancelled,
         Client!RunnerStep, ClientProofs!RunnerStep,
         Client!Stop, ClientProofs!Stop,
         Client!CloseWs, ClientProofs!CloseWs,
         Client!StopJoined, ClientProofs!StopJoined,
         Client!StopLocked, ClientProofs!StopLocked,
         Client!StopClosed, ClientProofs!StopClosed,
         Client!StopStep, ClientProofs!StopStep,
         Client!ConnectionLost, ClientProofs!ConnectionLost,
         Client!CallerStep, ClientProofs!CallerStep,
         Client!RemoveFirstMatch, ClientProofs!RemoveFirstMatch,
         Client!RemoveAt, ClientProofs!RemoveAt,
         Client!SelectInSeq, ClientProofs!SelectInSeq,
         Client!Min, ClientProofs!Min
<1>4. QED
  BY <1>1, <1>2, <1>3, HubImplementsComponents, PTL
     DEF ImplementsComponents, Client!ClientSpec, ClientProofs!ClientSpec

\* While the hub serves, no open upstream socket is without a task that is
\* going to close it.
THEOREM HubOrphansNoSocket == HubSpec => []Client!NoOrphanSocket
<1>1. ClientProofs!ClientSpec => []ClientProofs!NoOrphanSocket
  BY HubRunsClient, ClientProofs!NoSocketOrphaned, PTL
<1>2. ClientProofs!NoOrphanSocket => Client!NoOrphanSocket
  BY DEF Client!NoOrphanSocket, ClientProofs!NoOrphanSocket
<1>3. QED
  BY <1>1, <1>2, HubRunsClient, PTL

\* The send lock inside the hub: a handler has a place in its queue exactly as
\* long as it waits in a call, and the runner while it waits.
THEOREM HubLockServesWaiters == HubSpec => []Client!LockServesWaiters
<1>1. ClientProofs!ClientSpec => []ClientProofs!LockServesWaiters
  BY HubRunsClient, ClientProofs!LockAlwaysServesWaiters, PTL
<1>2. ClientProofs!LockServesWaiters => Client!LockServesWaiters
  BY DEF Client!LockServesWaiters, ClientProofs!LockServesWaiters,
         Client!Waiters, ClientProofs!Waiters, Client!Senders, ClientProofs!Senders
<1>3. QED
  BY <1>1, <1>2, HubRunsClient, PTL

LEMMA HubClientTyped == HubSpec => []Client!ClientTypeOK
<1>1. ClientProofs!ClientSpec => []ClientProofs!ClientTypeOK
  BY HubRunsClient, ClientProofs!ClientAlwaysTyped, PTL
<1>2. ClientProofs!ClientTypeOK => Client!ClientTypeOK
  BY DEF Client!ClientTypeOK, ClientProofs!ClientTypeOK
<1>3. QED
  BY <1>1, <1>2, HubRunsClient, PTL

-----------------------------------------------------------------------------
\* The places where a handler may be suspended inside the upstream client.
InClient == {"subscribing", "unsubscribing", "cleaning"}
Settled(c) == call[c] \in {"returned", "raised"}

\* A call under way has its handler inside the client, and a handler that runs
\* on has none.
CallsAreAwaited ==
  /\ DOMAIN call = Conns
  /\ \A c \in Conns : handler[c] \notin InClient \/ running = c => Settled(c)

\* A handler awaits only a pump that it has cancelled or that has ended, and the
\* pump is over before the cleanup deletes its queue.
PumpEndsFirst ==
  /\ DOMAIN handler = Conns /\ DOMAIN pump = Conns
  /\ \A c \in Conns : handler[c] = "joining" => pump[c] \in {"cancelled", "ended"}
  /\ \A c \in Conns : handler[c] \in {"gone", "cleaning"} => pump[c] = "ended"

\* From its cleanup on, a connection is in neither table.
CleanedTables ==
  \A c \in Conns : handler[c] \in {"gone", "cleaning"} =>
    c \notin DOMAIN consumers /\ c \notin DOMAIN queues

\* Only a cleanup has topics to give back.
CleanupGivesBack ==
  /\ DOMAIN zeroed = Conns
  /\ \A c \in Conns : zeroed[c] # {} => handler[c] = "cleaning"

TaskInv ==
  CallsAreAwaited /\ PumpEndsFirst /\ PumpHasQueue /\ CleanedTables /\ CleanupGivesBack

\* What the invariant depends on.
taskVars == <<call, handler, running, pump, zeroed, consumers, queues>>

LEMMA TaskInvStutters ==
  ASSUME TaskInv, UNCHANGED taskVars
  PROVE  TaskInv'
BY DEF taskVars, TaskInv, CallsAreAwaited, Settled, PumpEndsFirst, PumpHasQueue,
       CleanedTables, CleanupGivesBack

\* A call to the client concerns the caller's own state only.
LEMMA CallEffect ==
  ASSUME DOMAIN call = Conns, NEW c \in Conns,
         \/ \E t \in Topics : Client!SubscribeTopic(c, t) \/ Client!UnsubscribeTopic(c, t)
         \/ Client!CallerStep(c)
  PROVE  DOMAIN call' = Conns /\ \A d \in Conns \ {c} : call'[d] = call[d]
<1>1. \E how : call' = [call EXCEPT ![c] = how]
  BY DEF Client!SubscribeTopic, Client!UnsubscribeTopic, Client!SendJson, Client!CallerStep,
         Client!CallerLocked, Client!CallerSent, Client!CallerSend, Client!Returns
<1>2. QED
  BY <1>1

\* The upstream tasks leave the calls alone.
LEMMA UpstreamKeepsCalls ==
  ASSUME Client!RunnerStep \/ Client!ConnectionLost
  PROVE  UNCHANGED <<topics, call>>
BY DEF Client!RunnerStep, Client!ConnectionLost, Client!Connected, Client!ConnectFailed,
       Client!WsLocked, Client!SubscribeAllLocked, Client!SubscribeAllSent,
       Client!ReceiveEnds, Client!ReceiveFatal, Client!ClearLocked, Client!SocketClosed,
       Client!BackoffOver, Client!RunnerCancelled, Client!callVars

\* The handler of c, outside the client before and after, changes nothing else
\* that matters here.
LEMMA HandlerMoves ==
  ASSUME TaskInv, NEW c \in Conns, NEW pc \in {"reading", "replying"}, Goto(c, pc),
         handler[c] \notin {"gone", "joining", "cleaning"},
         handler[c] \in InClient => Settled(c),
         running' \in {Nobody, running},
         UNCHANGED <<call, pump, zeroed, consumers, queues>>
  PROVE  TaskInv'
<1> USE DEF TaskInv
<1>1. \A d \in Conns : handler'[d] = IF d = c THEN pc ELSE handler[d]
  BY DEF Goto, PumpEndsFirst
<1>2. CallsAreAwaited'
  BY <1>1, HubConstants DEF CallsAreAwaited, Settled, InClient
<1>3. PumpEndsFirst' /\ PumpHasQueue'
  BY <1>1 DEF PumpEndsFirst, PumpHasQueue, Goto
<1>4. CleanedTables' /\ CleanupGivesBack'
  BY <1>1 DEF CleanedTables, CleanupGivesBack
<1>5. QED
  BY <1>2, <1>3, <1>4

\* The finally block awaits a pump that is cancelled or over, or does not get
\* that far; a handler that runs on is in no call.
LEMMA EnterFinallyKeepsTaskInv ==
  ASSUME TaskInv, NEW c \in Conns, EnterFinally(c),
         running = Nobody, handler[c] \in {"reading", "replying"}
  PROVE  TaskInv'
<1> USE DEF TaskInv
<1>1. /\ UNCHANGED <<call, zeroed, consumers, queues>> /\ running' \in {Nobody, c}
      /\ DOMAIN pump' = Conns /\ \A d \in Conns \ {c} : pump'[d] = pump[d]
  BY DEF EnterFinally, registryVars, brokerVars, clientVars, PumpEndsFirst
<1>2. \/ Goto(c, "crashed") /\ pump' = pump
      \/ Goto(c, "joining") /\ pump'[c] \in {"cancelled", "ended"}
  BY DEF EnterFinally, PumpEndsFirst
<1>3. PICK pc \in {"crashed", "joining"} :
        /\ Goto(c, pc)
        /\ pc = "crashed" => pump' = pump
        /\ pc = "joining" => pump'[c] \in {"cancelled", "ended"}
  BY <1>2
<1>4. /\ DOMAIN handler' = Conns
      /\ \A d \in Conns : handler'[d] = IF d = c THEN pc ELSE handler[d]
  BY <1>3 DEF Goto, PumpEndsFirst
<1>5. CallsAreAwaited'
  BY <1>1, <1>4, HubConstants DEF CallsAreAwaited, Settled, InClient
<1>6. PumpEndsFirst' /\ PumpHasQueue'
  BY <1>1, <1>3, <1>4 DEF PumpEndsFirst, PumpHasQueue
<1>7. CleanedTables' /\ CleanupGivesBack'
  BY <1>1, <1>4 DEF CleanedTables, CleanupGivesBack
<1>8. QED
  BY <1>5, <1>6, <1>7

LEMMA SubscribeKeepsTaskInv ==
  ASSUME TaskInv, NEW c \in Conns, NEW t \in Topics,
         HandleSubscribe(c, t) \/ HandleUnsubscribe(c, t)
  PROVE  TaskInv'
<1> USE DEF TaskInv
<1>1. /\ DOMAIN consumers' \subseteq DOMAIN consumers
      /\ DOMAIN queues \subseteq DOMAIN queues' /\ DOMAIN queues' \subseteq DOMAIN queues \cup {c}
      /\ pump' = pump /\ zeroed' = zeroed
      /\ running = Nobody /\ handler[c] = "reading"
  BY DEF HandleSubscribe, HandleUnsubscribe, Registry!Subscribe, Registry!Unsubscribe,
         Registry!WithEntry, Registry!registryVars, Broker!SubscribeConsumer,
         Broker!UnsubscribeConsumer, TakesMessage, Suspended
<1>2. /\ DOMAIN call' = Conns /\ \A d \in Conns \ {c} : call'[d] = call[d]
      /\ running' \in {Nobody, c} /\ (running' = c => Settled(c)')
      /\ \E pc \in {"subscribing", "unsubscribing", "replying"} :
           Goto(c, pc) /\ (pc = "replying" => call' = call)
  <2>1. CASE \/ Client!SubscribeTopic(c, t) /\ Goto(c, "subscribing") /\ RunsOnIfReturned(c)
             \/ Client!UnsubscribeTopic(c, t) /\ Goto(c, "unsubscribing") /\ RunsOnIfReturned(c)
    BY <2>1, CallEffect, HubConstants DEF RunsOnIfReturned, Settled, CallsAreAwaited
  <2>2. CASE (\E op, ok : Reply(c, op, t, ok)) /\ UNCHANGED clientVars
    BY <2>2, HubConstants DEF Reply, clientVars, CallsAreAwaited, Settled
  <2>3. QED
    BY <2>1, <2>2 DEF HandleSubscribe, HandleUnsubscribe
<1>3. PICK pc \in {"subscribing", "unsubscribing", "replying"} :
        Goto(c, pc) /\ (pc = "replying" => call' = call)
  BY <1>2
<1>4. /\ DOMAIN handler' = Conns
      /\ \A d \in Conns : handler'[d] = IF d = c THEN pc ELSE handler[d]
  BY <1>3 DEF Goto, PumpEndsFirst
<1>5. CallsAreAwaited'
  BY <1>1, <1>2, <1>3, <1>4, HubConstants DEF CallsAreAwaited, Settled, InClient
<1>6. PumpEndsFirst' /\ PumpHasQueue' /\ CleanedTables' /\ CleanupGivesBack'
  BY <1>1, <1>4 DEF PumpEndsFirst, PumpHasQueue, CleanedTables, CleanupGivesBack
<1>7. QED
  BY <1>5, <1>6

LEMMA AcceptKeepsTaskInv ==
  ASSUME TaskInv, NEW c \in Conns, Accept(c)
  PROVE  TaskInv'
<1> USE DEF TaskInv
<1>1. /\ handler[c] = "gone" /\ Goto(c, "reading") /\ pump' = [pump EXCEPT ![c] = "waiting"]
      /\ DOMAIN consumers' = DOMAIN consumers \cup {c}
      /\ queues' = queues /\ call' = call /\ zeroed' = zeroed /\ running' = running
      /\ running = Nobody
  BY DEF Accept, Suspended, Registry!RegisterConsumer, Registry!WithEntry, brokerVars, clientVars
<1>2. /\ DOMAIN handler' = Conns
      /\ \A d \in Conns : handler'[d] = IF d = c THEN "reading" ELSE handler[d]
      /\ DOMAIN pump' = Conns
      /\ \A d \in Conns : pump'[d] = IF d = c THEN "waiting" ELSE pump[d]
  BY <1>1 DEF Goto, PumpEndsFirst
<1>3. CallsAreAwaited'
  BY <1>1, <1>2, HubConstants DEF CallsAreAwaited, Settled, InClient
<1>4. PumpEndsFirst' /\ PumpHasQueue' /\ CleanedTables' /\ CleanupGivesBack'
  BY <1>1, <1>2 DEF PumpEndsFirst, PumpHasQueue, CleanedTables, CleanupGivesBack
<1>5. QED
  BY <1>3, <1>4

LEMMA CleanUpKeepsTaskInv ==
  ASSUME TaskInv, NEW c \in Conns, CleanUp(c)
  PROVE  TaskInv'
<1> USE DEF TaskInv
<1>1. /\ handler[c] = "joining" /\ pump[c] = "ended" /\ Goto(c, "cleaning")
      /\ running \in {Nobody, c} /\ running' = c
      /\ DOMAIN consumers' = DOMAIN consumers \ {c} /\ DOMAIN queues' = DOMAIN queues \ {c}
      /\ call' = call /\ pump' = pump
      /\ \E S : zeroed' = [zeroed EXCEPT ![c] = S]
  BY DEF CleanUp, Joined, Registry!UnregisterConsumer, Registry!WithoutKeys,
         Registry!registryVars, Broker!RemoveConsumer, clientVars
<1>2. /\ DOMAIN handler' = Conns
      /\ \A d \in Conns : handler'[d] = IF d = c THEN "cleaning" ELSE handler[d]
      /\ DOMAIN zeroed' = Conns /\ \A d \in Conns \ {c} : zeroed'[d] = zeroed[d]
  BY <1>1 DEF Goto, PumpEndsFirst, CleanupGivesBack
<1>3. CallsAreAwaited'
  BY <1>1, <1>2, HubConstants DEF CallsAreAwaited, Settled, InClient
<1>4. PumpEndsFirst' /\ PumpHasQueue' /\ CleanedTables' /\ CleanupGivesBack'
  BY <1>1, <1>2 DEF PumpEndsFirst, PumpHasQueue, CleanedTables, CleanupGivesBack
<1>5. QED
  BY <1>3, <1>4

\* The rest of the cleanup: the topics are given back one by one.
LEMMA CleaningKeepsTaskInv ==
  ASSUME TaskInv, NEW c \in Conns,
         (\E t \in Topics : CleanUpTopic(c, t)) \/ CleanedUp(c) \/ ClientResumes(c)
  PROVE  TaskInv'
<1> USE DEF TaskInv
<1>1. CASE CleanedUp(c)
  <2>1. /\ handler[c] = "cleaning" /\ Goto(c, "gone") /\ running = c /\ running' = Nobody
        /\ zeroed[c] = {}
        /\ UNCHANGED <<consumers, queues, call, pump, zeroed>>
    BY <1>1 DEF CleanedUp, registryVars, brokerVars, clientVars
  <2>2. /\ DOMAIN handler' = Conns
        /\ \A d \in Conns : handler'[d] = IF d = c THEN "gone" ELSE handler[d]
    BY <2>1 DEF Goto, PumpEndsFirst
  <2>3. CallsAreAwaited'
    BY <2>1, <2>2, HubConstants DEF CallsAreAwaited, Settled, InClient
  <2>4. PumpEndsFirst' /\ PumpHasQueue' /\ CleanedTables' /\ CleanupGivesBack'
    BY <2>1, <2>2 DEF PumpEndsFirst, PumpHasQueue, CleanedTables, CleanupGivesBack
  <2>5. QED
    BY <2>3, <2>4
<1>2. CASE (\E t \in Topics : CleanUpTopic(c, t)) \/ ClientResumes(c)
  <2>1. /\ DOMAIN call' = Conns /\ \A d \in Conns \ {c} : call'[d] = call[d]
        /\ running \in {Nobody, c} /\ running' \in {Nobody, c} /\ (running' = c => Settled(c)')
        /\ UNCHANGED <<consumers, queues, handler, pump>>
    BY <1>2, CallEffect, HubConstants
       DEF CleanUpTopic, ClientResumes, RunsOnIfReturned, Settled, CallsAreAwaited,
           registryVars, brokerVars
  <2>2. handler[c] \in InClient
    <3>1. CASE ClientResumes(c)
      BY <3>1 DEF ClientResumes, Client!CallerStep, Client!CallerLocked, Client!CallerSent,
                  CallsAreAwaited, Settled
    <3>2. CASE \E t \in Topics : CleanUpTopic(c, t)
      BY <3>2 DEF CleanUpTopic, InClient
    <3>3. QED
      BY <1>2, <3>1, <3>2
  <2>3. CallsAreAwaited'
    BY <2>1, <2>2, HubConstants DEF CallsAreAwaited, Settled, InClient
  <2>4. CleanupGivesBack'
    BY <1>2, <2>1 DEF CleanUpTopic, ClientResumes, CleanupGivesBack
  <2>5. PumpEndsFirst' /\ PumpHasQueue' /\ CleanedTables'
    BY <2>1 DEF PumpEndsFirst, PumpHasQueue, CleanedTables
  <2>6. QED
    BY <2>3, <2>4, <2>5
<1>3. QED
  BY <1>1, <1>2

LEMMA PumpKeepsTaskInv ==
  ASSUME TaskInv, NEW c \in Conns, PumpStep(c)
  PROVE  TaskInv'
<1> USE DEF TaskInv
<1>1. PICK pc : PumpGoto(c, pc)
  BY DEF PumpStep, PumpStarts, PumpGets, PumpSent, PumpFails, PumpCancelled
<1>2. /\ UNCHANGED <<consumers, call, handler, running, zeroed>>
      /\ DOMAIN queues' = DOMAIN queues
      /\ DOMAIN pump' = Conns /\ \A d \in Conns \ {c} : pump'[d] = pump[d]
  BY <1>1 DEF PumpGoto, registryVars, clientVars, PumpStep, PumpStarts, PumpGets, PumpSent,
              PumpFails, PumpCancelled, Broker!GetMessage, brokerVars, PumpEndsFirst
<1>3. /\ pump[c] # "ended"
      /\ pump[c] = "cancelled" => pump'[c] = "ended"
      /\ pump'[c] \in {"getting", "sending"} => c \in DOMAIN queues
  BY DEF PumpStep, PumpStarts, PumpGets, PumpSent, PumpFails, PumpCancelled, PumpAt, PumpGoto,
         Broker!GetMessage, PumpEndsFirst, PumpHasQueue
<1>4. CallsAreAwaited' /\ CleanedTables' /\ CleanupGivesBack'
  BY <1>2 DEF CallsAreAwaited, Settled, CleanedTables, CleanupGivesBack
<1>5. PumpEndsFirst' /\ PumpHasQueue'
  BY <1>2, <1>3 DEF PumpEndsFirst, PumpHasQueue
<1>6. QED
  BY <1>4, <1>5

\* In every reachable state: who is suspended where, and what it has then left.
THEOREM TaskInvariant == HubSpec => []TaskInv
<1>1. HubInit => TaskInv
  BY DEF HubInit, Registry!RegistryInit, Broker!BrokerInit, Client!ClientInit, TaskInv,
         CallsAreAwaited, Settled, PumpEndsFirst, PumpHasQueue, CleanedTables, CleanupGivesBack
<1>2. TaskInv /\ [HubNext]_hubVars => TaskInv'
  <2> SUFFICES ASSUME TaskInv, [HubNext]_hubVars
               PROVE  TaskInv'
    OBVIOUS
  <2>1. ASSUME NEW c \in Conns, PeerStep(c) PROVE TaskInv'
    <3>1. CASE RejectedMessage(c) \/ Replied(c)
      BY <3>1, HandlerMoves
         DEF RejectedMessage, Replied, TakesMessage, Suspended, InClient, registryVars,
             brokerVars, clientVars
    <3>2. CASE MalformedFrame(c)
      BY <3>2, EnterFinallyKeepsTaskInv DEF MalformedFrame, TakesMessage, Suspended
    <3>3. CASE LinkLost(c)
      BY <3>3, TaskInvStutters DEF LinkLost, taskVars, registryVars, brokerVars, clientVars
    <3>4. QED
      BY <2>1, <3>1, <3>2, <3>3, AcceptKeepsTaskInv, SubscribeKeepsTaskInv
         DEF PeerStep, ReceivesMessage
  <2>2. ASSUME NEW c \in Conns, HandlerStep(c) PROVE TaskInv'
    <3>1. CASE SubscribedUpstream(c) \/ UnsubscribedUpstream(c)
      <4>1. /\ Goto(c, "replying") /\ handler[c] \in {"subscribing", "unsubscribing"}
            /\ running = c /\ running' = Nobody
            /\ UNCHANGED <<call, zeroed, consumers, queues, pump>>
        BY <3>1 DEF SubscribedUpstream, UnsubscribedUpstream, Reply, registryVars, brokerVars,
                    clientVars
      <4>2. Settled(c)
        BY <4>1 DEF TaskInv, CallsAreAwaited
      <4>3. QED
        BY <4>1, <4>2, HandlerMoves
    <3>2. CASE UpstreamSubscribeFailed(c)
      <4>1. /\ Goto(c, "replying") /\ handler[c] = "subscribing"
            /\ running = c /\ running' = Nobody
            /\ UNCHANGED <<call, zeroed, queues, pump>>
            /\ DOMAIN consumers' = DOMAIN consumers
        BY <3>2 DEF UpstreamSubscribeFailed, Reply, clientVars, Broker!UnsubscribeConsumer,
                    Registry!Unsubscribe, Registry!WithEntry, Registry!registryVars
      <4>2. /\ DOMAIN handler' = Conns
            /\ \A d \in Conns : handler'[d] = IF d = c THEN "replying" ELSE handler[d]
        BY <4>1 DEF Goto, TaskInv, PumpEndsFirst
      <4>3. CallsAreAwaited'
        BY <4>1, <4>2, HubConstants DEF TaskInv, CallsAreAwaited, Settled, InClient
      <4>4. PumpEndsFirst' /\ PumpHasQueue' /\ CleanedTables' /\ CleanupGivesBack'
        BY <4>1, <4>2
           DEF TaskInv, PumpEndsFirst, PumpHasQueue, CleanedTables, CleanupGivesBack
      <4>5. QED
        BY <4>3, <4>4 DEF TaskInv
    <3>3. CASE ReplyFails(c) \/ Disconnected(c)
      BY <3>3, EnterFinallyKeepsTaskInv DEF ReplyFails, Disconnected, Suspended
    <3>4. QED
      BY <2>2, <3>1, <3>2, <3>3, CleanUpKeepsTaskInv, CleaningKeepsTaskInv DEF HandlerStep
  <2>3. ASSUME NEW c \in Conns, PumpStep(c) PROVE TaskInv'
    BY <2>3, PumpKeepsTaskInv
  <2>4. CASE \E t \in Topics : Dispatch(t)
    <3>1. DOMAIN queues' = DOMAIN queues /\ UNCHANGED <<call, handler, running, pump, zeroed, consumers>>
      BY <2>4 DEF Dispatch, Broker!Publish, registryVars, clientVars, connVars
    <3>2. QED
      BY <3>1 DEF TaskInv, CallsAreAwaited, Settled, PumpEndsFirst, PumpHasQueue,
                  CleanedTables, CleanupGivesBack
  <2>5. CASE Upstream \/ UpstreamLost
    BY <2>5, UpstreamKeepsCalls, TaskInvStutters
       DEF Upstream, UpstreamLost, taskVars, registryVars, brokerVars, connVars
  <2>6. CASE UNCHANGED hubVars
    BY <2>6, TaskInvStutters
       DEF hubVars, taskVars, registryVars, brokerVars, clientVars, connVars
  <2>7. QED
    BY <2>1, <2>2, <2>3, <2>4, <2>5, <2>6 DEF HubNext
<1>3. QED
  BY <1>1, <1>2, PTL DEF HubSpec

\* No remove_consumer takes the queue away under a pump that reads from it.
THEOREM PumpAlwaysHasQueue == HubSpec => []PumpHasQueue
<1>1. TaskInv => PumpHasQueue
  BY DEF TaskInv
<1>2. QED
  BY TaskInvariant, <1>1, PTL

-----------------------------------------------------------------------------
\* A handler that has returned is in no table and at no lock: its slot starts
\* as if it had never been used.
THEOREM GoneAlwaysLeavesNoTrace == HubSpec => []GoneLeavesNoTrace
<1>1. TaskInv /\ Client!LockServesWaiters /\ RegistryBrokerAgree => GoneLeavesNoTrace
  <2> SUFFICES ASSUME TaskInv, Client!LockServesWaiters, RegistryBrokerAgree,
                      NEW c \in Conns, handler[c] = "gone"
               PROVE  /\ c \notin DOMAIN consumers /\ c \notin DOMAIN queues
                      /\ \A t \in Topics : c \notin Broker!Subscribers(t)
                      /\ c \notin {ws_lock[i].task : i \in DOMAIN ws_lock}
    BY DEF GoneLeavesNoTrace
  <2>1. c \notin DOMAIN consumers /\ c \notin DOMAIN queues
    BY DEF TaskInv, CleanedTables
  <2>2. \A t \in Topics : c \notin Broker!Subscribers(t)
    BY <2>1 DEF RegistryBrokerAgree
  <2>3. c \notin Client!Waiters
    BY HubConstants DEF TaskInv, CallsAreAwaited, InClient, Settled, Client!Waiters
  <2>4. QED
    BY <2>1, <2>2, <2>3 DEF Client!LockServesWaiters
<1>2. QED
  BY <1>1, TaskInvariant, HubLockServesWaiters, RegistryBrokerAlwaysAgree, PTL

-----------------------------------------------------------------------------
\* Without a send that raises, no call ends in an exception.
LEMMA NothingRaises ==
  ASSUME Faulty = {}
  PROVE  HubSpec => [](\A c \in Conns : call[c] # "raised")
<1> DEFINE Inv == DOMAIN call = Conns /\ \A c \in Conns : call[c] # "raised"
<1>1. HubInit => Inv
  BY DEF HubInit, Client!ClientInit
<1>2. Inv /\ [HubNext]_hubVars => Inv'
  <2> SUFFICES ASSUME Inv, [HubNext]_hubVars PROVE Inv'
    OBVIOUS
  <2>1. CASE call' = call
    BY <2>1
  <2>2. ASSUME NEW c \in Conns,
               \/ \E t \in Topics : Client!SubscribeTopic(c, t) \/ Client!UnsubscribeTopic(c, t)
               \/ Client!CallerStep(c)
        PROVE  Inv'
    <3>1. \E how \in {"wait", "send", "returned"} : call' = [call EXCEPT ![c] = how]
      BY <2>2 DEF Client!SubscribeTopic, Client!UnsubscribeTopic, Client!SendJson,
                  Client!CallerStep, Client!CallerLocked, Client!CallerSent, Client!CallerSend,
                  Client!Returns
    <3>2. QED
      BY <3>1
  <2>3. ASSUME NEW c \in Conns, PeerStep(c) PROVE Inv'
    BY <2>1, <2>2, <2>3
       DEF PeerStep, ReceivesMessage, Accept, RejectedMessage, MalformedFrame, EnterFinally,
           Replied, LinkLost, HandleSubscribe, HandleUnsubscribe, Reply, clientVars
  <2>4. ASSUME NEW c \in Conns, HandlerStep(c) PROVE Inv'
    BY <2>1, <2>2, <2>4
       DEF HandlerStep, SubscribedUpstream, UpstreamSubscribeFailed, UnsubscribedUpstream,
           ReplyFails, Disconnected, EnterFinally, CleanUp, CleanUpTopic, CleanedUp,
           ClientResumes, clientVars
  <2>5. ASSUME NEW c \in Conns, PumpStep(c) PROVE Inv'
    BY <2>1, <2>5 DEF PumpStep, PumpStarts, PumpGets, PumpSent, PumpFails, PumpCancelled,
                      PumpGoto, clientVars
  <2>6. CASE (\E t \in Topics : Dispatch(t)) \/ Upstream \/ UpstreamLost
    BY <2>1, <2>6, UpstreamKeepsCalls DEF Dispatch, clientVars, Upstream, UpstreamLost
  <2>7. CASE UNCHANGED hubVars
    BY <2>1, <2>7 DEF hubVars, clientVars
  <2>8. QED
    BY <2>3, <2>4, <2>5, <2>6, <2>7 DEF HubNext
<1>3. QED
  BY <1>1, <1>2, PTL DEF HubSpec

-----------------------------------------------------------------------------
LEMMA RegistryTyped == HubSpec => []Registry!RegistryTypeOK
<1>1. RegistryProofs!RegistryInv => Registry!RegistryTypeOK
  BY DEF RegistryProofs!RegistryInv, Registry!RegistryTypeOK, RegistryProofs!RegistryTypeOK
<1>2. QED
  BY <1>1, HubRegistryInvariant, PTL

\* The counts of the topics outside S stay, and a count of S that is not
\* positive afterwards is zero.
LEMMA DemandDecrements ==
  ASSUME Registry!RegistryTypeOK, NEW S, Registry!DecrementTopicRefcounts(S)
  PROVE  \A t \in Demanded : t \in Demanded' \/ (t \in S /\ Refcount(t)' = 0)
<1> SUFFICES ASSUME NEW t \in Topics, Refcount(t) > 0
             PROVE  Refcount(t)' > 0 \/ (t \in S /\ Refcount(t)' = 0)
  BY DEF Demanded
<1>1. t \in DOMAIN topic_refcounts /\ topic_refcounts[t] \in Nat \ {0}
      /\ Refcount(t) = topic_refcounts[t]
  BY DEF Refcount, Registry!TopicRefcount, Registry!RegistryTypeOK
<1>2. CASE t \notin S
  BY <1>1, <1>2 DEF Registry!DecrementTopicRefcounts, Refcount, Registry!TopicRefcount
<1>3. CASE t \in S /\ topic_refcounts[t] = 1
  BY <1>1, <1>3 DEF Registry!DecrementTopicRefcounts, Refcount, Registry!TopicRefcount
<1>4. CASE t \in S /\ topic_refcounts[t] # 1
  BY <1>1, <1>4 DEF Registry!DecrementTopicRefcounts, Refcount, Registry!TopicRefcount
<1>5. QED
  BY <1>1, <1>2, <1>3, <1>4

LEMMA SubscribeKeepsWanted ==
  ASSUME Registry!RegistryTypeOK, NothingUnwantedUpstream, NEW c \in Conns, NEW t \in Topics,
         HandleSubscribe(c, t)
  PROVE  NothingUnwantedUpstream'
<1>1. Demanded \subseteq Demanded' /\ zeroed' = zeroed
  <2>1. zeroed' = zeroed
    BY DEF HandleSubscribe
  <2>2. Registry!Subscribe(c, t)
    BY DEF HandleSubscribe
  <2>3. ASSUME NEW u \in Topics, Refcount(u) > 0 PROVE Refcount(u)' > 0
    <3>1. u \in DOMAIN topic_refcounts /\ topic_refcounts[u] \in Nat \ {0}
      BY <2>3 DEF Refcount, Registry!TopicRefcount, Registry!RegistryTypeOK
    <3>2. QED
      BY <2>2, <2>3, <3>1
         DEF Registry!Subscribe, Registry!registryVars, Registry!IncrementTopicRefcount,
             Registry!WithEntry, Refcount, Registry!TopicRefcount
  <2>4. QED
    BY <2>1, <2>3 DEF Demanded
<1>2. topics' \subseteq topics \/ (topics' = topics \cup {t} /\ Refcount(t)' > 0)
  BY DEF HandleSubscribe, Client!SubscribeTopic, clientVars
<1>3. QED
  BY <1>1, <1>2 DEF NothingUnwantedUpstream, Demanded

LEMMA UnsubscribeKeepsWanted ==
  ASSUME Registry!RegistryTypeOK, NothingUnwantedUpstream, NEW c \in Conns, NEW t \in Topics,
         HandleUnsubscribe(c, t)
  PROVE  NothingUnwantedUpstream'
<1>1. zeroed' = zeroed /\ Registry!Unsubscribe(c, t)
  BY DEF HandleUnsubscribe
<1>2. \A u \in Demanded : u \in Demanded' \/ (u = t /\ Refcount(t)' = 0)
  <2>1. CASE Registry!DecrementTopicRefcounts({t})
    BY <2>1, DemandDecrements
  <2>2. CASE UNCHANGED topic_refcounts
    BY <2>2 DEF Demanded, Refcount, Registry!TopicRefcount
  <2>3. QED
    BY <1>1, <2>1, <2>2 DEF Registry!Unsubscribe, Registry!registryVars
<1>3. CASE Refcount(t) > 0 /\ Refcount(t)' = 0
  <2>1. topics' = topics \ {t}
    BY <1>3 DEF HandleUnsubscribe, Client!UnsubscribeTopic
  <2>2. QED
    BY <1>1, <1>2, <2>1 DEF NothingUnwantedUpstream
<1>4. CASE ~(Refcount(t) > 0 /\ Refcount(t)' = 0)
  <2>1. topics' = topics
    BY <1>4 DEF HandleUnsubscribe, clientVars
  <2>2. Demanded \subseteq Demanded'
    BY <1>2, <1>4 DEF Demanded
  <2>3. QED
    BY <1>1, <2>1, <2>2 DEF NothingUnwantedUpstream
<1>5. QED
  BY <1>3, <1>4

LEMMA CleanUpKeepsWanted ==
  ASSUME Registry!RegistryTypeOK, CleanupGivesBack, NothingUnwantedUpstream,
         NEW c \in Conns, CleanUp(c)
  PROVE  NothingUnwantedUpstream'
<1>1. /\ topics' = topics /\ handler[c] = "joining" /\ Registry!UnregisterConsumer(c)
      /\ zeroed' = [zeroed EXCEPT ![c] = {t \in consumers[c] : Refcount(t)' = 0}]
  BY DEF CleanUp, Joined, clientVars
<1>2. /\ zeroed[c] = {} /\ zeroed'[c] = {t \in consumers[c] : Refcount(t)' = 0}
      /\ \A d \in Conns \ {c} : zeroed'[d] = zeroed[d]
  BY <1>1 DEF CleanupGivesBack
<1>3. Demanded \subseteq Demanded' \cup zeroed'[c]
  <2>1. CASE Registry!DecrementTopicRefcounts(consumers[c])
    BY <1>2, <2>1, DemandDecrements
  <2>2. CASE UNCHANGED topic_refcounts
    BY <2>2 DEF Demanded, Refcount, Registry!TopicRefcount
  <2>3. QED
    BY <1>1, <2>1, <2>2 DEF Registry!UnregisterConsumer, Registry!registryVars
<1>4. QED
  BY <1>1, <1>2, <1>3 DEF NothingUnwantedUpstream

\* While no upstream send fails, the hub asks the exchange for nothing nobody
\* wants, except what a cleanup under way is about to give back.
THEOREM NothingEverUnwanted ==
  ASSUME Faulty = {}
  PROVE  HubSpec => []NothingUnwantedUpstream
<1> DEFINE Calm == \A c \in Conns : call[c] # "raised"
<1>1. HubInit => NothingUnwantedUpstream
  BY DEF HubInit, Client!ClientInit, NothingUnwantedUpstream
<1>2. /\ NothingUnwantedUpstream /\ TaskInv /\ Registry!RegistryTypeOK /\ Calm
      /\ [HubNext]_hubVars
      => NothingUnwantedUpstream'
  <2> SUFFICES ASSUME NothingUnwantedUpstream, CleanupGivesBack, Registry!RegistryTypeOK,
                      Calm, [HubNext]_hubVars
               PROVE  NothingUnwantedUpstream'
    BY DEF TaskInv
  <2>1. CASE UNCHANGED <<topics, topic_refcounts, zeroed>>
    BY <2>1 DEF NothingUnwantedUpstream, Demanded, Refcount, Registry!TopicRefcount
  <2>2. ASSUME NEW c \in Conns, PeerStep(c) PROVE NothingUnwantedUpstream'
    <3>1. CASE Accept(c) \/ RejectedMessage(c) \/ MalformedFrame(c) \/ Replied(c) \/ LinkLost(c)
      BY <2>1, <3>1 DEF Accept, RejectedMessage, MalformedFrame, EnterFinally, Replied,
                        LinkLost, Registry!RegisterConsumer, registryVars, clientVars
    <3>2. QED
      BY <2>2, <3>1, SubscribeKeepsWanted, UnsubscribeKeepsWanted DEF PeerStep, ReceivesMessage
  <2>3. ASSUME NEW c \in Conns, HandlerStep(c) PROVE NothingUnwantedUpstream'
    <3>1. CASE \/ SubscribedUpstream(c) \/ UnsubscribedUpstream(c)
               \/ ReplyFails(c) \/ Disconnected(c) \/ CleanedUp(c)
      BY <2>1, <3>1 DEF SubscribedUpstream, UnsubscribedUpstream, ReplyFails, Disconnected,
                        EnterFinally, CleanedUp, registryVars, clientVars
    <3>2. ~UpstreamSubscribeFailed(c)
      BY DEF UpstreamSubscribeFailed
    <3>3. ASSUME NEW t \in Topics, CleanUpTopic(c, t) PROVE NothingUnwantedUpstream'
      <4>1. /\ topics' = topics \ {t} /\ Demanded' = Demanded
            /\ zeroed' = [zeroed EXCEPT ![c] = @ \ {t}]
        BY <3>3 DEF CleanUpTopic, Client!UnsubscribeTopic, registryVars, Demanded, Refcount,
                    Registry!TopicRefcount
      <4>2. \A d \in Conns : zeroed[d] \ {t} \subseteq zeroed'[d]
        BY <4>1 DEF CleanupGivesBack
      <4>3. QED
        BY <4>1, <4>2 DEF NothingUnwantedUpstream
    <3>4. CASE ClientResumes(c)
      BY <2>1, <3>4 DEF ClientResumes, Client!CallerStep, Client!CallerLocked,
                        Client!CallerSent, registryVars
    <3>5. QED
      BY <2>3, <3>1, <3>2, <3>3, <3>4, CleanUpKeepsWanted DEF HandlerStep
  <2>4. ASSUME NEW c \in Conns, PumpStep(c) PROVE NothingUnwantedUpstream'
    BY <2>1, <2>4 DEF PumpStep, PumpStarts, PumpGets, PumpSent, PumpFails, PumpCancelled, PumpGoto,
                      registryVars, clientVars
  <2>5. CASE (\E t \in Topics : Dispatch(t)) \/ Upstream \/ UpstreamLost
    BY <2>1, <2>5, UpstreamKeepsCalls
       DEF Dispatch, Upstream, UpstreamLost, registryVars, clientVars, connVars
  <2>6. CASE UNCHANGED hubVars
    BY <2>1, <2>6 DEF hubVars, registryVars, clientVars, connVars
  <2>7. QED
    BY <2>2, <2>3, <2>4, <2>5, <2>6 DEF HubNext
<1>3. QED
  BY <1>1, <1>2, TaskInvariant, RegistryTyped, NothingRaises, PTL DEF HubSpec

-----------------------------------------------------------------------------
\* A connection is registered from accept to cleanup.
TasksTyped ==
  /\ handler \in [Conns -> {"gone", "reading", "subscribing", "unsubscribing",
                            "replying", "joining", "cleaning", "crashed"}]
  /\ pump \in [Conns -> {"waiting", "getting", "sending", "cancelled", "failed", "ended"}]
  /\ link \in [Conns -> {"up", "unread", "lost"}] /\ queue_ready \in [Conns -> BOOLEAN]
  /\ zeroed \in [Conns -> SUBSET Topics] /\ running \in Conns \cup {Nobody}
  /\ \A c \in Conns : handler[c] \notin {"gone", "cleaning"} => c \in DOMAIN consumers

LEMMA GotoKeepsTypes ==
  ASSUME TasksTyped, NEW c \in Conns,
         NEW pc \in {"gone", "reading", "subscribing", "unsubscribing",
                     "replying", "joining", "cleaning", "crashed"},
         Goto(c, pc), handler[c] \notin {"gone", "cleaning"} \/ pc = "gone",
         pump' \in [Conns -> {"waiting", "getting", "sending", "cancelled", "failed", "ended"}],
         link' \in [Conns -> {"up", "unread", "lost"}], queue_ready' \in [Conns -> BOOLEAN],
         zeroed' = zeroed, running' \in Conns \cup {Nobody},
         DOMAIN consumers' = DOMAIN consumers
  PROVE  TasksTyped'
BY DEF TasksTyped, Goto

LEMMA EnterFinallyKeepsTypes ==
  ASSUME TasksTyped, NEW c \in Conns, EnterFinally(c), handler[c] \in {"reading", "replying"},
         link' \in [Conns -> {"up", "unread", "lost"}]
  PROVE  TasksTyped'
<1>1. /\ UNCHANGED <<queue_ready, zeroed>> /\ DOMAIN consumers' = DOMAIN consumers
      /\ running' \in Conns \cup {Nobody}
      /\ pump' \in [Conns -> {"waiting", "getting", "sending", "cancelled", "failed", "ended"}]
      /\ Goto(c, "crashed") \/ Goto(c, "joining")
  BY DEF EnterFinally, registryVars, TasksTyped
<1>2. QED
  BY <1>1, GotoKeepsTypes DEF TasksTyped

LEMMA TasksAlwaysTyped == HubSpec => []TasksTyped
<1>1. HubInit => TasksTyped
  BY DEF HubInit, TasksTyped
<1>2. TasksTyped /\ Registry!RegistryTypeOK /\ [HubNext]_hubVars => TasksTyped'
  <2> SUFFICES ASSUME TasksTyped, Registry!RegistryTypeOK, [HubNext]_hubVars
               PROVE  TasksTyped'
    OBVIOUS
  <2>1. CASE UNCHANGED <<handler, pump, link, queue_ready, zeroed, running, consumers>>
    BY <2>1 DEF TasksTyped
  <2>2. ASSUME NEW c \in Conns, PeerStep(c) PROVE TasksTyped'
    <3>1. CASE Accept(c)
      <4>1. DOMAIN consumers' = DOMAIN consumers \cup {c}
        BY <3>1 DEF Accept, Registry!RegisterConsumer, Registry!WithEntry
      <4>2. QED
        BY <3>1, <4>1 DEF Accept, Goto, TasksTyped
    <3>2. CASE RejectedMessage(c) \/ Replied(c)
      BY <3>2, GotoKeepsTypes
         DEF RejectedMessage, Replied, TakesMessage, Suspended, registryVars, TasksTyped
    <3>3. CASE MalformedFrame(c)
      BY <3>3, EnterFinallyKeepsTypes DEF MalformedFrame, TakesMessage, Suspended, TasksTyped
    <3>4. CASE LinkLost(c)
      BY <3>4 DEF LinkLost, registryVars, TasksTyped
    <3>5. ASSUME NEW t \in Topics, HandleSubscribe(c, t) \/ HandleUnsubscribe(c, t)
          PROVE  TasksTyped'
      <4>1. DOMAIN consumers' = DOMAIN consumers
        BY <3>5 DEF HandleSubscribe, HandleUnsubscribe, Registry!Subscribe,
                    Registry!Unsubscribe, Registry!WithEntry, Registry!registryVars
      <4>2. /\ running' \in Conns \cup {Nobody} /\ handler[c] = "reading"
            /\ queue_ready' \in [Conns -> BOOLEAN] /\ UNCHANGED <<zeroed, pump>>
            /\ Goto(c, "subscribing") \/ Goto(c, "unsubscribing") \/ Goto(c, "replying")
            /\ link' \in [Conns -> {"up", "unread", "lost"}]
        BY <3>5 DEF HandleSubscribe, HandleUnsubscribe, RunsOnIfReturned, Reply, TakesMessage,
                    Suspended, TasksTyped
      <4>3. QED
        BY <4>1, <4>2, GotoKeepsTypes DEF TasksTyped
    <3>6. QED
      BY <2>2, <3>1, <3>2, <3>3, <3>4, <3>5 DEF PeerStep, ReceivesMessage
  <2>3. ASSUME NEW c \in Conns, HandlerStep(c) PROVE TasksTyped'
    <3>1. CASE SubscribedUpstream(c) \/ UpstreamSubscribeFailed(c) \/ UnsubscribedUpstream(c)
      <4>1. DOMAIN consumers' = DOMAIN consumers
        BY <3>1 DEF SubscribedUpstream, UpstreamSubscribeFailed, UnsubscribedUpstream,
                    Registry!Unsubscribe, Registry!WithEntry, Registry!registryVars,
                    registryVars
      <4>2. /\ running' \in Conns \cup {Nobody} /\ handler[c] \in {"subscribing", "unsubscribing"}
            /\ queue_ready' \in [Conns -> BOOLEAN] /\ UNCHANGED <<zeroed, pump, link>>
            /\ Goto(c, "replying")
        BY <3>1 DEF SubscribedUpstream, UpstreamSubscribeFailed, UnsubscribedUpstream, Reply,
                    TasksTyped
      <4>3. QED
        BY <4>1, <4>2, GotoKeepsTypes DEF TasksTyped
    <3>2. CASE ReplyFails(c) \/ Disconnected(c)
      BY <3>2, EnterFinallyKeepsTypes DEF ReplyFails, Disconnected, Suspended, TasksTyped
    <3>3. CASE CleanUp(c)
      <4>1. /\ handler[c] = "joining" /\ c \in DOMAIN consumers
            /\ DOMAIN consumers' = DOMAIN consumers \ {c}
        BY <3>3 DEF CleanUp, Joined, Registry!UnregisterConsumer, Registry!WithoutKeys,
                    TasksTyped
      <4>2. consumers[c] \subseteq Topics
        BY <4>1 DEF Registry!RegistryTypeOK
      <4>3. zeroed' \in [Conns -> SUBSET Topics]
        BY <3>3, <4>2 DEF CleanUp, TasksTyped
      <4>4. QED
        BY <3>3, <4>1, <4>3 DEF CleanUp, Goto, TasksTyped
    <3>4. CASE \E t \in Topics : CleanUpTopic(c, t)
      BY <3>4 DEF CleanUpTopic, RunsOnIfReturned, registryVars, TasksTyped
    <3>5. CASE CleanedUp(c)
      BY <3>5, GotoKeepsTypes DEF CleanedUp, registryVars, TasksTyped
    <3>6. CASE ClientResumes(c)
      BY <3>6 DEF ClientResumes, RunsOnIfReturned, registryVars, TasksTyped
    <3>7. QED
      BY <2>3, <3>1, <3>2, <3>3, <3>4, <3>5, <3>6 DEF HandlerStep
  <2>4. ASSUME NEW c \in Conns, PumpStep(c) PROVE TasksTyped'
    BY <2>4 DEF PumpStep, PumpStarts, PumpGets, PumpSent, PumpFails, PumpCancelled, PumpGoto,
                registryVars, TasksTyped
  <2>5. CASE (\E t \in Topics : Dispatch(t)) \/ Upstream \/ UpstreamLost
    BY <2>1, <2>5 DEF Dispatch, Upstream, UpstreamLost, registryVars, connVars
  <2>6. CASE UNCHANGED hubVars
    BY <2>1, <2>6 DEF hubVars, registryVars, connVars
  <2>7. QED
    BY <2>2, <2>3, <2>4, <2>5, <2>6 DEF HubNext
<1>3. QED
  BY <1>1, <1>2, RegistryTyped, PTL DEF HubSpec

\* Every task is at one of its awaits, every table holds what it is declared to
\* hold, and no entry of the lock is of a stranger.
THEOREM HubAlwaysTyped == HubSpec => []HubTypeOK
<1>1. BrokerProofs!BrokerInv => Broker!BrokerTypeOK
  BY DEF BrokerProofs!BrokerInv, Broker!BrokerTypeOK, BrokerProofs!BrokerTypeOK
<1>2. TasksTyped /\ Registry!RegistryTypeOK /\ Broker!BrokerTypeOK /\ Client!ClientTypeOK
        => HubTypeOK
  BY DEF TasksTyped, HubTypeOK
<1>3. QED
  BY <1>1, <1>2, TasksAlwaysTyped, RegistryTyped, HubBrokerInvariant, HubClientTyped, PTL

-----------------------------------------------------------------------------
\* No cleanup has two topics to give back: the condition under which a cleanup
\* cannot be suspended with a topic in hand that somebody wants again.
CleanupsGiveOneBack == \A c \in Conns : \A t, u \in zeroed[c] : t = u

\* A cleanup with a topic to give back runs on, and nobody wants the topic.
UnwantedInHand ==
  \A c \in Conns : zeroed[c] # {} => running = c /\ zeroed[c] \cap Demanded = {}

DemandInv == DemandIsUpstream /\ UnwantedInHand

LEMMA DemandInvStutters ==
  ASSUME DemandInv, UNCHANGED <<topics, topic_refcounts, zeroed>>,
         running = Nobody \/ running' = running
  PROVE  DemandInv'
<1>1. Demanded' = Demanded
  BY DEF Demanded, Refcount, Registry!TopicRefcount
<1>2. DemandIsUpstream'
  BY <1>1 DEF DemandInv, DemandIsUpstream
<1>3. UnwantedInHand'
  BY <1>1, HubConstants DEF DemandInv, UnwantedInHand
<1>4. QED
  BY <1>2, <1>3 DEF DemandInv

\* While another task runs, or none, no cleanup has anything to give back.
LEMMA NothingInHand ==
  ASSUME DemandInv, CleanupGivesBack, NEW c \in Conns, running = Nobody \/ running = c,
         running = c => handler[c] # "cleaning"
  PROVE  \A d \in Conns : zeroed[d] = {}
BY HubConstants DEF DemandInv, UnwantedInHand, CleanupGivesBack

LEMMA NothingInHandKeepsDemandInv ==
  ASSUME \A d \in Conns : zeroed[d] = {}, zeroed' = zeroed, Demanded' \subseteq topics'
  PROVE  DemandInv'
BY DEF DemandInv, DemandIsUpstream, UnwantedInHand

\* A decrement makes nothing wanted.
LEMMA DemandOnlyFalls ==
  ASSUME Registry!RegistryTypeOK, NEW S, Registry!DecrementTopicRefcounts(S)
  PROVE  Demanded' \subseteq Demanded
<1> SUFFICES ASSUME NEW t \in Topics, Refcount(t)' > 0 PROVE Refcount(t) > 0
  BY DEF Demanded
<1>1. t \in DOMAIN topic_refcounts
  BY DEF Refcount, Registry!TopicRefcount, Registry!DecrementTopicRefcounts
<1>2. QED
  BY <1>1 DEF Refcount, Registry!TopicRefcount, Registry!RegistryTypeOK

\* An unsubscribe makes nothing wanted.
LEMMA UnsubscribeDemandsLess ==
  ASSUME Registry!RegistryTypeOK, NEW c, NEW t, Registry!Unsubscribe(c, t)
  PROVE  Demanded' \subseteq Demanded
<1>1. CASE Registry!DecrementTopicRefcounts({t})
  BY <1>1, DemandOnlyFalls
<1>2. CASE UNCHANGED topic_refcounts
  BY <1>2 DEF Demanded, Refcount, Registry!TopicRefcount
<1>3. QED
  BY <1>1, <1>2 DEF Registry!Unsubscribe, Registry!registryVars

\* A subscribe makes its own topic wanted, and no other.
LEMMA SubscribeDemandsTopic ==
  ASSUME NEW c \in Conns, NEW t \in Topics, Registry!Subscribe(c, t)
  PROVE  Demanded' \subseteq Demanded \cup {t}
<1> SUFFICES ASSUME NEW u \in Topics, u # t, Refcount(u)' > 0 PROVE Refcount(u) > 0
  BY DEF Demanded
<1>1. Refcount(u)' = Refcount(u)
  BY DEF Registry!Subscribe, Registry!registryVars, Registry!IncrementTopicRefcount,
         Registry!WithEntry, Refcount, Registry!TopicRefcount
<1>2. QED
  BY <1>1

LEMMA SubscribeKeepsDemandInv ==
  ASSUME DemandInv, CleanupGivesBack, Registry!RegistryTypeOK,
         NEW c \in Conns, NEW t \in Topics, HandleSubscribe(c, t)
  PROVE  DemandInv'
<1>1. \A d \in Conns : zeroed[d] = {}
  BY NothingInHand DEF HandleSubscribe, TakesMessage, Suspended
<1>2. zeroed' = zeroed /\ Demanded \subseteq topics /\ Demanded' \subseteq Demanded \cup {t}
  BY SubscribeDemandsTopic DEF HandleSubscribe, DemandInv, DemandIsUpstream
<1>3. CASE Refcount(t) = 0 /\ Refcount(t)' > 0
  <2>1. topics' = topics \cup {t}
    BY <1>3 DEF HandleSubscribe, Client!SubscribeTopic
  <2>2. QED
    BY <1>1, <1>2, <2>1, NothingInHandKeepsDemandInv
<1>4. CASE ~(Refcount(t) = 0 /\ Refcount(t)' > 0)
  <2>1. topics' = topics
    BY <1>4 DEF HandleSubscribe, clientVars
  <2>2. t \in Demanded' => t \in Demanded
    <3> SUFFICES ASSUME Refcount(t)' > 0 PROVE Refcount(t) > 0
      BY DEF Demanded
    <3>1. Refcount(t) # 0
      BY <1>4
    <3>2. QED
      BY <3>1 DEF Refcount, Registry!TopicRefcount, Registry!RegistryTypeOK
  <2>3. QED
    BY <1>1, <1>2, <2>1, <2>2, NothingInHandKeepsDemandInv
<1>5. QED
  BY <1>3, <1>4

LEMMA UnsubscribeKeepsDemandInv ==
  ASSUME DemandInv, CleanupGivesBack, Registry!RegistryTypeOK,
         NEW c \in Conns, NEW t \in Topics, HandleUnsubscribe(c, t)
  PROVE  DemandInv'
<1>1. \A d \in Conns : zeroed[d] = {}
  BY NothingInHand DEF HandleUnsubscribe, TakesMessage, Suspended
<1>2. zeroed' = zeroed /\ Demanded \subseteq topics /\ Demanded' \subseteq Demanded
  BY UnsubscribeDemandsLess DEF HandleUnsubscribe, DemandInv, DemandIsUpstream
<1>3. topics' = topics \/ (topics' = topics \ {t} /\ t \notin Demanded')
  <2>1. topics' = topics \/ (topics' = topics \ {t} /\ Refcount(t)' = 0)
    BY DEF HandleUnsubscribe, Client!UnsubscribeTopic, clientVars
  <2>2. QED
    BY <2>1 DEF Demanded
<1>4. QED
  BY <1>1, <1>2, <1>3, NothingInHandKeepsDemandInv

\* The topics a cleanup takes in hand are those that nobody wants any more, and
\* it runs on; what it gives back is its last.
LEMMA CleanUpKeepsDemandInv ==
  ASSUME DemandInv, CleanupGivesBack, Registry!RegistryTypeOK, NEW c \in Conns, CleanUp(c)
  PROVE  DemandInv'
<1>1. \A d \in Conns : zeroed[d] = {}
  BY NothingInHand DEF CleanUp, Joined
<1>2. /\ topics' = topics /\ running' = c /\ Registry!UnregisterConsumer(c)
      /\ zeroed' = [zeroed EXCEPT ![c] = {t \in consumers[c] : Refcount(t)' = 0}]
  BY DEF CleanUp, clientVars
<1>3. Demanded' \subseteq Demanded
  <2>1. CASE Registry!DecrementTopicRefcounts(consumers[c])
    BY <2>1, DemandOnlyFalls
  <2>2. CASE UNCHANGED topic_refcounts
    BY <2>2 DEF Demanded, Refcount, Registry!TopicRefcount
  <2>3. QED
    BY <1>2, <2>1, <2>2 DEF Registry!UnregisterConsumer, Registry!registryVars
<1>4. \A d \in Conns : zeroed'[d] # {} => d = c
  BY <1>1, <1>2 DEF CleanupGivesBack
<1>5. zeroed'[c] \cap Demanded' = {}
  BY <1>2 DEF CleanupGivesBack, Demanded
<1>6. QED
  BY <1>2, <1>3, <1>4, <1>5 DEF DemandInv, DemandIsUpstream, UnwantedInHand

LEMMA CleanUpTopicKeepsDemandInv ==
  ASSUME DemandInv, CleanupGivesBack, CleanupsGiveOneBack,
         NEW c \in Conns, NEW t \in Topics, CleanUpTopic(c, t)
  PROVE  DemandInv'
<1>1. /\ running = c /\ t \in zeroed[c] /\ topics' = topics \ {t}
      /\ zeroed' = [zeroed EXCEPT ![c] = @ \ {t}] /\ topic_refcounts' = topic_refcounts
  BY DEF CleanUpTopic, Client!UnsubscribeTopic, registryVars
<1>2. Demanded' = Demanded /\ t \notin Demanded
  BY <1>1 DEF Demanded, Refcount, Registry!TopicRefcount, DemandInv, UnwantedInHand
<1>3. \A d \in Conns : zeroed'[d] = {}
  <2>1. \A d \in Conns : d # c => zeroed[d] = {}
    BY <1>1 DEF DemandInv, UnwantedInHand
  <2>2. zeroed[c] \ {t} = {}
    BY <1>1 DEF CleanupsGiveOneBack
  <2>3. \A d \in Conns : zeroed'[d] = IF d = c THEN zeroed[c] \ {t} ELSE zeroed[d]
    BY <1>1 DEF CleanupGivesBack
  <2>4. QED
    BY <2>1, <2>2, <2>3
<1>4. QED
  BY <1>1, <1>2, <1>3 DEF DemandInv, DemandIsUpstream, UnwantedInHand

LEMMA DemandInvariant == HubSpec /\ []CleanupsGiveOneBack => []DemandInv
<1>1. HubInit => DemandInv
  BY DEF HubInit, Registry!RegistryInit, Client!ClientInit, DemandInv, DemandIsUpstream,
         UnwantedInHand, Demanded, Refcount, Registry!TopicRefcount
<1>2. /\ DemandInv /\ CleanupsGiveOneBack /\ TaskInv /\ Registry!RegistryTypeOK
      /\ [HubNext]_hubVars
      => DemandInv'
  <2> SUFFICES ASSUME DemandInv, CleanupsGiveOneBack, CleanupGivesBack,
                      Registry!RegistryTypeOK, [HubNext]_hubVars
               PROVE  DemandInv'
    BY DEF TaskInv
  <2>1. ASSUME NEW c \in Conns, PeerStep(c) PROVE DemandInv'
    <3>1. CASE Accept(c) \/ RejectedMessage(c) \/ MalformedFrame(c) \/ Replied(c) \/ LinkLost(c)
      BY <3>1, DemandInvStutters
         DEF Accept, RejectedMessage, MalformedFrame, EnterFinally, Replied, LinkLost,
             TakesMessage, Suspended, Registry!RegisterConsumer, registryVars, clientVars
    <3>2. QED
      BY <2>1, <3>1, SubscribeKeepsDemandInv, UnsubscribeKeepsDemandInv
         DEF PeerStep, ReceivesMessage
  <2>2. ASSUME NEW c \in Conns, HandlerStep(c) PROVE DemandInv'
    <3>1. CASE SubscribedUpstream(c) \/ UnsubscribedUpstream(c) \/ CleanedUp(c)
      <4>1. \A d \in Conns : zeroed[d] = {}
        <5>1. CASE SubscribedUpstream(c) \/ UnsubscribedUpstream(c)
          BY <5>1, NothingInHand DEF SubscribedUpstream, UnsubscribedUpstream
        <5>2. CASE CleanedUp(c)
          BY <5>2, HubConstants DEF CleanedUp, DemandInv, UnwantedInHand
        <5>3. QED
          BY <3>1, <5>1, <5>2
      <4>2. UNCHANGED <<topics, topic_refcounts, zeroed>>
        BY <3>1 DEF SubscribedUpstream, UnsubscribedUpstream, CleanedUp, registryVars, clientVars
      <4>3. Demanded' = Demanded
        BY <4>2 DEF Demanded, Refcount, Registry!TopicRefcount
      <4>4. QED
        BY <4>1, <4>2, <4>3, NothingInHandKeepsDemandInv DEF DemandInv, DemandIsUpstream
    <3>2. CASE UpstreamSubscribeFailed(c)
      <4>1. \A d \in Conns : zeroed[d] = {}
        BY <3>2, NothingInHand DEF UpstreamSubscribeFailed
      <4>2. /\ zeroed' = zeroed /\ topics' = topics
            /\ Registry!Unsubscribe(c, reply[c].topic)
        BY <3>2 DEF UpstreamSubscribeFailed, clientVars
      <4>3. Demanded' \subseteq Demanded
        BY <4>2, UnsubscribeDemandsLess
      <4>4. QED
        BY <4>1, <4>2, <4>3, NothingInHandKeepsDemandInv DEF DemandInv, DemandIsUpstream
    <3>3. CASE ReplyFails(c) \/ Disconnected(c)
      BY <3>3, DemandInvStutters
         DEF ReplyFails, Disconnected, EnterFinally, Suspended, registryVars, clientVars
    <3>4. CASE ClientResumes(c)
      BY <3>4, DemandInvStutters
         DEF ClientResumes, Client!CallerStep, Client!CallerLocked, Client!CallerSent,
             registryVars
    <3>5. QED
      BY <2>2, <3>1, <3>2, <3>3, <3>4, CleanUpKeepsDemandInv, CleanUpTopicKeepsDemandInv
         DEF HandlerStep
  <2>3. ASSUME NEW c \in Conns, PumpStep(c) PROVE DemandInv'
    BY <2>3, DemandInvStutters
       DEF PumpStep, PumpStarts, PumpGets, PumpSent, PumpFails, PumpCancelled, PumpGoto,
           registryVars, clientVars
  <2>4. CASE (\E t \in Topics : Dispatch(t)) \/ Upstream \/ UpstreamLost
    BY <2>4, UpstreamKeepsCalls, DemandInvStutters
       DEF Dispatch, Upstream, UpstreamLost, registryVars, clientVars, connVars
  <2>5. CASE UNCHANGED hubVars
    BY <2>5, DemandInvStutters DEF hubVars, registryVars, clientVars, connVars
  <2>6. QED
    BY <2>1, <2>2, <2>3, <2>4, <2>5 DEF HubNext
<1>3. QED
  BY <1>1, <1>2, TaskInvariant, RegistryTyped, PTL DEF HubSpec

\* What any consumer wants is in the client's topic set, through rollbacks and
\* failing sends too, as long as no connection goes away that alone wanted two
\* topics.  One that does is what the finding about DemandIsUpstream needs.
THEOREM DemandAlwaysUpstream == HubSpec /\ []CleanupsGiveOneBack => []DemandIsUpstream
<1>1. DemandInv => DemandIsUpstream
  BY DEF DemandInv
<1>2. QED
  BY <1>1, DemandInvariant, PTL

LEMMA HubWireInSync ==
  ASSUME Faulty = {}
  PROVE  HubSpec => []Client!WireInSync
<1>1. ClientProofs!ClientSpec => []ClientProofs!WireInSync
  BY HubRunsClient, ClientProofs!WireAlwaysInSync, PTL
<1>2. ClientProofs!WireInSync => Client!WireInSync
  BY DEF Client!WireInSync, ClientProofs!WireInSync, Client!WsIsOpen, ClientProofs!WsIsOpen
<1>3. QED
  BY <1>1, <1>2, HubRunsClient, PTL

\* End to end: in a quiet hub the exchange serves nothing that nobody wants,
\* whatever connections went away before and with however many topics.
THEOREM QuietHubServesNothingUnwanted ==
  ASSUME Faulty = {}
  PROVE  HubSpec => [](Quiet => wire \subseteq Demanded)
<1>1. Client!WireInSync /\ NothingUnwantedUpstream => (Quiet => wire \subseteq Demanded)
  BY DEF Client!WireInSync, NothingUnwantedUpstream, Quiet
<1>2. QED
  BY <1>1, HubWireInSync, NothingEverUnwanted, PTL

\* End to end: in a quiet hub the exchange serves exactly what is wanted, as
\* long as no connection went away that alone wanted two topics.
THEOREM QuietHubAlwaysServesDemand ==
  ASSUME Faulty = {}
  PROVE  HubSpec /\ []CleanupsGiveOneBack => []QuietHubServesDemand
<1>1. Client!WireInSync /\ NothingUnwantedUpstream /\ DemandIsUpstream => QuietHubServesDemand
  BY DEF Client!WireInSync, NothingUnwantedUpstream, DemandIsUpstream, Quiet,
         QuietHubServesDemand
<1>2. QED
  BY <1>1, HubWireInSync, NothingEverUnwanted, DemandAlwaysUpstream, PTL

\* With one topic, as in the run, every behaviour meets the condition.
LEMMA OneTopicGivesOneBack ==
  ASSUME \A t, u \in Topics : t = u
  PROVE  HubSpec => []CleanupsGiveOneBack
<1>1. HubTypeOK => CleanupsGiveOneBack
  BY DEF HubTypeOK, CleanupsGiveOneBack
<1>2. QED
  BY <1>1, HubAlwaysTyped, PTL

\* End to end, without a condition on who goes away: a quiet hub with one topic
\* serves exactly what is wanted.
THEOREM OneTopicHubServesDemand ==
  ASSUME Faulty = {}, \A t, u \in Topics : t = u
  PROVE  HubSpec => []QuietHubServesDemand
BY OneTopicGivesOneBack, QuietHubAlwaysServesDemand, PTL
=============================================================================
