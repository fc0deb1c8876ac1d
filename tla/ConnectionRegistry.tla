------------------------- MODULE ConnectionRegistry -------------------------
(***************************************************************************)
(* app/registry/connection_registry.py: which downstream consumer wants    *)
(* which topics, and how many consumers want each topic.                   *)
(*                                                                         *)
(* Every method runs under one asyncio.Lock and awaits nothing while it    *)
(* holds it, so no task switch happens inside a method and one method is   *)
(* one action.  Both tables are Python dicts, modelled as functions whose  *)
(* DOMAIN is the set of keys present.                                      *)
(***************************************************************************)
EXTENDS Integers, FiniteSets

CONSTANTS Consumers, Topics

ASSUME ConsumersFinite == IsFiniteSet(Consumers)

VARIABLES
  consumers,        \* consumer id -> the set of topics of that consumer
  topic_refcounts   \* topic -> number of consumers that have it; no zero entry

registryVars == <<consumers, topic_refcounts>>

-----------------------------------------------------------------------------
\* A dict with the entry x set to v, and a dict without the keys in S.
WithEntry(f, x, v) == [y \in DOMAIN f \cup {x} |-> IF y = x THEN v ELSE f[y]]
WithoutKeys(f, S) == [y \in DOMAIN f \ S |-> f[y]]

\* dict.get(topic, 0) on the count table.
TopicRefcount(t) == IF t \in DOMAIN topic_refcounts THEN topic_refcounts[t] ELSE 0

IncrementTopicRefcount(t) ==
  topic_refcounts' = WithEntry(topic_refcounts, t, TopicRefcount(t) + 1)

\* Mutation: an entry that reaches zero is kept.
DecrementKeepsZeros(S) ==
  topic_refcounts' = [t \in DOMAIN topic_refcounts |->
                        topic_refcounts[t] - (IF t \in S THEN 1 ELSE 0)]

\* Mutation: the entry of every topic given back is popped, shared or not.
DecrementPopsAll(S) == topic_refcounts' = WithoutKeys(topic_refcounts, S)

\* One decrement for each topic of S; an entry that reaches zero is popped.
\* A topic without an entry stays without one, as n = -1 pops nothing.
DecrementTopicRefcounts(S) ==
  LET emptied == {t \in S : TopicRefcount(t) - 1 <= 0}
  IN topic_refcounts' = [t \in DOMAIN topic_refcounts \ emptied |->
                           IF t \in S THEN topic_refcounts[t] - 1
                                      ELSE topic_refcounts[t]]

-----------------------------------------------------------------------------
RegistryInit ==
  /\ consumers = [c \in {} |-> {}]
  /\ topic_refcounts = [t \in {} |-> 0]

\* A second registration of an id raises ValueError and changes nothing.
RegisterConsumer(c) ==
  /\ c \notin DOMAIN consumers
  /\ consumers' = WithEntry(consumers, c, {})
  /\ UNCHANGED topic_refcounts

\* Dropping a consumer gives back every topic it holds in the same step.
UnregisterConsumer(c) ==
  IF c \in DOMAIN consumers
  THEN /\ consumers' = WithoutKeys(consumers, {c})
       /\ DecrementTopicRefcounts(consumers[c])
  ELSE UNCHANGED registryVars

\* Mutation: a repeated subscribe is counted again.
SubscribeCountsAgain(c, t) ==
  /\ c \in DOMAIN consumers
  /\ TopicRefcount(t) <= Cardinality(Consumers)
  /\ consumers' = WithEntry(consumers, c, consumers[c] \cup {t})
  /\ IncrementTopicRefcount(t)

\* An unknown consumer raises ValueError and changes nothing.
Subscribe(c, t) ==
  /\ c \in DOMAIN consumers
  /\ IF t \in consumers[c]
     THEN UNCHANGED registryVars
     ELSE /\ consumers' = WithEntry(consumers, c, consumers[c] \cup {t})
          /\ IncrementTopicRefcount(t)

Unsubscribe(c, t) ==
  IF c \in DOMAIN consumers /\ t \in consumers[c]
  THEN /\ consumers' = WithEntry(consumers, c, consumers[c] \ {t})
       /\ DecrementTopicRefcounts({t})
  ELSE UNCHANGED registryVars

RegistryNext ==
  \E c \in Consumers :
    \/ RegisterConsumer(c)
    \/ UnregisterConsumer(c)
    \/ \E t \in Topics : Subscribe(c, t) \/ Unsubscribe(c, t)

RegistrySpec == RegistryInit /\ [][RegistryNext]_registryVars

-----------------------------------------------------------------------------
\* Both tables are dicts over the ids and topics of the model.
RegistryTypeOK ==
  /\ DOMAIN consumers \subseteq Consumers
  /\ consumers \in [DOMAIN consumers -> SUBSET Topics]
  /\ DOMAIN topic_refcounts \subseteq Topics
  /\ topic_refcounts \in [DOMAIN topic_refcounts -> Nat \ {0}]

\* The consumers that hold topic t.
Holders(t) == {c \in DOMAIN consumers : t \in consumers[c]}

\* The count kept incrementally for a topic is the number of consumers that
\* hold it, whatever mixture of repeated subscribes, repeated unsubscribes and
\* disconnects led here: no path counts a pair twice or gives it back twice
\* (ConnectionRegistry.subscribe, unsubscribe, unregister_consumer).
RefcountsExact == \A t \in Topics : TopicRefcount(t) = Cardinality(Holders(t))

\* One call moves the demand of a topic by at most one consumer, so the first
\* and the last holder of a topic are each seen by the one call that makes the
\* transition: the before/after comparison of app/main.py relies on it.
OneStepDemand ==
  [][\A t \in Topics : /\ TopicRefcount(t)' - TopicRefcount(t) \in {-1, 0, 1}
                       /\ TopicRefcount(t)' # TopicRefcount(t)
                            => Cardinality({c \in Consumers :
                                 (c \in Holders(t)) # (c \in Holders(t))'}) = 1
     ]_registryVars
=============================================================================
