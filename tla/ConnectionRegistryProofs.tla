---------------------- MODULE ConnectionRegistryProofs ----------------------
(***************************************************************************)
(* The refcount table of ConnectionRegistry is exact for every finite set  *)
(* of consumers and every set of topics, and a call moves it with the      *)
(* demand of one consumer.                                                 *)
(***************************************************************************)
EXTENDS ConnectionRegistry, FiniteSetTheorems, TLAPS

(***************************************************************************)
(* RefcountsExact is inductive once the key sets are known: an absent key  *)
(* counts as zero, a present one is positive (RegistryTypeOK).             *)
(***************************************************************************)
RegistryInv == RegistryTypeOK /\ RefcountsExact

\* Holders of a topic form a finite set, so their number is a natural.
LEMMA HoldersFinite ==
  ASSUME RegistryTypeOK, NEW t \in Topics
  PROVE  IsFiniteSet(Holders(t)) /\ Cardinality(Holders(t)) \in Nat
<1>1. Holders(t) \in SUBSET Consumers
  BY DEF Holders, RegistryTypeOK
<1>2. QED
  BY <1>1, ConsumersFinite, FS_Subset, FS_CardinalityType

\* dict.get(topic, 0) is a natural number.
LEMMA TopicRefcountType ==
  ASSUME RegistryTypeOK, NEW t \in Topics
  PROVE  TopicRefcount(t) \in Nat
BY DEF RegistryTypeOK, TopicRefcount

\* _decrement_topic_refcount: one less for the topics of S that have an entry,
\* every other topic unchanged, and no entry is left at zero.
LEMMA DecrementEffect ==
  ASSUME RegistryTypeOK, NEW S \in SUBSET Topics, DecrementTopicRefcounts(S)
  PROVE  /\ DOMAIN topic_refcounts' \subseteq DOMAIN topic_refcounts
         /\ topic_refcounts' \in [DOMAIN topic_refcounts' -> Nat \ {0}]
         /\ \A t \in Topics :
              TopicRefcount(t)' = IF t \in S /\ t \in DOMAIN topic_refcounts
                                  THEN TopicRefcount(t) - 1
                                  ELSE TopicRefcount(t)
<1> DEFINE emptied == {t \in S : TopicRefcount(t) - 1 <= 0}
<1>1. topic_refcounts' = [t \in DOMAIN topic_refcounts \ emptied |->
                            IF t \in S THEN topic_refcounts[t] - 1
                                       ELSE topic_refcounts[t]]
  BY DEF DecrementTopicRefcounts
<1>2. DOMAIN topic_refcounts' = DOMAIN topic_refcounts \ emptied
  BY <1>1
<1>3. \A t \in DOMAIN topic_refcounts : topic_refcounts[t] \in Nat \ {0}
  BY DEF RegistryTypeOK
<1>4. \A t \in DOMAIN topic_refcounts' : topic_refcounts'[t] \in Nat \ {0}
  BY <1>1, <1>2, <1>3 DEF TopicRefcount
<1>5. topic_refcounts' \in [DOMAIN topic_refcounts' -> Nat \ {0}]
  BY <1>1, <1>2, <1>4
<1>6. ASSUME NEW t \in Topics
      PROVE  TopicRefcount(t)' = IF t \in S /\ t \in DOMAIN topic_refcounts
                                 THEN TopicRefcount(t) - 1
                                 ELSE TopicRefcount(t)
  <2>1. CASE t \in emptied
    BY <2>1, <1>1, <1>2, <1>3 DEF TopicRefcount
  <2>2. CASE t \notin emptied
    BY <2>2, <1>1, <1>2, <1>3 DEF TopicRefcount
  <2>3. QED
    BY <2>1, <2>2
<1>7. QED
  BY <1>2, <1>5, <1>6

\* Registering an id that holds nothing changes no set of holders.
LEMMA RegisterKeepsInv ==
  ASSUME RegistryInv, NEW c \in Consumers, RegisterConsumer(c)
  PROVE  RegistryInv'
<1> USE DEF RegistryInv
<1>1. RegistryTypeOK'
  BY DEF RegistryTypeOK, RegisterConsumer, WithEntry
<1>2. \A t \in Topics : Holders(t)' = Holders(t)
  BY DEF Holders, RegisterConsumer, WithEntry
<1>3. RefcountsExact'
  BY <1>2 DEF RefcountsExact, RegisterConsumer, TopicRefcount
<1>4. QED
  BY <1>1, <1>3

\* Every topic of the dropped consumer loses exactly that holder.
LEMMA UnregisterKeepsInv ==
  ASSUME RegistryInv, NEW c \in Consumers, UnregisterConsumer(c)
  PROVE  RegistryInv'
<1> USE DEF RegistryInv
<1>1. CASE c \notin DOMAIN consumers
  BY <1>1 DEF UnregisterConsumer, registryVars, RegistryTypeOK, RefcountsExact,
              Holders, TopicRefcount
<1>2. CASE c \in DOMAIN consumers
  <2>1. /\ consumers' = WithoutKeys(consumers, {c})
        /\ DecrementTopicRefcounts(consumers[c])
        /\ consumers[c] \in SUBSET Topics
    BY <1>2 DEF UnregisterConsumer, RegistryTypeOK
  <2>2. RegistryTypeOK'
    BY <2>1, DecrementEffect DEF RegistryTypeOK, WithoutKeys
  <2>3. ASSUME NEW t \in Topics
        PROVE  TopicRefcount(t)' = Cardinality(Holders(t)')
    <3>1. Holders(t)' = Holders(t) \ {c}
      BY <2>1 DEF Holders, WithoutKeys
    <3>2. c \in Holders(t) <=> t \in consumers[c]
      BY <1>2 DEF Holders
    <3>3. IsFiniteSet(Holders(t)) /\ Cardinality(Holders(t)) \in Nat
      BY HoldersFinite
    <3>4. TopicRefcount(t) = Cardinality(Holders(t))
      BY DEF RefcountsExact
    <3>5. t \in consumers[c] => t \in DOMAIN topic_refcounts
      <4>1. t \in consumers[c] => Holders(t) # {}
        BY <3>2
      <4>2. Holders(t) # {} => Cardinality(Holders(t)) # 0
        BY <3>3, FS_EmptySet
      <4>3. QED
        BY <4>1, <4>2, <3>4 DEF TopicRefcount
    <3>6. Cardinality(Holders(t) \ {c}) =
            IF c \in Holders(t) THEN Cardinality(Holders(t)) - 1
                                ELSE Cardinality(Holders(t))
      BY <3>3, FS_RemoveElement
    <3>7. TopicRefcount(t)' = IF t \in consumers[c] /\ t \in DOMAIN topic_refcounts
                              THEN TopicRefcount(t) - 1
                              ELSE TopicRefcount(t)
      BY <2>1, DecrementEffect
    <3>8. QED
      BY <3>1, <3>2, <3>4, <3>5, <3>6, <3>7
  <2>4. QED
    BY <2>2, <2>3 DEF RefcountsExact
<1>3. QED
  BY <1>1, <1>2

\* A new pair adds one holder and one count, a repeated one changes nothing.
LEMMA SubscribeKeepsInv ==
  ASSUME RegistryInv, NEW c \in Consumers, NEW t \in Topics, Subscribe(c, t)
  PROVE  RegistryInv'
<1> USE DEF RegistryInv
<1>1. CASE t \in consumers[c]
  BY <1>1 DEF Subscribe, registryVars, RegistryTypeOK, RefcountsExact,
              Holders, TopicRefcount
<1>2. CASE t \notin consumers[c]
  <2>1. /\ c \in DOMAIN consumers
        /\ consumers' = WithEntry(consumers, c, consumers[c] \cup {t})
        /\ topic_refcounts' = WithEntry(topic_refcounts, t, TopicRefcount(t) + 1)
    BY <1>2 DEF Subscribe, IncrementTopicRefcount
  <2>2. TopicRefcount(t) \in Nat
    BY TopicRefcountType
  <2>3. RegistryTypeOK'
    BY <2>1, <2>2 DEF RegistryTypeOK, WithEntry
  <2>4. ASSUME NEW u \in Topics
        PROVE  TopicRefcount(u)' = Cardinality(Holders(u)')
    <3>1. IsFiniteSet(Holders(u)) /\ Cardinality(Holders(u)) \in Nat
      BY HoldersFinite
    <3>2. TopicRefcount(u) = Cardinality(Holders(u))
      BY DEF RefcountsExact
    <3>3. CASE u = t
      <4>1. Holders(u)' = Holders(u) \cup {c} /\ c \notin Holders(u)
        BY <2>1, <1>2, <3>3 DEF Holders, WithEntry
      <4>2. Cardinality(Holders(u)') = Cardinality(Holders(u)) + 1
        BY <4>1, <3>1, FS_AddElement
      <4>3. TopicRefcount(u)' = TopicRefcount(u) + 1
        BY <2>1, <3>3 DEF TopicRefcount, WithEntry
      <4>4. QED
        BY <4>2, <4>3, <3>2
    <3>4. CASE u # t
      <4>1. Holders(u)' = Holders(u)
        BY <2>1, <3>4 DEF Holders, WithEntry
      <4>2. TopicRefcount(u)' = TopicRefcount(u)
        BY <2>1, <3>4 DEF TopicRefcount, WithEntry
      <4>3. QED
        BY <4>1, <4>2, <3>2
    <3>5. QED
      BY <3>3, <3>4
  <2>5. QED
    BY <2>3, <2>4 DEF RefcountsExact
<1>3. QED
  BY <1>1, <1>2

\* A held pair loses one holder and one count, an absent one changes nothing.
LEMMA UnsubscribeKeepsInv ==
  ASSUME RegistryInv, NEW c \in Consumers, NEW t \in Topics, Unsubscribe(c, t)
  PROVE  RegistryInv'
<1> USE DEF RegistryInv
<1>1. CASE ~(c \in DOMAIN consumers /\ t \in consumers[c])
  BY <1>1 DEF Unsubscribe, registryVars, RegistryTypeOK, RefcountsExact,
              Holders, TopicRefcount
<1>2. CASE c \in DOMAIN consumers /\ t \in consumers[c]
  <2>1. /\ consumers' = WithEntry(consumers, c, consumers[c] \ {t})
        /\ DecrementTopicRefcounts({t})
    BY <1>2 DEF Unsubscribe
  <2>2. RegistryTypeOK'
    BY <1>2, <2>1, DecrementEffect DEF RegistryTypeOK, WithEntry
  <2>3. ASSUME NEW u \in Topics
        PROVE  TopicRefcount(u)' = Cardinality(Holders(u)')
    <3>1. IsFiniteSet(Holders(u)) /\ Cardinality(Holders(u)) \in Nat
      BY HoldersFinite
    <3>2. TopicRefcount(u) = Cardinality(Holders(u))
      BY DEF RefcountsExact
    <3>3. TopicRefcount(u)' = IF u \in {t} /\ u \in DOMAIN topic_refcounts
                              THEN TopicRefcount(u) - 1 ELSE TopicRefcount(u)
      BY <2>1, DecrementEffect
    <3>4. CASE u = t
      <4>1. Holders(u)' = Holders(u) \ {c} /\ c \in Holders(u)
        BY <2>1, <1>2, <3>4 DEF Holders, WithEntry
      <4>2. Cardinality(Holders(u)') = Cardinality(Holders(u)) - 1
        BY <4>1, <3>1, FS_RemoveElement
      <4>3. Cardinality(Holders(u)) # 0
        BY <4>1, <3>1, FS_EmptySet
      <4>4. u \in DOMAIN topic_refcounts
        BY <4>3, <3>2 DEF TopicRefcount
      <4>5. QED
        BY <4>2, <4>4, <3>2, <3>3, <3>4
    <3>5. CASE u # t
      <4>1. Holders(u)' = Holders(u)
        BY <2>1, <1>2, <3>5 DEF Holders, WithEntry
      <4>2. QED
        BY <4>1, <3>2, <3>3, <3>5
    <3>6. QED
      BY <3>4, <3>5
  <2>4. QED
    BY <2>2, <2>3 DEF RefcountsExact
<1>3. QED
  BY <1>1, <1>2

\* In every reachable state the tables are well formed and each count is the
\* number of consumers that hold the topic.
THEOREM RegistryInvariant == RegistrySpec => []RegistryInv
<1>1. RegistryInit => RegistryInv
  <2> SUFFICES ASSUME RegistryInit PROVE RegistryInv
    OBVIOUS
  <2>1. \A t \in Topics : Holders(t) = {} /\ TopicRefcount(t) = 0
    BY DEF RegistryInit, Holders, TopicRefcount
  <2>2. RefcountsExact
    BY <2>1, FS_EmptySet DEF RefcountsExact
  <2>3. RegistryTypeOK
    BY DEF RegistryInit, RegistryTypeOK
  <2>4. QED
    BY <2>2, <2>3 DEF RegistryInv
<1>2. RegistryInv /\ [RegistryNext]_registryVars => RegistryInv'
  <2> SUFFICES ASSUME RegistryInv, [RegistryNext]_registryVars
               PROVE  RegistryInv'
    OBVIOUS
  <2>1. ASSUME NEW c \in Consumers, RegisterConsumer(c) PROVE RegistryInv'
    BY <2>1, RegisterKeepsInv
  <2>2. ASSUME NEW c \in Consumers, UnregisterConsumer(c) PROVE RegistryInv'
    BY <2>2, UnregisterKeepsInv
  <2>3. ASSUME NEW c \in Consumers, NEW t \in Topics, Subscribe(c, t)
        PROVE  RegistryInv'
    BY <2>3, SubscribeKeepsInv
  <2>4. ASSUME NEW c \in Consumers, NEW t \in Topics, Unsubscribe(c, t)
        PROVE  RegistryInv'
    BY <2>4, UnsubscribeKeepsInv
  <2>5. CASE UNCHANGED registryVars
    BY <2>5 DEF registryVars, RegistryInv, RegistryTypeOK, RefcountsExact,
                Holders, TopicRefcount
  <2>6. QED
    BY <2>1, <2>2, <2>3, <2>4, <2>5 DEF RegistryNext
<1>3. QED
  BY <1>1, <1>2, PTL DEF RegistrySpec

\* The refcount the WebSocket handlers compare before and after a call is the
\* number of consumers that hold the topic, for any number of consumers.
THEOREM RefcountsAlwaysExact == RegistrySpec => []RefcountsExact
<1>1. RegistryInv => RefcountsExact
  BY DEF RegistryInv
<1>2. QED
  BY RegistryInvariant, <1>1, PTL

-----------------------------------------------------------------------------
\* Adding or removing one consumer moves the number of holders by one.
LEMMA OneHolder ==
  ASSUME NEW H, NEW G, NEW c, IsFiniteSet(H),
         G \in {H, H \cup {c}, H \ {c}}
  PROVE  Cardinality(G) - Cardinality(H) \in {-1, 0, 1}
<1>1. Cardinality(H) \in Nat
  BY FS_CardinalityType
<1>2. Cardinality(H \cup {c}) - Cardinality(H) \in {0, 1}
  BY <1>1, FS_AddElement
<1>3. Cardinality(H \ {c}) - Cardinality(H) \in {-1, 0}
  BY <1>1, FS_RemoveElement
<1>4. QED
  BY <1>1, <1>2, <1>3

\* No call makes or ends the demand of more than one consumer.
LEMMA OneConsumerPerStep ==
  ASSUME RegistryInv, [RegistryNext]_registryVars
  PROVE  \E c : \A t \in Topics :
           Holders(t)' \in {Holders(t), Holders(t) \cup {c}, Holders(t) \ {c}}
<1>1. CASE UNCHANGED registryVars
  BY <1>1 DEF registryVars, Holders
<1>2. ASSUME NEW c \in Consumers, RegisterConsumer(c)
      PROVE  \A t \in Topics : Holders(t)' = Holders(t)
  BY <1>2 DEF RegisterConsumer, WithEntry, Holders
<1>3. ASSUME NEW c \in Consumers, UnregisterConsumer(c), NEW t \in Topics
      PROVE  Holders(t)' \in {Holders(t), Holders(t) \ {c}}
  <2>1. CASE UNCHANGED registryVars
    BY <1>1, <2>1 DEF registryVars, Holders
  <2>2. CASE consumers' = WithoutKeys(consumers, {c})
    <3>1. Holders(t)' = Holders(t) \ {c}
      BY <2>2 DEF WithoutKeys, Holders
    <3>2. QED
      BY <3>1
  <2>3. QED
    BY <1>3, <2>1, <2>2 DEF UnregisterConsumer
<1>4. ASSUME NEW c \in Consumers, NEW u \in Topics, Subscribe(c, u), NEW t \in Topics
      PROVE  Holders(t)' \in {Holders(t), Holders(t) \cup {c}}
  <2>1. CASE UNCHANGED registryVars
    BY <1>1, <2>1 DEF registryVars, Holders
  <2>2. CASE c \in DOMAIN consumers /\ consumers' = WithEntry(consumers, c, consumers[c] \cup {u})
    <3>1. Holders(t)' = IF t = u THEN Holders(t) \cup {c} ELSE Holders(t)
      BY <2>2 DEF WithEntry, Holders
    <3>2. QED
      BY <3>1
  <2>3. QED
    BY <1>4, <2>1, <2>2 DEF Subscribe
<1>5. ASSUME NEW c \in Consumers, NEW u \in Topics, Unsubscribe(c, u), NEW t \in Topics
      PROVE  Holders(t)' \in {Holders(t), Holders(t) \ {c}}
  <2>1. CASE UNCHANGED registryVars
    BY <1>1, <2>1 DEF registryVars, Holders
  <2>2. CASE c \in DOMAIN consumers /\ consumers' = WithEntry(consumers, c, consumers[c] \ {u})
    <3>1. Holders(t)' = IF t = u THEN Holders(t) \ {c} ELSE Holders(t)
      BY <2>2 DEF WithEntry, Holders
    <3>2. QED
      BY <3>1
  <2>3. QED
    BY <1>5, <2>1, <2>2 DEF Unsubscribe
<1>6. CASE \E c \in Consumers : \A t \in Topics :
             Holders(t)' \in {Holders(t), Holders(t) \cup {c}, Holders(t) \ {c}}
  BY <1>6
<1>7. QED
  BY <1>1, <1>2, <1>3, <1>4, <1>5, <1>6 DEF RegistryNext

\* The count of a topic moves by at most one, and only with the demand of one
\* consumer, for any number of consumers.
THEOREM DemandMovesOneByOne == RegistrySpec => OneStepDemand
<1> DEFINE Step ==
      \A t \in Topics : /\ TopicRefcount(t)' - TopicRefcount(t) \in {-1, 0, 1}
                        /\ TopicRefcount(t)' # TopicRefcount(t)
                             => Cardinality({c \in Consumers :
                                  (c \in Holders(t)) # (c \in Holders(t))'}) = 1
<1>1. RegistryInv /\ RegistryInv' /\ [RegistryNext]_registryVars => Step
  <2> SUFFICES ASSUME RegistryInv, RegistryInv', [RegistryNext]_registryVars, NEW t \in Topics
               PROVE  /\ TopicRefcount(t)' - TopicRefcount(t) \in {-1, 0, 1}
                      /\ TopicRefcount(t)' # TopicRefcount(t)
                           => Cardinality({c \in Consumers :
                                (c \in Holders(t)) # (c \in Holders(t))'}) = 1
    OBVIOUS
  <2>1. PICK x : Holders(t)' \in {Holders(t), Holders(t) \cup {x}, Holders(t) \ {x}}
    BY OneConsumerPerStep
  <2>2. /\ TopicRefcount(t) = Cardinality(Holders(t))
        /\ TopicRefcount(t)' = Cardinality(Holders(t)')
        /\ IsFiniteSet(Holders(t)) /\ Holders(t) \subseteq Consumers
        /\ Holders(t)' \subseteq Consumers
    BY HoldersFinite DEF RegistryInv, RefcountsExact, RegistryTypeOK, Holders
  <2>3. TopicRefcount(t)' - TopicRefcount(t) \in {-1, 0, 1}
    BY <2>1, <2>2, OneHolder
  <2>4. ASSUME TopicRefcount(t)' # TopicRefcount(t)
        PROVE  Cardinality({c \in Consumers : (c \in Holders(t)) # (c \in Holders(t))'}) = 1
    <3>1. Holders(t)' # Holders(t)
      BY <2>2, <2>4
    <3>2. {c \in Consumers : (c \in Holders(t)) # (c \in Holders(t))'} = {x}
      BY <2>1, <2>2, <3>1
    <3>3. QED
      BY <3>2, FS_Singleton
  <2>5. QED
    BY <2>3, <2>4
<1>2. QED
  BY <1>1, RegistryInvariant, PTL DEF RegistrySpec, OneStepDemand

\* Ids, topics and positive counts only, whatever is called in whatever order.
THEOREM RegistryAlwaysTyped == RegistrySpec => []RegistryTypeOK
<1>1. RegistryInv => RegistryTypeOK
  BY DEF RegistryInv
<1>2. QED
  BY RegistryInvariant, <1>1, PTL
=============================================================================
