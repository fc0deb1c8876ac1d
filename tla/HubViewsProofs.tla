---------------------------- MODULE HubViewsProofs ----------------------------
(***************************************************************************)
(* What the hub tells agrees with what it keeps and with what else it      *)
(* tells, for any number of consumers and topics and any prices: the views *)
(* are over a registry that behaves as its specification says, so its      *)
(* exact counts (RegistryInv) carry over to every answer.                  *)
(***************************************************************************)
EXTENDS HubViews, ConnectionRegistryProofs, WellFoundedInduction

(***************************************************************************)
(* Sums over a table.  The sum of the sizes of the sets P[x] is the number *)
(* of the pairs of an x and a member of P[x].                              *)
(***************************************************************************)
Pairs(P, T) == UNION {{x} \X P[x] : x \in T}

\* Induction over the subsets of a finite set, with a set in place of a predicate.
LEMMA SubsetInduction ==
  ASSUME NEW S, IsFiniteSet(S), NEW G,
         \A T \in SUBSET S : (\A U \in SUBSET T : U # T => U \in G) => T \in G
  PROVE  \A T \in SUBSET S : T \in G
<1>1. IsWellFoundedOn(StrictSubsetOrdering(S), SUBSET S)
  BY FS_StrictSubsetOrderingWellFounded, FS_FiniteSubsetsOfFinite
<1> DEFINE B == (SUBSET S) \ G
<1>2. SUFFICES ASSUME B # {} PROVE FALSE
  OBVIOUS
<1>3. B \subseteq SUBSET S
  OBVIOUS
<1> HIDE DEF B
<1>4. PICK T \in B : \A U \in B : ~(<<U, T>> \in StrictSubsetOrdering(S))
  BY <1>1, <1>2, <1>3, WFMin
<1> USE DEF B
<1>5. \A U \in SUBSET T : U # T => U \in G
  BY <1>4 DEF StrictSubsetOrdering
<1>6. QED
  BY <1>4, <1>5

LEMMA PairsFinite ==
  ASSUME NEW P, NEW T, IsFiniteSet(T), \A x \in T : IsFiniteSet(P[x])
  PROVE  IsFiniteSet(Pairs(P, T))
<1> DEFINE R == {{x} \X P[x] : x \in T}
           f == [x \in T |-> {x} \X P[x]]
<1>1. f \in Surjection(T, R)
  BY DEF Surjection
<1>2. IsFiniteSet(R)
  BY <1>1, FS_Surjection
<1>3. ASSUME NEW r \in R PROVE IsFiniteSet(r)
  <2>1. PICK x \in T : r = {x} \X P[x]
    OBVIOUS
  <2>2. IsFiniteSet({x}) /\ IsFiniteSet(P[x])
    BY FS_Singleton
  <2>3. QED
    BY <2>1, <2>2, FS_Product
<1>4. QED
  BY <1>2, <1>3, FS_UNION DEF Pairs

\* The pairs of one more key.
LEMMA PairsOfOneMore ==
  ASSUME NEW P, NEW T, IsFiniteSet(T), \A x \in T : IsFiniteSet(P[x]), NEW x \in T
  PROVE  Cardinality(Pairs(P, T)) = Cardinality(P[x]) + Cardinality(Pairs(P, T \ {x}))
<1> DEFINE A == {x} \X P[x]
           B == Pairs(P, T \ {x})
<1>1. Pairs(P, T) = A \cup B /\ A \cap B = {}
  BY DEF Pairs
<1>2. IsFiniteSet({x}) /\ Cardinality({x}) = 1 /\ IsFiniteSet(P[x]) /\ Cardinality(P[x]) \in Nat
  BY FS_Singleton, FS_CardinalityType
<1>3. IsFiniteSet(A) /\ Cardinality(A) = Cardinality({x}) * Cardinality(P[x])
  BY <1>2, FS_Product, Zenon
<1>4. Cardinality(A) = Cardinality(P[x])
  BY <1>2, <1>3
<1>5. IsFiniteSet(T \ {x})
  BY FS_RemoveElement
<1>6. IsFiniteSet(B)
  BY <1>5, PairsFinite
<1>7. Cardinality(A \cap B) = 0 /\ Cardinality(A) \in Nat /\ Cardinality(B) \in Nat
  BY <1>1, <1>3, <1>6, FS_EmptySet, FS_CardinalityType
<1> HIDE DEF A, B
<1>8. Cardinality(A \cup B) = Cardinality(A) + Cardinality(B) - Cardinality(A \cap B)
  BY <1>3, <1>6, FS_Union
<1>9. Cardinality(Pairs(P, T)) = Cardinality(P[x]) + Cardinality(B)
  BY <1>1, <1>4, <1>7, <1>8
<1>10. QED
  BY <1>9 DEF B

LEMMA SumIsPairs ==
  ASSUME NEW S, IsFiniteSet(S), NEW f, NEW P,
         \A x \in S : IsFiniteSet(P[x]) /\ f[x] = Cardinality(P[x])
  PROVE  MapThenSumSet(LAMBDA x : f[x], S) = Cardinality(Pairs(P, S))
<1> DEFINE first(T) == CHOOSE x \in T : TRUE
           unfolds(g) == g = [T \in SUBSET S |-> IF T = {} THEN 0
                                                 ELSE f[first(T)] + g[T \ {first(T)}]]
           sum == [T \in SUBSET S |-> Cardinality(Pairs(P, T))]
           it == CHOOSE g : unfolds(g)
<1>1. ASSUME NEW T \in SUBSET S, T # {}
      PROVE  first(T) \in T /\ T \ {first(T)} \in SUBSET S
             /\ sum[T] = f[first(T)] + sum[T \ {first(T)}]
  <2>1. first(T) \in T
    BY <1>1
  <2> HIDE DEF first
  <2>2. IsFiniteSet(T)
    BY FS_Subset
  <2>3. Cardinality(Pairs(P, T)) =
          Cardinality(P[first(T)]) + Cardinality(Pairs(P, T \ {first(T)}))
    BY <2>1, <2>2, PairsOfOneMore
  <2>4. QED
    BY <2>1, <2>3
<1>2. sum[{}] = 0
  <2>1. Pairs(P, {}) = {}
    BY DEF Pairs
  <2>2. QED
    BY <2>1, FS_EmptySet
<1>3. unfolds(sum)
  <2>1. \A T \in SUBSET S : sum[T] = IF T = {} THEN 0 ELSE f[first(T)] + sum[T \ {first(T)}]
    BY <1>1, <1>2
  <2>2. sum = [T \in SUBSET S |-> sum[T]]
    OBVIOUS
  <2> HIDE DEF first, sum
  <2>3. QED
    BY <2>1, <2>2
<1> HIDE DEF sum
<1>4. unfolds(it)
  <2> HIDE DEF unfolds
  <2>1. QED
    BY <1>3
<1> HIDE DEF it, first
<1>5. \A T \in SUBSET S : it[T] = IF T = {} THEN 0 ELSE f[first(T)] + it[T \ {first(T)}]
  BY <1>4
<1> DEFINE G == {T \in SUBSET S : it[T] = sum[T]}
<1>6. ASSUME NEW T \in SUBSET S, \A U \in SUBSET T : U # T => U \in G
      PROVE  T \in G
  <2>1. CASE T = {}
    BY <1>2, <1>5, <2>1
  <2>2. CASE T # {}
    <3>1. T \ {first(T)} \in G
      BY <1>1, <1>6, <2>2
    <3>2. QED
      BY <1>1, <1>5, <2>2, <3>1
  <2>3. QED
    BY <2>1, <2>2
<1>7. S \in G
  <2> HIDE DEF G
  <2>1. QED
    BY <1>6, SubsetInduction
<1>8. MapThenSumSet(LAMBDA x : f[x], S) = it[S]
  BY DEF MapThenSumSet, MapThenFoldSet, it, first
<1>9. QED
  BY <1>7, <1>8 DEF sum

-----------------------------------------------------------------------------
(***************************************************************************)
(* The registry under the views.                                           *)
(***************************************************************************)
LEMMA ViewsRunRegistry == ViewsSpec => RegistrySpec
<1>1. ViewsInit => RegistryInit
  BY DEF ViewsInit
<1>2. [ViewsNext]_viewVars => [RegistryNext]_registryVars
  <2> SUFFICES ASSUME [ViewsNext]_viewVars PROVE [RegistryNext]_registryVars
    OBVIOUS
  <2>1. CASE Downstream
    BY <2>1 DEF Downstream
  <2>2. ASSUME NEW t \in Topics, Upstream(t) \/ Event(t)
        PROVE  UNCHANGED registryVars
    BY <2>2 DEF Upstream, Event
  <2>3. CASE ClockSet \/ UNCHANGED viewVars
    BY <2>3 DEF ClockSet, viewVars
  <2>4. QED
    BY <2>1, <2>2, <2>3 DEF ViewsNext
<1>3. QED
  BY <1>1, <1>2, PTL DEF ViewsSpec, RegistrySpec

\* Behind every answer the two tables of the registry agree, and one step moves
\* the demand of a topic by one consumer at most.
THEOREM ViewsRegistryInvariant == ViewsSpec => [](RegistryInv /\ RegistryTypeOK /\ RefcountsExact)
<1>1. RegistryInv => RegistryTypeOK /\ RefcountsExact
  BY DEF RegistryInv
<1>2. QED
  BY <1>1, ViewsRunRegistry, RegistryInvariant, PTL

\* Between two answers the count of a topic moves with one consumer at a time.
THEOREM ViewsDemandMovesOneByOne == ViewsSpec => OneStepDemand
BY ViewsRunRegistry, DemandMovesOneByOne

(***************************************************************************)
(* The tables start empty and a step adds at most one key to one of them,  *)
(* so they stay finite, whatever the set of topics.                        *)
(***************************************************************************)
TablesInv ==
  /\ IsFiniteSet(DOMAIN topic_refcounts)
  /\ DOMAIN rows \subseteq Topics /\ IsFiniteSet(DOMAIN rows)
  /\ upstream_topics \subseteq Topics /\ IsFiniteSet(upstream_topics)

LEMMA RegistryStepKeepsFinite ==
  ASSUME IsFiniteSet(DOMAIN topic_refcounts), [RegistryNext]_registryVars
  PROVE  IsFiniteSet(DOMAIN topic_refcounts')
<1>1. ASSUME NEW S, DecrementTopicRefcounts(S)
      PROVE  DOMAIN topic_refcounts' \subseteq DOMAIN topic_refcounts
  BY <1>1 DEF DecrementTopicRefcounts
<1>2. CASE DOMAIN topic_refcounts' \subseteq DOMAIN topic_refcounts
  BY <1>2, FS_Subset
<1>3. CASE UNCHANGED registryVars
  BY <1>3 DEF registryVars
<1>4. ASSUME NEW c \in Consumers, RegisterConsumer(c)
      PROVE  IsFiniteSet(DOMAIN topic_refcounts')
  BY <1>4 DEF RegisterConsumer
<1>5. ASSUME NEW c \in Consumers, UnregisterConsumer(c)
      PROVE  IsFiniteSet(DOMAIN topic_refcounts')
  BY <1>1, <1>2, <1>3, <1>5 DEF UnregisterConsumer
<1>6. ASSUME NEW c \in Consumers, NEW t \in Topics, Subscribe(c, t)
      PROVE  IsFiniteSet(DOMAIN topic_refcounts')
  <2>1. CASE IncrementTopicRefcount(t)
    <3>1. DOMAIN topic_refcounts' = DOMAIN topic_refcounts \cup {t}
      BY <2>1 DEF IncrementTopicRefcount, WithEntry
    <3>2. QED
      BY <3>1, FS_AddElement
  <2>2. QED
    BY <1>3, <1>6, <2>1 DEF Subscribe
<1>7. ASSUME NEW c \in Consumers, NEW t \in Topics, Unsubscribe(c, t)
      PROVE  IsFiniteSet(DOMAIN topic_refcounts')
  BY <1>1, <1>2, <1>3, <1>7 DEF Unsubscribe
<1>8. QED
  BY <1>3, <1>4, <1>5, <1>6, <1>7 DEF RegistryNext

LEMMA ViewsStepKeepsTables ==
  ASSUME TablesInv, [ViewsNext]_viewVars
  PROVE  TablesInv' /\ DOMAIN rows \subseteq DOMAIN rows'
<1> USE DEF TablesInv
<1>1. CASE Downstream
  BY <1>1, RegistryStepKeepsFinite DEF Downstream
<1>2. ASSUME NEW t \in Topics, Upstream(t)
      PROVE  TablesInv' /\ DOMAIN rows \subseteq DOMAIN rows'
  <2>1. /\ upstream_topics' = upstream_topics \cup {t} \/ upstream_topics' = upstream_topics \ {t}
        /\ UNCHANGED <<topic_refcounts, rows>>
    BY <1>2 DEF Upstream, registryVars
  <2>2. IsFiniteSet(upstream_topics')
    BY <2>1, FS_AddElement, FS_RemoveElement
  <2>3. QED
    BY <2>1, <2>2
<1>3. ASSUME NEW t \in Topics, Event(t)
      PROVE  TablesInv' /\ DOMAIN rows \subseteq DOMAIN rows'
  <2>1. DOMAIN rows' = DOMAIN rows \cup {t} /\ UNCHANGED <<topic_refcounts, upstream_topics>>
    BY <1>3 DEF Event, Store!ApplyEvent, registryVars
  <2>2. QED
    BY <2>1, FS_AddElement
<1>4. CASE ClockSet \/ UNCHANGED viewVars
  BY <1>4 DEF ClockSet, viewVars, registryVars
<1>5. QED
  BY <1>1, <1>2, <1>3, <1>4 DEF ViewsNext

\* However many topics there are, an answer is made of finitely many entries.
THEOREM TablesInvariant == ViewsSpec => []TablesInv
<1>1. ViewsInit => TablesInv
  <2> SUFFICES ASSUME ViewsInit PROVE TablesInv
    OBVIOUS
  <2>1. DOMAIN topic_refcounts = {} /\ DOMAIN rows = {} /\ upstream_topics = {}
    BY DEF ViewsInit, RegistryInit, Store!StoreInit
  <2>2. QED
    BY <2>1, FS_EmptySet DEF TablesInv
<1>2. QED
  BY <1>1, ViewsStepKeepsTables, PTL DEF ViewsSpec

(***************************************************************************)
(* Both sums of /status count the pairs of a consumer and a topic, one by  *)
(* topic, the other by consumer.                                           *)
(***************************************************************************)
HoldersTable == [t \in DOMAIN topic_refcounts |-> Holders(t)]

\* A topic that a consumer lists has a count.
LEMMA HolderListed ==
  ASSUME RegistryInv, NEW c \in DOMAIN consumers, NEW t \in consumers[c]
  PROVE  t \in DOMAIN topic_refcounts /\ c \in Holders(t)
<1>1. t \in Topics /\ c \in Holders(t)
  BY DEF RegistryInv, RegistryTypeOK, Holders
<1>2. TopicRefcount(t) = Cardinality(Holders(t)) /\ IsFiniteSet(Holders(t))
  BY <1>1, HoldersFinite DEF RegistryInv, RefcountsExact
<1>3. TopicRefcount(t) # 0
  BY <1>1, <1>2, FS_EmptySet
<1>4. QED
  BY <1>1, <1>3 DEF TopicRefcount

LEMMA PairsBySide ==
  ASSUME RegistryInv, IsFiniteSet(DOMAIN topic_refcounts)
  PROVE  Cardinality(Pairs(HoldersTable, DOMAIN topic_refcounts))
           = Cardinality(Pairs(consumers, DOMAIN consumers))
<1> DEFINE A == Pairs(HoldersTable, DOMAIN topic_refcounts)
           B == Pairs(consumers, DOMAIN consumers)
           f == [p \in A |-> <<p[2], p[1]>>]
<1>1. \A p : p \in A <=> \E t \in DOMAIN topic_refcounts : \E c \in Holders(t) : p = <<t, c>>
  BY DEF Pairs, HoldersTable
<1>2. \A p : p \in B <=> \E c \in DOMAIN consumers : \E t \in consumers[c] : p = <<c, t>>
  BY DEF Pairs
<1>3. \A c \in DOMAIN consumers : \A t \in consumers[c] :
        t \in DOMAIN topic_refcounts /\ c \in Holders(t)
  BY HolderListed
<1>4. f \in Bijection(A, B)
  <2> HIDE DEF A, B
  <2>1. f \in [A -> B]
    BY <1>1, <1>2 DEF Holders
  <2>2. \A p, q \in A : f[p] = f[q] => p = q
    BY <1>1
  <2>3. \A q \in B : \E p \in A : f[p] = q
    <3> SUFFICES ASSUME NEW q \in B PROVE \E p \in A : f[p] = q
      OBVIOUS
    <3>1. PICK c \in DOMAIN consumers : \E t \in consumers[c] : q = <<c, t>>
      BY <1>2
    <3>2. PICK t \in consumers[c] : q = <<c, t>>
      BY <3>1
    <3>3. <<t, c>> \in A
      BY <1>1, <1>3
    <3>4. QED
      BY <3>2, <3>3
  <2>4. QED
    BY <2>1, <2>2, <2>3 DEF Bijection, Injection, Surjection, IsInjective
<1>5. IsFiniteSet(A)
  <2>1. \A t \in DOMAIN topic_refcounts : IsFiniteSet(HoldersTable[t])
    BY HoldersFinite DEF RegistryInv, RegistryTypeOK, HoldersTable
  <2>2. QED
    BY <2>1, PairsFinite
<1>6. QED
  BY <1>4, <1>5, FS_Bijection DEF ExistsBijection

\* The numbers of one /status add up: its pairs are as many as its consumers
\* list, its active topics are those they list.
THEOREM StatusAlwaysAddsUp == ViewsSpec => []StatusAddsUp
<1>1. RegistryInv /\ TablesInv => StatusAddsUp
  <2> SUFFICES ASSUME RegistryInv, TablesInv PROVE StatusAddsUp
    OBVIOUS
  <2>1. \A t \in DOMAIN topic_refcounts :
          /\ t \in Topics /\ topic_refcounts[t] \in Nat \ {0}
          /\ IsFiniteSet(Holders(t)) /\ topic_refcounts[t] = Cardinality(Holders(t))
    BY HoldersFinite DEF RegistryInv, RegistryTypeOK, RefcountsExact, TopicRefcount
  <2>2. MapThenSumSet(LAMBDA t : topic_refcounts[t], DOMAIN topic_refcounts)
          = Cardinality(Pairs(HoldersTable, DOMAIN topic_refcounts))
    BY <2>1, SumIsPairs DEF TablesInv, HoldersTable
  <2>3. @ = Cardinality(UNION {{c} \X consumers[c] : c \in DOMAIN consumers})
    BY PairsBySide DEF TablesInv, Pairs
  <2>4. \A t : t \in DOMAIN topic_refcounts <=> \E c \in DOMAIN consumers : t \in consumers[c]
    <3>1. ASSUME NEW c \in DOMAIN consumers, NEW t \in consumers[c]
          PROVE  t \in DOMAIN topic_refcounts
      BY HolderListed
    <3>2. ASSUME NEW t \in DOMAIN topic_refcounts
          PROVE  \E c \in DOMAIN consumers : t \in consumers[c]
      BY <2>1, FS_EmptySet DEF Holders
    <3>3. QED
      BY <3>1, <3>2
  <2>5. {t \in DOMAIN topic_refcounts : topic_refcounts[t] > 0} = DOMAIN topic_refcounts
    BY <2>1
  <2>6. DOMAIN topic_refcounts = UNION {consumers[c] : c \in DOMAIN consumers}
    BY <2>4
  <2>7. QED
    BY <2>2, <2>3, <2>5, <2>6 DEF StatusAddsUp, GetStatus
<1>2. QED
  BY <1>1, ViewsRegistryInvariant, TablesInvariant, PTL

-----------------------------------------------------------------------------
(***************************************************************************)
(* The catalog.                                                            *)
(***************************************************************************)
Catalog == DOMAIN topic_refcounts \cup DOMAIN rows \cup upstream_topics

Refs(t) == CountIn(GetStatus.topic_reference_counts, t)

\* The snapshot that the catalogs show of a topic, and the entries of each.
Freshness(t) ==
  {[stale |-> s.stale, updated_at |-> s.updated_at] :
     s \in {x \in Store!ListSnapshots : x.topic = t}}

RestEntry(t) ==
  [topic |-> t, registry_refcount |-> Refs(t), active_downstream_demand |-> Refs(t) > 0,
   upstream_desired |-> t \in upstream_topics, snapshot |-> Freshness(t)]

ToolEntry(t) ==
  [topic |-> t, registry_refcount |-> Refs(t), active_downstream_demand |-> Refs(t) > 0,
   upstream_desired |-> t \in upstream_topics, in_default_catalog |-> t \in Defaults,
   snapshot |-> Freshness(t)]

LEMMA EntryFields ==
  ASSUME NEW t
  PROVE  /\ RestEntry(t).topic = t /\ RestEntry(t).snapshot = Freshness(t)
         /\ ToolEntry(t).topic = t /\ ToolEntry(t).snapshot = Freshness(t)
BY DEF RestEntry, ToolEntry

\* Both catalogs are merges of the same three stores.
LEMMA Catalogs ==
  /\ ListTopics = {RestEntry(t) : t \in Catalog}
  /\ ListAvailableTopics.payload = {ToolEntry(t) : t \in Catalog \cup Defaults}
<1>1. GetStatus.topic_reference_counts = topic_refcounts
  BY DEF GetStatus
<1>2. {s.topic : s \in Store!ListSnapshots} = DOMAIN rows
  <2>1. \A t : Store!GetSnapshot(t).topic = t
    BY DEF Store!GetSnapshot
  <2>2. QED
    BY <2>1 DEF Store!ListSnapshots
<1>3. ListTopics = {RestEntry(t) : t \in TopicNames}
  BY DEF ListTopics, RestEntry, Refs, Freshness
<1>4. TopicNames = Catalog
  BY <1>1, <1>2 DEF TopicNames, Catalog
<1>5. DOMAIN GetStatus.topic_reference_counts \cup {s.topic : s \in Store!ListSnapshots}
        \cup upstream_topics \cup Defaults = Catalog \cup Defaults
  BY <1>1, <1>2 DEF Catalog
<1>6. ListAvailableTopics.payload = {ToolEntry(t) : t \in Catalog \cup Defaults}
  BY <1>5 DEF ListAvailableTopics, ToolOk, ToolEntry, Refs, Freshness
<1>7. QED
  BY <1>3, <1>4, <1>6

\* The catalogs show of a topic what its row says, and nothing without a row.
LEMMA FreshnessByRow ==
  ASSUME NEW t
  PROVE  /\ t \in DOMAIN rows => Freshness(t) = {[stale |-> Store!GetSnapshot(t).stale,
                                                  updated_at |-> Store!GetSnapshot(t).updated_at]}
         /\ t \notin DOMAIN rows => Freshness(t) = {}
<1>1. \A u : Store!GetSnapshot(u).topic = u
  BY DEF Store!GetSnapshot
<1>2. {x \in Store!ListSnapshots : x.topic = t} =
        IF t \in DOMAIN rows THEN {Store!GetSnapshot(t)} ELSE {}
  BY <1>1 DEF Store!ListSnapshots
<1>3. QED
  BY <1>2 DEF Freshness

\* A topic has a stale snapshot exactly if its row is too old.
LEMMA StaleByRow ==
  ASSUME NEW t
  PROVE  (\E s \in Freshness(t) : s.stale) <=>
           t \in DOMAIN rows /\ Store!IsStale(rows[t].updated_at)
<1>1. Store!GetSnapshot(t).stale = Store!IsStale(rows[t].updated_at)
  BY DEF Store!GetSnapshot
<1>2. CASE t \in DOMAIN rows
  <2>1. Freshness(t) = {[stale |-> Store!GetSnapshot(t).stale,
                         updated_at |-> Store!GetSnapshot(t).updated_at]}
    BY <1>2, FreshnessByRow
  <2>2. QED
    BY <1>1, <1>2, <2>1
<1>3. CASE t \notin DOMAIN rows
  <2>1. Freshness(t) = {}
    BY <1>3, FreshnessByRow
  <2>2. QED
    BY <1>3, <2>1
<1>4. QED
  BY <1>2, <1>3

\* Every topic another answer tells something about is in the catalog, once and
\* with the same freshness.
THEOREM EveryTopicAlwaysListed == ViewsSpec => []EveryTopicListed
<1>1. RegistryInv /\ TablesInv => EveryTopicListed
  <2> SUFFICES ASSUME RegistryInv, TablesInv PROVE EveryTopicListed
    OBVIOUS
  <2> DEFINE listed == {e.topic : e \in ListTopics}
             staleEntries == {e.topic : e \in {x \in ListTopics : \E s \in x.snapshot : s.stale}}
             staleRows == {s.topic : s \in {x \in Store!ListSnapshots : x.stale}}
             f == [t \in Catalog |-> RestEntry(t)]
  <2>1. ListTopics = {RestEntry(t) : t \in Catalog}
    BY Catalogs
  <2>2. listed = Catalog
    BY <2>1, EntryFields
  <2>3. Cardinality(ListTopics) = Cardinality(Catalog)
    <3>1. \A t, u \in Catalog : f[t] = f[u] => t = u
      BY EntryFields
    <3>2. f \in Bijection(Catalog, ListTopics)
      <4> HIDE DEF RestEntry
      <4>1. f \in [Catalog -> ListTopics]
        BY <2>1
      <4>2. \A e \in ListTopics : \E t \in Catalog : f[t] = e
        BY <2>1
      <4>3. QED
        BY <3>1, <4>1, <4>2 DEF Bijection, Injection, Surjection, IsInjective
    <3>3. IsFiniteSet(Catalog)
      BY FS_Union DEF Catalog, TablesInv
    <3>4. QED
      BY <3>2, <3>3, FS_Bijection DEF ExistsBijection
  <2>4. UNION {consumers[c] : c \in DOMAIN consumers} \subseteq Catalog
    BY HolderListed DEF Catalog
  <2>5. staleEntries = {t \in DOMAIN rows : Store!IsStale(rows[t].updated_at)}
    <3>1. staleEntries = {t \in Catalog : \E s \in Freshness(t) : s.stale}
      BY <2>1, EntryFields
    <3>2. QED
      BY <3>1, StaleByRow DEF Catalog
  <2>6. staleRows = {t \in DOMAIN rows : Store!IsStale(rows[t].updated_at)}
    <3>1. \A t : Store!GetSnapshot(t).topic = t
                 /\ Store!GetSnapshot(t).stale = Store!IsStale(rows[t].updated_at)
      BY DEF Store!GetSnapshot
    <3>2. QED
      BY <3>1 DEF Store!ListSnapshots
  <2>7. /\ HubStatus.coinbase_desired_topics = upstream_topics
        /\ HubStatus.snapshots.stale_topics = staleRows
    BY DEF HubStatus
  <2>8. \A x \in Topics : SnapshotForTopic(x).status = 200 => x \in Catalog
    BY DEF SnapshotForTopic, Catalog
  <2>9. upstream_topics \subseteq Catalog
    BY DEF Catalog
  <2> HIDE DEF listed, staleEntries, staleRows
  <2>10. QED
    BY <2>2, <2>3, <2>4, <2>5, <2>6, <2>7, <2>8, <2>9
       DEF EveryTopicListed, listed, staleEntries
<1>2. QED
  BY <1>1, ViewsRegistryInvariant, TablesInvariant, PTL

-----------------------------------------------------------------------------
(***************************************************************************)
(* The tools.                                                              *)
(***************************************************************************)

\* The tool for a topic's snapshot, called with a product id.
LEMMA SnapshotToolAnswers ==
  ASSUME NEW t \in Topics
  PROVE  HandleTool("get_topic_snapshot", [topic |-> t]) =
           IF t \in DOMAIN rows THEN ToolOk(SnapshotPayload(t)) ELSE NoSnapshotYet(t)
<1>1. RequireStr([topic |-> t]) = t
  BY DEF RequireStr
<1>2. t # NoString
  BY ViewsAssumption
<1>3. HandleTool("get_topic_snapshot", [topic |-> t]) = GetTopicSnapshot(t)
  BY <1>1, <1>2 DEF HandleTool, ToolNames
<1>4. GetTopicSnapshot(t) = IF t \in DOMAIN rows THEN ToolOk(SnapshotPayload(t))
                                                 ELSE NoSnapshotYet(t)
  BY DEF GetTopicSnapshot, ValidTopicId
<1>5. QED
  BY <1>3, <1>4

\* The count of a topic is the number of the consumers that list it, and the
\* topics with a count are the active ones.
LEMMA RefsExact ==
  ASSUME RegistryInv, NEW t
  PROVE  /\ Refs(t) = Cardinality({c \in DOMAIN consumers : t \in consumers[c]})
         /\ (Refs(t) > 0) = (t \in GetStatus.topics_with_active_demand)
<1>1. /\ GetStatus.topic_reference_counts = topic_refcounts
      /\ GetStatus.topics_with_active_demand
           = {u \in DOMAIN topic_refcounts : topic_refcounts[u] > 0}
  BY DEF GetStatus
<1>2. {c \in DOMAIN consumers : t \in consumers[c]} = Holders(t)
  BY DEF Holders
<1>3. CASE t \in Topics
  <2>1. Refs(t) = TopicRefcount(t)
    BY <1>1 DEF Refs, CountIn, TopicRefcount
  <2>2. Refs(t) = Cardinality(Holders(t))
    BY <1>3, <2>1 DEF RegistryInv, RefcountsExact
  <2>3. (Refs(t) > 0) = (t \in {u \in DOMAIN topic_refcounts : topic_refcounts[u] > 0})
    BY <2>1 DEF TopicRefcount
  <2>4. QED
    BY <1>1, <1>2, <2>2, <2>3
<1>4. CASE t \notin Topics
  <2>1. t \notin DOMAIN topic_refcounts /\ Holders(t) = {}
    BY <1>4 DEF RegistryInv, RegistryTypeOK, Holders
  <2>2. Refs(t) = 0
    BY <1>1, <2>1 DEF Refs, CountIn
  <2>3. QED
    BY <1>1, <1>2, <2>1, <2>2, FS_EmptySet
<1>5. QED
  BY <1>3, <1>4

\* An answer built from the counts and the client's set agrees with /status.
LEMMA HintsAgree ==
  ASSUME RegistryInv, NEW a,
         a.registry_refcount = Refs(a.topic),
         a.active_downstream_demand = (Refs(a.topic) > 0),
         a.upstream_desired = (a.topic \in upstream_topics)
  PROVE  AgreesWithStatus(a)
<1>1. HubStatus.registry = GetStatus /\ HubStatus.coinbase_desired_topics = upstream_topics
  BY DEF HubStatus
<1>2. GetStatus.consumers = consumers
  BY DEF GetStatus
<1> HIDE DEF Refs
<1>3. QED
  BY <1>1, <1>2, RefsExact DEF AgreesWithStatus

LEMMA EntriesAgree ==
  ASSUME RegistryInv, NEW t
  PROVE  AgreesWithStatus(RestEntry(t)) /\ AgreesWithStatus(ToolEntry(t))
<1>1. /\ RestEntry(t).registry_refcount = Refs(RestEntry(t).topic)
      /\ RestEntry(t).active_downstream_demand = (Refs(RestEntry(t).topic) > 0)
      /\ RestEntry(t).upstream_desired = (RestEntry(t).topic \in upstream_topics)
  BY DEF RestEntry
<1>2. /\ ToolEntry(t).registry_refcount = Refs(ToolEntry(t).topic)
      /\ ToolEntry(t).active_downstream_demand = (Refs(ToolEntry(t).topic) > 0)
      /\ ToolEntry(t).upstream_desired = (ToolEntry(t).topic \in upstream_topics)
  BY DEF ToolEntry
<1>3. QED
  BY <1>1, <1>2, HintsAgree

\* The four merges of the stores, written out in two modules of the hub, and
\* /status agree about every topic: on its demand, on its snapshot, and on
\* whether there is one.
THEOREM OneTruthAlways == ViewsSpec => []OneTruth
<1>1. RegistryInv => OneTruth
  <2> SUFFICES ASSUME RegistryInv PROVE OneTruth
    OBVIOUS
  <2>1. \A e \in ListTopics \cup ListAvailableTopics.payload :
          AgreesWithStatus(e) /\ e.snapshot = Freshness(e.topic)
    BY Catalogs, EntriesAgree, EntryFields
  <2>2. ASSUME NEW t \in Topics
        PROVE  LET rest == SnapshotForTopic(t)
                   tool == HandleTool("get_topic_snapshot", [topic |-> t])
               IN \/ /\ rest.status = 404 /\ ~tool.ok /\ tool.error_code = "no_snapshot_yet"
                     /\ AgreesWithStatus(tool.extra) /\ NotShown(t)
                  \/ /\ rest.status = 200 /\ tool.ok
                     /\ AgreesWithStatus(rest) /\ AgreesWithStatus(tool.payload)
                     /\ tool.payload.snapshot = rest.snapshot /\ ShownAs(t, rest.snapshot)
    <3> DEFINE rest == SnapshotForTopic(t)
               tool == HandleTool("get_topic_snapshot", [topic |-> t])
    <3>1. CASE t \in DOMAIN rows
      <4>1. /\ rest.status = 200 /\ rest.topic = t /\ rest.registry_refcount = Refs(t)
            /\ rest.active_downstream_demand = (Refs(t) > 0)
            /\ rest.upstream_desired = (t \in upstream_topics)
            /\ rest.snapshot = Store!GetSnapshot(t)
        BY <3>1 DEF SnapshotForTopic, Refs
      <4>2. tool = ToolOk(SnapshotPayload(t))
        BY <3>1, SnapshotToolAnswers
      <4> HIDE DEF tool, rest
      <4>3. tool.ok /\ tool.payload = SnapshotPayload(t)
        BY <4>2 DEF ToolOk
      <4>4. /\ SnapshotPayload(t).topic = t /\ SnapshotPayload(t).registry_refcount = Refs(t)
            /\ SnapshotPayload(t).active_downstream_demand = (Refs(t) > 0)
            /\ SnapshotPayload(t).upstream_desired = (t \in upstream_topics)
            /\ SnapshotPayload(t).snapshot = Store!GetSnapshot(t)
        BY DEF SnapshotPayload, Refs
      <4>5. AgreesWithStatus(rest) /\ AgreesWithStatus(SnapshotPayload(t))
        BY <4>1, <4>4, HintsAgree
      <4>6. ShownAs(t, rest.snapshot)
        BY <2>1, <3>1, <4>1, FreshnessByRow DEF ShownAs
      <4>7. QED
        BY <4>1, <4>3, <4>4, <4>5, <4>6 DEF rest, tool
    <3>2. CASE t \notin DOMAIN rows
      <4>1. rest.status = 404
        BY <3>2 DEF SnapshotForTopic
      <4>2. tool = NoSnapshotYet(t)
        BY <3>2, SnapshotToolAnswers
      <4> HIDE DEF tool, rest
      <4>3. /\ ~tool.ok /\ tool.error_code = "no_snapshot_yet" /\ tool.extra.topic = t
            /\ tool.extra.registry_refcount = Refs(t)
            /\ tool.extra.active_downstream_demand = (Refs(t) > 0)
            /\ tool.extra.upstream_desired = (t \in upstream_topics)
        BY <4>2 DEF NoSnapshotYet, Refs
      <4>4. AgreesWithStatus(tool.extra)
        BY <4>3, HintsAgree
      <4>5. NotShown(t)
        BY <2>1, <3>2, FreshnessByRow DEF NotShown
      <4>6. QED
        BY <4>1, <4>3, <4>4, <4>5 DEF rest, tool
    <3>3. QED
      BY <3>1, <3>2
  <2>3. {e.topic : e \in ListAvailableTopics.payload} = {e.topic : e \in ListTopics} \cup Defaults
    <3>1. {e.topic : e \in ListTopics} = Catalog
      BY Catalogs, EntryFields
    <3>2. {e.topic : e \in ListAvailableTopics.payload} = Catalog \cup Defaults
      BY Catalogs, EntryFields
    <3>3. QED
      BY <3>1, <3>2
  <2>4. QED
    BY <2>1, <2>2, <2>3 DEF OneTruth
<1>2. QED
  BY <1>1, ViewsRegistryInvariant, PTL

\* Each tool has one spec, and only the list takes no topic.
LEMMA SpecOf ==
  ASSUME NEW spec
  PROVE  spec \in ListToolSpecs <=>
           \/ spec = [name |-> "list_available_topics", properties |-> {}, required |-> {}]
           \/ spec = [name |-> "describe_topic_schema",
                      properties |-> {"topic"}, required |-> {"topic"}]
           \/ spec = [name |-> "get_topic_snapshot",
                      properties |-> {"topic"}, required |-> {"topic"}]
           \/ spec = [name |-> "subscribe_to_topic_stream",
                      properties |-> {"topic"}, required |-> {"topic"}]
BY DEF ListToolSpecs

TopicTools == {"describe_topic_schema", "get_topic_snapshot", "subscribe_to_topic_stream"}

LEMMA SpecsByName ==
  /\ {s.name : s \in ListToolSpecs} = {"list_available_topics"} \cup TopicTools
  /\ \A s \in ListToolSpecs :
       /\ s.name = "list_available_topics" => s.properties = {} /\ s.required = {}
       /\ s.name \in TopicTools => s.properties = {"topic"} /\ s.required = {"topic"}
<1>1. \A s \in ListToolSpecs :
        /\ s.name \in {"list_available_topics"} \cup TopicTools
        /\ s.name = "list_available_topics" => s.properties = {} /\ s.required = {}
        /\ s.name \in TopicTools => s.properties = {"topic"} /\ s.required = {"topic"}
  BY SpecOf DEF TopicTools
<1>2. \A name \in {"list_available_topics"} \cup TopicTools :
        \E s \in ListToolSpecs : s.name = name
  <2> DEFINE TopicSpec(name) == [name |-> name, properties |-> {"topic"}, required |-> {"topic"}]
             ListSpec == [name |-> "list_available_topics", properties |-> {}, required |-> {}]
  <2>1. ListSpec \in ListToolSpecs /\ \A name \in TopicTools : TopicSpec(name) \in ListToolSpecs
    BY SpecOf DEF TopicTools
  <2>2. ListSpec.name = "list_available_topics" /\ \A name : TopicSpec(name).name = name
    OBVIOUS
  <2> HIDE DEF TopicSpec, ListSpec
  <2>3. QED
    BY <2>1, <2>2
<1>3. \A name : name \in {s.name : s \in ListToolSpecs} <=>
               name \in {"list_available_topics"} \cup TopicTools
  BY <1>1, <1>2
<1>4. QED
  BY <1>1, <1>3

\* Whatever the state, a call that obeys its tool's inputSchema is refused only
\* for a string that is no product id or a topic without a snapshot, a name
\* without a spec is refused, and the dispatch never falls through.
THEOREM ToolsAlwaysFollowSpecs == ViewsSpec => []ToolsFollowSpecs
<1>1. ToolsFollowSpecs
  <2> DEFINE listed == {s.name : s \in ListToolSpecs}
  <2>1. listed = {"list_available_topics"} \cup TopicTools /\ ToolNames = listed
    BY SpecsByName DEF ToolNames, TopicTools
  <2> SUFFICES ASSUME NEW name \in listed \cup ToolNames \cup {"other_tool"},
                      NEW args \in Arguments
               PROVE  LET answer == CallTool(name, args)
                          code == answer.result.error_code
                          obeys == \E s \in ListToolSpecs : s.name = name /\ Obeys(s, args)
                      IN IF answer.isError
                         THEN /\ code # "internal_error"
                              /\ code = "unknown_tool" <=> name \notin listed
                              /\ obeys => \/ code = "invalid_topic" /\ args["topic"] \in BadIds
                                          \/ code = "no_snapshot_yet" /\ args["topic"] \in Topics
                         ELSE \E s \in ListToolSpecs :
                                s.name = name /\ ("topic" \in s.required => args["topic"] \in Topics)
    BY DEF ToolsFollowSpecs
  <2> DEFINE result == HandleTool(name, args)
             topic == RequireStr(args)
             obeys == \E s \in ListToolSpecs : s.name = name /\ Obeys(s, args)
             served == \E s \in ListToolSpecs :
                         s.name = name /\ ("topic" \in s.required => args["topic"] \in Topics)
  <2>2. CallTool(name, args).isError = ~result.ok /\ CallTool(name, args).result = result
    BY DEF CallTool
  <2>3. SUFFICES
          \/ result.ok = TRUE /\ served
          \/ /\ result.ok = FALSE /\ result.error_code = "unknown_tool"
             /\ name \notin listed /\ ~obeys
          \/ /\ result.ok = FALSE /\ result.error_code = "invalid_arguments"
             /\ name \in listed /\ ~obeys
          \/ /\ result.ok = FALSE /\ result.error_code = "invalid_topic"
             /\ name \in listed /\ args["topic"] \in BadIds
          \/ /\ result.ok = FALSE /\ result.error_code = "no_snapshot_yet"
             /\ name \in listed /\ args["topic"] \in Topics
    <3> HIDE DEF result, listed, obeys, served
    <3>1. QED
      BY <2>2 DEF obeys, served, listed
  <2>4. /\ "topic" \in DOMAIN args => topic = args["topic"]
        /\ "topic" \notin DOMAIN args => topic = NoString
        /\ topic \in Topics \cup BadIds \cup {NoString}
    BY DEF RequireStr, Arguments
  <2>5. CASE name = "other_tool"
    <3>1. name \notin ToolNames
      BY <2>5 DEF ToolNames
    <3>2. result = ToolError("unknown_tool")
      BY <2>5, <3>1 DEF HandleTool
    <3>3. result.ok = FALSE /\ result.error_code = "unknown_tool"
      BY <3>2 DEF ToolError
    <3>4. ~obeys
      BY <2>1, <3>1
    <3> HIDE DEF result, obeys, listed
    <3>5. QED
      BY <2>1, <3>1, <3>3, <3>4
  <2>6. CASE name = "list_available_topics"
    <3>1. name \in ToolNames /\ name \notin TopicTools
      BY <2>6 DEF ToolNames, TopicTools
    <3>2. result = IF DOMAIN args = {} THEN ListAvailableTopics ELSE ToolError("invalid_arguments")
      BY <2>6, <3>1 DEF HandleTool
    <3>3. ListAvailableTopics.ok = TRUE
      BY DEF ListAvailableTopics, ToolOk
    <3>4. /\ ToolError("invalid_arguments").ok = FALSE
          /\ ToolError("invalid_arguments").error_code = "invalid_arguments"
      BY DEF ToolError
    <3>5. served /\ (obeys => DOMAIN args = {})
      BY <2>1, <2>6, SpecsByName DEF Obeys
    <3> HIDE DEF result, obeys, served, listed
    <3>6. QED
      BY <2>1, <3>1, <3>2, <3>3, <3>4, <3>5
  <2>7. CASE name \in TopicTools /\ topic = NoString
    <3>1. name \in ToolNames
      BY <2>7 DEF TopicTools, ToolNames
    <3>2. result = ToolError("invalid_arguments")
      BY <2>7, <3>1 DEF HandleTool, TopicTools
    <3>3. result.ok = FALSE /\ result.error_code = "invalid_arguments"
      BY <3>2 DEF ToolError
    <3>4. ~obeys
      BY <2>4, <2>7, SpecsByName DEF Obeys
    <3> HIDE DEF result, obeys, listed
    <3>5. QED
      BY <2>1, <3>1, <3>3, <3>4
  <2>8. CASE name \in TopicTools /\ topic # NoString
    <3>1. name \in ToolNames
      BY <2>8 DEF TopicTools, ToolNames
    <3>2. topic = args["topic"] /\ topic \in Topics \cup BadIds
      BY <2>4, <2>8
    <3>3. \/ result = DescribeTopicSchema(topic)
          \/ result = GetTopicSnapshot(topic)
          \/ result = SubscribeToTopicStream(topic)
      BY <2>8, <3>1 DEF HandleTool, TopicTools
    <3>4. topic \in Topics => served
      BY <2>1, <2>8, <3>2
    <3> HIDE DEF result, topic, served, listed
    <3>5. CASE topic \in Topics
      <4>1. \/ result.ok = TRUE
            \/ result.ok = FALSE /\ result.error_code = "no_snapshot_yet"
        BY <3>3, <3>5 DEF DescribeTopicSchema, GetTopicSnapshot, SubscribeToTopicStream,
                          ValidTopicId, ToolOk, NoSnapshotYet
      <4>2. QED
        BY <2>1, <3>1, <3>2, <3>4, <3>5, <4>1
    <3>6. CASE topic \notin Topics
      <4>1. result = ToolError("invalid_topic")
        BY <3>3, <3>6 DEF DescribeTopicSchema, GetTopicSnapshot, SubscribeToTopicStream,
                          ValidTopicId
      <4>2. result.ok = FALSE /\ result.error_code = "invalid_topic"
        BY <4>1 DEF ToolError
      <4>3. QED
        BY <2>1, <3>1, <3>2, <3>6, <4>2
    <3>7. QED
      BY <3>5, <3>6
  <2>9. name = "other_tool" \/ name = "list_available_topics" \/ name \in TopicTools
    BY <2>1
  <2> HIDE DEF result, topic, obeys, served, listed
  <2>10. QED
    BY <2>5, <2>6, <2>7, <2>8, <2>9
<1>2. QED
  BY <1>1, PTL

\* What the catalog shows with a snapshot stays readable: the tool finds it in
\* the next state, and so in every later one.
THEOREM ListedAlwaysReadable == ViewsSpec => ListedStaysReadable
<1> DEFINE Step == \A e \in ListTopics : e.snapshot # {} =>
                     LET tool == HandleTool("get_topic_snapshot", [topic |-> e.topic])'
                     IN tool.ok
<1> DEFINE Readable(t) == HandleTool("get_topic_snapshot", [topic |-> t]).ok
           RowsReadable == \A t \in Topics : t \in DOMAIN rows => Readable(t)
<1>1. RowsReadable
  <2> SUFFICES ASSUME NEW t \in Topics, t \in DOMAIN rows PROVE Readable(t)
    OBVIOUS
  <2> DEFINE tool == HandleTool("get_topic_snapshot", [topic |-> t])
  <2>1. tool = ToolOk(SnapshotPayload(t))
    BY SnapshotToolAnswers
  <2> HIDE DEF tool
  <2>2. tool.ok
    BY <2>1 DEF ToolOk
  <2>3. QED
    BY <2>2 DEF tool
<1> HIDE DEF RowsReadable
<1>2. RowsReadable'
  BY <1>1, PTL
<1>3. TablesInv /\ [ViewsNext]_viewVars => [Step]_viewVars
  <2> SUFFICES ASSUME TablesInv, ViewsNext, NEW e \in ListTopics, e.snapshot # {}
               PROVE  Readable(e.topic)'
    OBVIOUS
  <2>1. PICK t : e = RestEntry(t)
    BY Catalogs
  <2>2. e.topic = t /\ t \in DOMAIN rows
    BY <2>1, EntryFields, FreshnessByRow
  <2>3. t \in DOMAIN rows' /\ t \in Topics
    BY <2>2, ViewsStepKeepsTables DEF TablesInv
  <2>4. Readable(t)'
    BY <1>2, <2>3 DEF RowsReadable
  <2> HIDE DEF Readable
  <2>5. QED
    BY <2>2, <2>4
<1>4. QED
  BY <1>3, TablesInvariant, PTL DEF ViewsSpec, ListedStaysReadable
===============================================================================
