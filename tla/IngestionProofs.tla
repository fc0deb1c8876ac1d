--------------------------- MODULE IngestionProofs ---------------------------
(***************************************************************************)
(* What a reader of the snapshot store sees is what the events say, for    *)
(* any topics, prices, frames and threshold and any setting of the clock.  *)
(*                                                                         *)
(* The properties speak of the last event that carries a field, found by   *)
(* CHOOSE.  The invariant names it by what it is instead (IsLast), which   *)
(* one more event keeps true or moves to itself.                           *)
(***************************************************************************)
EXTENDS Ingestion, TLAPS

Known == Prices \cup {NoPrice}

MarketEvents ==
  [event_type : {"ticker", "trade"}, topic : Topics, price : Known, best_bid : Known,
   best_ask : Known, received_at : Int]

\* A field of the events, by place.
PricesSeen == [i \in DOMAIN published |-> published[i].price]
BidsSeen == [i \in DOMAIN published |-> published[i].best_bid]
AsksSeen == [i \in DOMAIN published |-> published[i].best_ask]
TimesSeen == [i \in DOMAIN published |-> published[i].received_at]

\* x is the last value that f has on E, not counting NoPrice.
IsLast(E, f, x) ==
  \/ x = NoPrice /\ \A i \in E : f[i] = NoPrice
  \/ x # NoPrice /\ \E i \in E : f[i] = x /\ \A j \in E : j > i => f[j] = NoPrice

\* x is the greatest value of f on E.
IsLatest(E, f, x) == (\A i \in E : f[i] <= x) /\ \E i \in E : f[i] = x

RowsFollowEvents ==
  /\ DOMAIN rows = {t \in Topics : Events(t) # {}}
  /\ \A t \in DOMAIN rows :
       /\ IsLast(Events(t), PricesSeen, rows[t].last_trade_price)
       /\ IsLast(Events(t), BidsSeen, rows[t].best_bid)
       /\ IsLast(Events(t), AsksSeen, rows[t].best_ask)
       /\ IsLatest(Events(t), TimesSeen, rows[t].updated_at)

IngestionInv ==
  /\ StoreTypeOK /\ topics \subseteq Topics /\ published \in Seq(MarketEvents)
  /\ RowsFollowEvents

-----------------------------------------------------------------------------
LEMMA EventFields ==
  ASSUME NEW e \in MarketEvents
  PROVE  /\ e.topic \in Topics /\ e.received_at \in Int
         /\ e.price \in Known /\ e.best_bid \in Known /\ e.best_ask \in Known
BY DEF MarketEvents

LEMMA PublishedEvents ==
  ASSUME IngestionInv
  PROVE  \A i \in DOMAIN published : i \in Nat /\ published[i] \in MarketEvents
<1>1. published \in Seq(MarketEvents)
  BY DEF IngestionInv
<1>2. QED
  BY <1>1

\* One value more, at a new last place.
LEMMA LastMoves ==
  ASSUME NEW E, NEW m, NEW f, NEW g, NEW x, NEW v,
         \A i \in E : ~(i > m), ~(m > m),
         IsLast(E, f, x), \A i \in E : g[i] = f[i], g[m] = v
  PROVE  IsLast(E \cup {m}, g, Merged(x, v))
<1>1. CASE v = NoPrice
  <2>1. CASE x = NoPrice
    BY <1>1, <2>1 DEF IsLast, Merged
  <2>2. CASE x # NoPrice
    <3>1. PICK i \in E : f[i] = x /\ \A j \in E : j > i => f[j] = NoPrice
      BY <2>2 DEF IsLast
    <3>2. \A j \in E \cup {m} : j > i => g[j] = NoPrice
      BY <1>1, <3>1
    <3>3. QED
      BY <1>1, <2>2, <3>1, <3>2 DEF IsLast, Merged
  <2>3. QED
    BY <2>1, <2>2
<1>2. CASE v # NoPrice
  <2>1. \A j \in E \cup {m} : ~(j > m)
    OBVIOUS
  <2>2. QED
    BY <1>2, <2>1 DEF IsLast, Merged
<1>3. QED
  BY <1>1, <1>2

\* The first value of all.
LEMMA LastOfOne ==
  ASSUME NEW m, NEW g, NEW v, g[m] = v, ~(m > m)
  PROVE  IsLast({m}, g, Merged(NoPrice, v))
BY DEF IsLast, Merged

LEMMA LatestMoves ==
  ASSUME NEW E, NEW m, NEW f, NEW g, NEW x \in Int, NEW v \in Int,
         \A i \in E : f[i] \in Int,
         IsLatest(E, f, x), \A i \in E : g[i] = f[i], g[m] = v
  PROVE  IsLatest(E \cup {m}, g, Latest(x, v))
BY DEF IsLatest, Latest

LEMMA LastStays ==
  ASSUME NEW E, NEW f, NEW g, NEW x, IsLast(E, f, x), \A i \in E : g[i] = f[i]
  PROVE  IsLast(E, g, x)
BY DEF IsLast

LEMMA LatestStays ==
  ASSUME NEW E, NEW f, NEW g, NEW x, IsLatest(E, f, x), \A i \in E : g[i] = f[i]
  PROVE  IsLatest(E, g, x)
BY DEF IsLatest

-----------------------------------------------------------------------------
\* The parser gives no event, or one of a topic the hub knows, with prices and
\* the time of the clock.
LEMMA ParsedEvent ==
  ASSUME now \in Int, NEW f, ParseRawToEvent(f) # NoEvent
  PROVE  ParseRawToEvent(f) \in MarketEvents
<1>1. \A v : OptionalFloat(v) \in Known
  BY DEF OptionalFloat, Known
<1>2. NoPrice \in Known
  BY DEF Known
<1>3. CASE f.type = "ticker" /\ f.product_id \in Topics
  <2>1. ParseRawToEvent(f) = ParseTicker(f)
    BY <1>3 DEF ParseRawToEvent
  <2>2. ParseTicker(f) = MarketEvent("ticker", f.product_id, OptionalFloat(f.price),
                                     OptionalFloat(f.best_bid), OptionalFloat(f.best_ask))
    BY <2>1 DEF ParseTicker
  <2>3. QED
    BY <1>1, <1>3, <2>1, <2>2 DEF MarketEvent, MarketEvents
<1>4. CASE f.type \in {"match", "last_match"} /\ f.product_id \in Topics
  <2>1. ParseRawToEvent(f) = ParseMatch(f)
    BY <1>4 DEF ParseRawToEvent
  <2>2. ParseMatch(f) = MarketEvent("trade", f.product_id, OptionalFloat(f.price),
                                    NoPrice, NoPrice)
    BY <2>1 DEF ParseMatch
  <2>3. QED
    BY <1>1, <1>2, <1>4, <2>1, <2>2 DEF MarketEvent, MarketEvents
<1>5. QED
  BY <1>3, <1>4 DEF ParseRawToEvent

\* _dispatch_raw of a wanted event: its row takes what the event carries, and
\* every other row stays.
LEMMA DispatchKeepsInv ==
  ASSUME IngestionInv, NEW e \in MarketEvents, ApplyEvent(e),
         published' = Append(published, e), now' = now, topics' = topics
  PROVE  IngestionInv'
<1> DEFINE n == Len(published)
           t == e.topic
           row == IF t \in DOMAIN rows THEN rows[t] ELSE EmptyRow
           at == IF t \in DOMAIN rows THEN Latest(row.updated_at, e.received_at)
                                      ELSE e.received_at
           merged == [last_trade_price |-> Merged(row.last_trade_price, e.price),
                      best_bid |-> Merged(row.best_bid, e.best_bid),
                      best_ask |-> Merged(row.best_ask, e.best_ask),
                      updated_at |-> at]
<1>1. /\ t \in Topics /\ e.price \in Known /\ e.best_bid \in Known /\ e.best_ask \in Known
      /\ e.received_at \in Int
  BY EventFields
<1>2. rows' = [u \in DOMAIN rows \cup {t} |-> IF u = t THEN merged ELSE rows[u]]
  BY DEF ApplyEvent
<1>3. /\ published' \in Seq(MarketEvents) /\ n \in Nat
      /\ DOMAIN published = 1..n /\ DOMAIN published' = 1..(n + 1)
      /\ published'[n + 1] = e /\ \A i \in 1..n : published'[i] = published[i]
  BY DEF IngestionInv
<1>4. /\ DOMAIN rows' = DOMAIN rows \cup {t} /\ rows'[t] = merged
      /\ \A u \in DOMAIN rows : u # t => rows'[u] = rows[u]
  BY <1>2
<1>5. /\ Events(t)' = Events(t) \cup {n + 1} /\ \A u \in Topics : Events(u) \subseteq 1..n
      /\ \A u \in Topics : u # t => Events(u)' = Events(u)
  BY <1>3 DEF Events
<1>6. /\ PricesSeen'[n + 1] = e.price /\ \A i \in 1..n : PricesSeen'[i] = PricesSeen[i]
      /\ BidsSeen'[n + 1] = e.best_bid /\ \A i \in 1..n : BidsSeen'[i] = BidsSeen[i]
      /\ AsksSeen'[n + 1] = e.best_ask /\ \A i \in 1..n : AsksSeen'[i] = AsksSeen[i]
      /\ TimesSeen'[n + 1] = e.received_at /\ \A i \in 1..n : TimesSeen'[i] = TimesSeen[i]
  BY <1>3 DEF PricesSeen, BidsSeen, AsksSeen, TimesSeen
<1>7. \A i \in 1..n : TimesSeen[i] \in Int
  BY <1>3, PublishedEvents, EventFields DEF TimesSeen
<1>8. merged \in [last_trade_price : Known, best_bid : Known, best_ask : Known,
                  updated_at : Int]
  <2>1. /\ row.last_trade_price \in Known /\ row.best_bid \in Known /\ row.best_ask \in Known
        /\ t \in DOMAIN rows => row.updated_at \in Int
    BY DEF IngestionInv, StoreTypeOK, EmptyRow, Known
  <2>2. at \in Int
    BY <1>1, <2>1 DEF Latest
  <2>3. QED
    BY <1>1, <2>1, <2>2 DEF Merged
<1>9. StoreTypeOK'
  BY <1>1, <1>4, <1>8 DEF IngestionInv, StoreTypeOK, Known
<1>10. DOMAIN rows' = {u \in Topics : Events(u)' # {}}
  <2>1. DOMAIN rows = {u \in Topics : Events(u) # {}}
    BY DEF IngestionInv, RowsFollowEvents
  <2>2. \A u \in Topics : Events(u)' # {} <=> u = t \/ Events(u) # {}
    BY <1>5
  <2>3. QED
    BY <1>1, <1>4, <2>1, <2>2
<1>11. ASSUME NEW u \in DOMAIN rows, u # t
       PROVE  /\ IsLast(Events(u)', PricesSeen', rows'[u].last_trade_price)
              /\ IsLast(Events(u)', BidsSeen', rows'[u].best_bid)
              /\ IsLast(Events(u)', AsksSeen', rows'[u].best_ask)
              /\ IsLatest(Events(u)', TimesSeen', rows'[u].updated_at)
  <2>1. /\ u \in Topics
        /\ IsLast(Events(u), PricesSeen, rows[u].last_trade_price)
        /\ IsLast(Events(u), BidsSeen, rows[u].best_bid)
        /\ IsLast(Events(u), AsksSeen, rows[u].best_ask)
        /\ IsLatest(Events(u), TimesSeen, rows[u].updated_at)
    BY DEF IngestionInv, RowsFollowEvents
  <2>2. Events(u)' = Events(u) /\ Events(u) \subseteq 1..n /\ rows'[u] = rows[u]
    BY <1>4, <1>5, <1>11, <2>1
  <2>3. QED
    BY <1>6, <2>1, <2>2, LastStays, LatestStays
<1>12. /\ IsLast(Events(t)', PricesSeen', merged.last_trade_price)
       /\ IsLast(Events(t)', BidsSeen', merged.best_bid)
       /\ IsLast(Events(t)', AsksSeen', merged.best_ask)
       /\ IsLatest(Events(t)', TimesSeen', merged.updated_at)
  <2>1. CASE t \in DOMAIN rows
    <3>1. /\ IsLast(Events(t), PricesSeen, row.last_trade_price)
          /\ IsLast(Events(t), BidsSeen, row.best_bid)
          /\ IsLast(Events(t), AsksSeen, row.best_ask)
          /\ IsLatest(Events(t), TimesSeen, row.updated_at) /\ row.updated_at \in Int
      BY <2>1 DEF IngestionInv, RowsFollowEvents, StoreTypeOK
    <3>2. Events(t) \in SUBSET (1..n)
      BY <1>1, <1>5
    <3> HIDE DEF row
    <3>3. /\ \A i \in Events(t) : PricesSeen'[i] = PricesSeen[i]
          /\ \A i \in Events(t) : BidsSeen'[i] = BidsSeen[i]
          /\ \A i \in Events(t) : AsksSeen'[i] = AsksSeen[i]
          /\ \A i \in Events(t) : TimesSeen'[i] = TimesSeen[i] /\ TimesSeen[i] \in Int
      BY <1>6, <1>7, <3>2
    <3> DEFINE m == n + 1
               E == Events(t)
    <3>4. /\ \A i \in E : ~(i > m)
          /\ ~(m > m)
          /\ PricesSeen'[m] = e.price /\ BidsSeen'[m] = e.best_bid
          /\ AsksSeen'[m] = e.best_ask /\ TimesSeen'[m] = e.received_at
      BY <1>3, <1>6, <3>2
    <3>5. /\ \A i \in E : PricesSeen'[i] = PricesSeen[i]
          /\ IsLast(E, PricesSeen, row.last_trade_price)
      BY <3>1, <3>3
    <3>6. /\ \A i \in E : BidsSeen'[i] = BidsSeen[i]
          /\ IsLast(E, BidsSeen, row.best_bid)
      BY <3>1, <3>3
    <3>7. /\ \A i \in E : AsksSeen'[i] = AsksSeen[i]
          /\ IsLast(E, AsksSeen, row.best_ask)
      BY <3>1, <3>3
    <3>8. /\ \A i \in E : TimesSeen'[i] = TimesSeen[i] /\ TimesSeen[i] \in Int
          /\ IsLatest(E, TimesSeen, row.updated_at)
      BY <3>1, <3>3
    <3> HIDE DEF m, E
    <3>9. /\ IsLast(E \cup {m}, PricesSeen', Merged(row.last_trade_price, e.price))
          /\ IsLast(E \cup {m}, BidsSeen', Merged(row.best_bid, e.best_bid))
          /\ IsLast(E \cup {m}, AsksSeen', Merged(row.best_ask, e.best_ask))
      <4>1. IsLast(E \cup {m}, PricesSeen', Merged(row.last_trade_price, e.price))
        BY <3>4, <3>5, LastMoves, Zenon
      <4>2. IsLast(E \cup {m}, BidsSeen', Merged(row.best_bid, e.best_bid))
        BY <3>4, <3>6, LastMoves, Zenon
      <4>3. IsLast(E \cup {m}, AsksSeen', Merged(row.best_ask, e.best_ask))
        BY <3>4, <3>7, LastMoves, Zenon
      <4>4. QED
        BY <4>1, <4>2, <4>3
    <3>10. IsLatest(E \cup {m}, TimesSeen', Latest(row.updated_at, e.received_at))
      BY <1>1, <3>1, <3>4, <3>8, LatestMoves, Zenon
    <3>11. QED
      BY <1>5, <2>1, <3>9, <3>10 DEF m, E
  <2>2. CASE t \notin DOMAIN rows
    <3>1. Events(t) = {}
      BY <1>1, <2>2 DEF IngestionInv, RowsFollowEvents
    <3>2. /\ row.last_trade_price = NoPrice /\ row.best_bid = NoPrice
          /\ row.best_ask = NoPrice /\ at = e.received_at
      BY <2>2 DEF EmptyRow
    <3>3. Events(t)' = {n + 1}
      BY <1>5, <3>1
    <3>4. /\ IsLast({n + 1}, PricesSeen', Merged(NoPrice, e.price))
          /\ IsLast({n + 1}, BidsSeen', Merged(NoPrice, e.best_bid))
          /\ IsLast({n + 1}, AsksSeen', Merged(NoPrice, e.best_ask))
      <4>1. ~(n + 1 > n + 1)
        BY <1>3
      <4>2. QED
        BY <1>6, <4>1, LastOfOne
    <3>5. IsLatest({n + 1}, TimesSeen', e.received_at)
      BY <1>1, <1>6 DEF IsLatest
    <3>6. QED
      BY <3>2, <3>3, <3>4, <3>5
  <2>3. QED
    BY <2>1, <2>2
<1> HIDE DEF merged
<1>13. RowsFollowEvents'
  BY <1>4, <1>10, <1>11, <1>12 DEF RowsFollowEvents
<1>14. QED
  BY <1>3, <1>9, <1>13 DEF IngestionInv

\* Every row is the piecewise newest of the events of its topic, in any order
\* of their times.
THEOREM IngestionInvariant == IngestionSpec => []IngestionInv
<1>1. IngestionInit => IngestionInv
  BY DEF IngestionInit, StoreInit, IngestionInv, StoreTypeOK, RowsFollowEvents, Events
<1>2. IngestionInv /\ [IngestionNext]_ingestionVars => IngestionInv'
  <2> SUFFICES ASSUME IngestionInv, [IngestionNext]_ingestionVars PROVE IngestionInv'
    OBVIOUS
  <2>1. ASSUME UNCHANGED <<rows, published>>, topics' \subseteq Topics, now' \in Int
        PROVE  IngestionInv'
    BY <2>1 DEF IngestionInv, StoreTypeOK, RowsFollowEvents, Events, PricesSeen, BidsSeen,
                AsksSeen, TimesSeen, IsLast, IsLatest
  <2>2. topics \subseteq Topics /\ now \in Int
    BY DEF IngestionInv, StoreTypeOK
  <2>3. ASSUME NEW f \in Frames, ReceiveFrame(f) PROVE IngestionInv'
    BY <2>1, <2>2, <2>3, ParsedEvent, DispatchKeepsInv DEF ReceiveFrame
  <2>4. CASE (\E S \in SUBSET Topics : Demand(S)) \/ ClockSet
    BY <2>1, <2>2, <2>4 DEF Demand, ClockSet, storeVars
  <2>5. CASE UNCHANGED ingestionVars
    BY <2>1, <2>2, <2>5 DEF ingestionVars, storeVars
  <2>6. QED
    BY <2>3, <2>4, <2>5 DEF IngestionNext
<1>3. QED
  BY <1>1, <1>2, PTL DEF IngestionSpec

-----------------------------------------------------------------------------
\* The place that LastKnown chooses is the one that IsLast speaks of.
LEMMA LastIsNewest ==
  ASSUME NEW E \in SUBSET Nat, NEW f, NEW x, IsLast(E, f, x),
         NEW C, C = {i \in E : f[i] # NoPrice}
  PROVE  IF C = {} THEN x = NoPrice ELSE Newest(C) \in E /\ x = f[Newest(C)]
<1>1. CASE x = NoPrice
  BY <1>1 DEF IsLast
<1>2. CASE x # NoPrice
  <2>1. PICK i \in E : f[i] = x /\ \A j \in E : j > i => f[j] = NoPrice
    BY <1>2 DEF IsLast
  <2>2. i \in C /\ \A j \in C : j <= i
    BY <1>2, <2>1
  <2>3. Newest(C) \in C /\ \A j \in C : j <= Newest(C)
    BY <2>2 DEF Newest
  <2>4. Newest(C) = i
    <3>1. i \in Nat /\ Newest(C) \in Nat
      BY <2>3
    <3>2. i <= Newest(C) /\ Newest(C) <= i
      BY <2>2, <2>3
    <3>3. QED
      BY <3>1, <3>2
  <2>5. QED
    BY <2>1, <2>2, <2>4
<1>3. QED
  BY <1>1, <1>2

\* Reading the store is as good as having seen every event, for any frames in
\* any order and any change of demand between them.
THEOREM SnapshotAlwaysLastKnown == IngestionSpec => []SnapshotIsLastKnown
<1>1. IngestionInv => SnapshotIsLastKnown
  <2> SUFFICES ASSUME IngestionInv, NEW t \in DOMAIN rows
               PROVE  LET s == GetSnapshot(t)
                      IN /\ s.last_trade_price = LastKnown(s.topic, LAMBDA e : e.price)
                         /\ s.best_bid = LastKnown(s.topic, LAMBDA e : e.best_bid)
                         /\ s.best_ask = LastKnown(s.topic, LAMBDA e : e.best_ask)
                         /\ s.double_mid # NoPrice
                              <=> s.best_bid # NoPrice /\ s.best_ask # NoPrice
    BY DEF SnapshotIsLastKnown, ListSnapshots, IngestionInv, RowsFollowEvents
  <2> DEFINE E == Events(t)
  <2>1. /\ E \in SUBSET Nat /\ E \subseteq DOMAIN published
        /\ IsLast(E, PricesSeen, rows[t].last_trade_price)
        /\ IsLast(E, BidsSeen, rows[t].best_bid)
        /\ IsLast(E, AsksSeen, rows[t].best_ask)
    BY PublishedEvents DEF IngestionInv, RowsFollowEvents, Events
  <2>2. rows[t].last_trade_price = LastKnown(t, LAMBDA e : e.price)
    <3> DEFINE C == {i \in E : published[i].price # NoPrice}
    <3>1. \A i \in E : PricesSeen[i] = published[i].price
      BY <2>1 DEF PricesSeen
    <3>2. C = {i \in E : PricesSeen[i] # NoPrice}
      BY <3>1
    <3>3. LastKnown(t, LAMBDA e : e.price) =
            IF C = {} THEN NoPrice ELSE published[Newest(C)].price
      BY DEF LastKnown
    <3> HIDE DEF C
    <3>4. IF C = {} THEN rows[t].last_trade_price = NoPrice
          ELSE Newest(C) \in E /\ rows[t].last_trade_price = PricesSeen[Newest(C)]
      BY <2>1, <3>2, LastIsNewest
    <3>5. QED
      BY <3>1, <3>3, <3>4
  <2>3. rows[t].best_bid = LastKnown(t, LAMBDA e : e.best_bid)
    <3> DEFINE C == {i \in E : published[i].best_bid # NoPrice}
    <3>1. \A i \in E : BidsSeen[i] = published[i].best_bid
      BY <2>1 DEF BidsSeen
    <3>2. C = {i \in E : BidsSeen[i] # NoPrice}
      BY <3>1
    <3>3. LastKnown(t, LAMBDA e : e.best_bid) =
            IF C = {} THEN NoPrice ELSE published[Newest(C)].best_bid
      BY DEF LastKnown
    <3> HIDE DEF C
    <3>4. IF C = {} THEN rows[t].best_bid = NoPrice
          ELSE Newest(C) \in E /\ rows[t].best_bid = BidsSeen[Newest(C)]
      BY <2>1, <3>2, LastIsNewest
    <3>5. QED
      BY <3>1, <3>3, <3>4
  <2>4. rows[t].best_ask = LastKnown(t, LAMBDA e : e.best_ask)
    <3> DEFINE C == {i \in E : published[i].best_ask # NoPrice}
    <3>1. \A i \in E : AsksSeen[i] = published[i].best_ask
      BY <2>1 DEF AsksSeen
    <3>2. C = {i \in E : AsksSeen[i] # NoPrice}
      BY <3>1
    <3>3. LastKnown(t, LAMBDA e : e.best_ask) =
            IF C = {} THEN NoPrice ELSE published[Newest(C)].best_ask
      BY DEF LastKnown
    <3> HIDE DEF C
    <3>4. IF C = {} THEN rows[t].best_ask = NoPrice
          ELSE Newest(C) \in E /\ rows[t].best_ask = AsksSeen[Newest(C)]
      BY <2>1, <3>2, LastIsNewest
    <3>5. QED
      BY <3>1, <3>3, <3>4
  <2>5. rows[t].best_bid \in Known /\ rows[t].best_ask \in Known
    BY DEF IngestionInv, StoreTypeOK, Known
  <2>6. DoubleMid(rows[t].best_bid, rows[t].best_ask) # NoPrice
          <=> rows[t].best_bid # NoPrice /\ rows[t].best_ask # NoPrice
    <3> DEFINE bid == rows[t].best_bid
               ask == rows[t].best_ask
    <3>1. bid \in Int /\ ask \in Int => bid + ask \in Int
      OBVIOUS
    <3>2. NoPrice \notin Int /\ \A x \in Known : x \in Int \/ x = NoPrice
      BY SnapshotAssumption DEF Known
    <3> HIDE DEF bid, ask
    <3>3. CASE bid = NoPrice \/ ask = NoPrice
      BY <3>3 DEF DoubleMid, bid, ask
    <3>4. CASE bid # NoPrice /\ ask # NoPrice
      <4>1. DoubleMid(bid, ask) = bid + ask
        BY <3>4 DEF DoubleMid
      <4>2. bid \in Int /\ ask \in Int
        BY <2>5, <3>2, <3>4 DEF bid, ask
      <4>3. DoubleMid(bid, ask) # NoPrice
        BY <3>1, <3>2, <4>1, <4>2, Zenon
      <4>4. QED
        BY <3>4, <4>3 DEF bid, ask
    <3>5. QED
      BY <3>3, <3>4
  <2>7. QED
    BY <2>2, <2>3, <2>4, <2>6 DEF GetSnapshot
<1>2. QED
  BY <1>1, IngestionInvariant, PTL

\* The stale flag says exactly that every event of the topic is too old, however
\* the clock was set between them.
THEOREM StaleAlwaysExact == IngestionSpec => []StaleIsExact
<1>1. IngestionInv => StaleIsExact
  <2> SUFFICES ASSUME IngestionInv, NEW t \in DOMAIN rows
               PROVE  IsStale(rows[t].updated_at) <=>
                        \A i \in Events(t) : now - published[i].received_at > Threshold
    BY DEF StaleIsExact, ListSnapshots, GetSnapshot
  <2>1. /\ \A i \in Events(t) : published[i].received_at <= rows[t].updated_at
        /\ \E i \in Events(t) : published[i].received_at = rows[t].updated_at
    BY DEF IngestionInv, RowsFollowEvents, IsLatest, TimesSeen, Events
  <2>2. /\ \A i \in Events(t) : published[i].received_at \in Int
        /\ now \in Int /\ rows[t].updated_at \in Int /\ Threshold \in Int
    BY SnapshotAssumption, PublishedEvents, EventFields DEF IngestionInv, StoreTypeOK, Events
  <2>3. QED
    BY <2>1, <2>2 DEF IsStale
<1>2. QED
  BY <1>1, IngestionInvariant, PTL

\* A row is never dropped and its update time never goes back.
THEOREM UpdateTimesAdvance == IngestionSpec => UpdatedAtAdvances
<1> DEFINE Advance == \A t \in DOMAIN rows : /\ t \in DOMAIN rows'
                                             /\ rows'[t].updated_at >= rows[t].updated_at
<1>1. IngestionInv /\ [IngestionNext]_ingestionVars => [Advance]_ingestionVars
  <2> SUFFICES ASSUME IngestionInv, [IngestionNext]_ingestionVars PROVE Advance
    OBVIOUS
  <2>1. \A t \in DOMAIN rows : rows[t].updated_at \in Int
    BY DEF IngestionInv, StoreTypeOK
  <2>2. CASE rows' = rows
    BY <2>1, <2>2
  <2>3. ASSUME NEW f, ParseRawToEvent(f) # NoEvent, ApplyEvent(ParseRawToEvent(f))
        PROVE  Advance
    <3> DEFINE e == ParseRawToEvent(f)
    <3>1. e.received_at \in Int
      BY <2>3, ParsedEvent, EventFields DEF IngestionInv, StoreTypeOK
    <3>2. \A t \in DOMAIN rows :
            /\ t \in DOMAIN rows'
            /\ rows'[t].updated_at \in {rows[t].updated_at,
                                        Latest(rows[t].updated_at, e.received_at)}
      BY <2>3 DEF ApplyEvent
    <3>3. QED
      BY <2>1, <3>1, <3>2 DEF Latest
  <2>4. QED
    BY <2>2, <2>3 DEF IngestionNext, ReceiveFrame, Demand, ClockSet, ingestionVars, storeVars
<1>2. QED
  BY <1>1, IngestionInvariant, PTL DEF IngestionSpec, UpdatedAtAdvances

\* Rows hold known prices and times only.
THEOREM StoreAlwaysTyped == IngestionSpec => []StoreTypeOK
<1>1. IngestionInv => StoreTypeOK
  BY DEF IngestionInv
<1>2. QED
  BY IngestionInvariant, <1>1, PTL
=============================================================================
