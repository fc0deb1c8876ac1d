------------------------------ MODULE Ingestion ------------------------------
(***************************************************************************)
(* The data path of app/ingestion/coinbase_client.py: a frame received     *)
(* from the exchange is parsed, normalized, filtered by demand, merged     *)
(* into the snapshot store and published, in one step of the reader task   *)
(* (_dispatch_raw awaits only locks that are free).                        *)
(*                                                                         *)
(* A frame is a record of what the parser tells apart.  A price field      *)
(* holds a price, or one of the tokens the conversions turn into None.     *)
(* Frames whose numbers make the conversion raise are in CoinbaseClient,   *)
(* where they end the runner.                                              *)
(***************************************************************************)
EXTENDS SnapshotStore, Sequences

CONSTANTS
  Frames,        \* frames the exchange may send
  MaxFrames,     \* bound: frames received in a behaviour
  MaxTime        \* bound: the clock stays in 0..MaxTime

VARIABLES
  topics,        \* _topics of the client
  published,     \* events given to the broker, in order
  upstream_websocket_messages_received,   \* HubMetrics
  upstream_normalized_market_events       \* HubMetrics

countVars == <<upstream_websocket_messages_received, upstream_normalized_market_events>>
ingestionVars == <<storeVars, topics, published, countVars>>

NoEvent == [topic |-> "none"]

-----------------------------------------------------------------------------
\* Mutation: what is no number is passed on.
PassedOn(v) == v

\* float(value): a price given as a number or a numeric string, else None.
OptionalFloat(v) == IF v \in Prices THEN v ELSE NoPrice

MarketEvent(type, t, price, bid, ask) ==
  [event_type |-> type, topic |-> t, price |-> price, best_bid |-> bid,
   best_ask |-> ask, received_at |-> now]

ParseTicker(f) ==
  LET price == OptionalFloat(f.price)
      bid == OptionalFloat(f.best_bid)
      ask == OptionalFloat(f.best_ask)
  IN IF price = NoPrice /\ bid = NoPrice /\ ask = NoPrice THEN NoEvent
     ELSE MarketEvent("ticker", f.product_id, price, bid, ask)

\* A trade carries no side of the book, whatever the frame says.
ParseMatch(f) ==
  LET price == OptionalFloat(f.price)
  IN IF price = NoPrice THEN NoEvent
     ELSE MarketEvent("trade", f.product_id, price, NoPrice, NoPrice)

\* Binary frames that are no UTF-8, malformed JSON, messages that are no
\* object, control messages, unknown types and frames without a product yield
\* no event.
ParseRawToEvent(f) ==
  CASE f.type = "ticker" /\ f.product_id \in Topics -> ParseTicker(f)
    [] f.type \in {"match", "last_match"} /\ f.product_id \in Topics -> ParseMatch(f)
    [] OTHER -> NoEvent

-----------------------------------------------------------------------------
IngestionInit ==
  /\ StoreInit
  /\ topics = {} /\ published = <<>>
  /\ upstream_websocket_messages_received = 0
  /\ upstream_normalized_market_events = 0

\* _receive_until_closed with one frame, and _dispatch_raw.
ReceiveFrame(f) ==
  /\ upstream_websocket_messages_received < MaxFrames
  /\ upstream_websocket_messages_received' = upstream_websocket_messages_received + 1
  /\ LET e == ParseRawToEvent(f)
     IN \/ /\ e # NoEvent /\ e.topic \in topics
           /\ ApplyEvent(e)
           /\ published' = Append(published, e)
           /\ upstream_normalized_market_events' = upstream_normalized_market_events + 1
        \/ /\ e = NoEvent \/ e.topic \notin topics
           /\ UNCHANGED <<rows, published, upstream_normalized_market_events>>
  /\ UNCHANGED <<now, topics>>

\* Demand changes between two frames (subscribe_topic, unsubscribe_topic);
\* the store keeps the row of a topic nobody wants any more.
Demand(S) ==
  topics' = S /\ UNCHANGED <<storeVars, published, countVars>>

\* Time passes, or the machine's clock is set back.
ClockSet ==
  /\ now' \in {now + 1, now - 1} \cap 0..MaxTime
  /\ UNCHANGED <<rows, topics, published, countVars>>

IngestionNext ==
  \/ \E f \in Frames : ReceiveFrame(f)
  \/ \E S \in SUBSET Topics : Demand(S)
  \/ ClockSet

IngestionSpec == IngestionInit /\ [][IngestionNext]_ingestionVars

-----------------------------------------------------------------------------
Events(t) == {i \in DOMAIN published : published[i].topic = t}
Newest(places) == CHOOSE i \in places : \A j \in places : j <= i

\* The value a field has in the newest event of t that carries it.
LastKnown(t, value(_)) ==
  LET carrying == {i \in Events(t) : value(published[i]) # NoPrice}
  IN IF carrying = {} THEN NoPrice
     ELSE value(published[Newest(carrying)])

\* What a reader of the store sees of a topic is what a subscriber that got
\* every event would have pieced together field by field: the last known price
\* and sides of the book, none of them lost to a later event that does not
\* carry it, and a mid as soon as both sides are known, be it from two events.
SnapshotIsLastKnown ==
  /\ DOMAIN rows = {t \in Topics : Events(t) # {}}
  /\ \A s \in ListSnapshots :
       /\ s.last_trade_price = LastKnown(s.topic, LAMBDA e : e.price)
       /\ s.best_bid = LastKnown(s.topic, LAMBDA e : e.best_bid)
       /\ s.best_ask = LastKnown(s.topic, LAMBDA e : e.best_ask)
       /\ s.double_mid # NoPrice <=> s.best_bid # NoPrice /\ s.best_ask # NoPrice

\* "If mid_price is a number, it is (best_bid + best_ask) / 2 from the last merged
\* event that had both bid and ask" (docs/MCP_CONTEXT.md 9): the two sides of a
\* mid were quoted together.  The store does not keep to that; see the findings.
MidOfOneEvent ==
  \A s \in ListSnapshots : s.double_mid # NoPrice =>
    LET both == {i \in Events(s.topic) : published[i].best_bid # NoPrice
                                         /\ published[i].best_ask # NoPrice}
    IN /\ both # {}
       /\ s.double_mid = published[Newest(both)].best_bid + published[Newest(both)].best_ask

\* The stale flag is exact even if the clock is set back between events: it is
\* set if and only if no event of the topic is dated within the threshold.
StaleIsExact ==
  \A s \in ListSnapshots :
    s.stale <=> \A i \in Events(s.topic) : now - published[i].received_at > Threshold

\* The update time of a row never goes back, so a reader that polls sees each
\* topic advance ("handles out-of-order delivery by wall clock at the hub").
UpdatedAtAdvances ==
  [][\A t \in DOMAIN rows : /\ t \in DOMAIN rows'
                            /\ rows'[t].updated_at >= rows[t].updated_at]_ingestionVars
=============================================================================
