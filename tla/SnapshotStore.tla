---------------------------- MODULE SnapshotStore ----------------------------
(***************************************************************************)
(* app/cache/snapshot_store.py: the latest known state of each topic, and  *)
(* how old it is when somebody asks.                                       *)
(*                                                                         *)
(* Nothing inside the store suspends, so an update and a read are each one *)
(* step.  The clock is the wall clock, which the machine may set back.     *)
(***************************************************************************)
EXTENDS Integers

CONSTANTS
  Topics,
  Prices,      \* prices, as integers
  NoPrice,     \* Python's None in a price field
  Threshold    \* stale_threshold_seconds

ASSUME SnapshotAssumption ==
  /\ Prices \subseteq Int /\ NoPrice \notin Int
  /\ Threshold \in Nat \ {0}            \* the constructor refuses the rest

VARIABLES
  rows,        \* topic -> its row; no key before the first event
  now          \* datetime.now(utc)

storeVars == <<rows, now>>

EmptyRow == [last_trade_price |-> NoPrice, best_bid |-> NoPrice, best_ask |-> NoPrice]

StoreInit == rows = [t \in {} |-> EmptyRow] /\ now = 0

\* Mutations: a missing field erases the row's; the row takes the time of the
\* event merged last; an age equal to the threshold is stale already.
Overwritten(old, new) == new
LastMerged(a, b) == b
IsStaleEarly(updated_at) == now - updated_at >= Threshold

\* A field present on the event replaces the row's.
Merged(old, new) == IF new = NoPrice THEN old ELSE new

Latest(a, b) == IF a >= b THEN a ELSE b

ApplyEvent(e) ==
  LET known == e.topic \in DOMAIN rows
      row == IF known THEN rows[e.topic] ELSE EmptyRow
      merged == [last_trade_price |-> Merged(row.last_trade_price, e.price),
                 best_bid |-> Merged(row.best_bid, e.best_bid),
                 best_ask |-> Merged(row.best_ask, e.best_ask),
                 updated_at |-> IF known THEN Latest(row.updated_at, e.received_at)
                                         ELSE e.received_at]
  IN rows' = [t \in DOMAIN rows \cup {e.topic} |->
                IF t = e.topic THEN merged ELSE rows[t]]

\* Every row has an update time, as a row is made by the event that dates it.
IsStale(updated_at) == now - updated_at > Threshold

\* Twice the mid price, known only when both sides of the book are.
DoubleMid(bid, ask) == IF bid = NoPrice \/ ask = NoPrice THEN NoPrice ELSE bid + ask

GetSnapshot(t) ==
  [topic |-> t,
   last_trade_price |-> rows[t].last_trade_price,
   best_bid |-> rows[t].best_bid,
   best_ask |-> rows[t].best_ask,
   double_mid |-> DoubleMid(rows[t].best_bid, rows[t].best_ask),
   updated_at |-> rows[t].updated_at,
   stale |-> IsStale(rows[t].updated_at)]

ListSnapshots == {GetSnapshot(t) : t \in DOMAIN rows}

\* A snapshot of every topic with an update, with known fields only.
StoreTypeOK ==
  /\ DOMAIN rows \subseteq Topics
  /\ \A t \in DOMAIN rows :
       rows[t] \in [last_trade_price : Prices \cup {NoPrice},
                    best_bid : Prices \cup {NoPrice},
                    best_ask : Prices \cup {NoPrice},
                    updated_at : Int]
  /\ now \in Int
=============================================================================
