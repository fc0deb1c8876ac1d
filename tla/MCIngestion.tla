----------------------------- MODULE MCIngestion -----------------------------
(***************************************************************************)
(* Three frames for up to two topics, over a clock that can go past the    *)
(* threshold and come back.                                                *)
(***************************************************************************)
EXTENDS Ingestion

CONSTANTS t1, t2, Bad

Frame(type, t, price, bid, ask) ==
  [type |-> type, product_id |-> t, price |-> price, best_bid |-> bid, best_ask |-> ask]

MCTopics == {t1, t2}
MCPrices == {1, 2}

\* Every ticker of t1, with and without each field; trades with and without a
\* price; a topic of its own; and frames that mean nothing to the hub.
MCFrames ==
  {Frame("ticker", t1, p, b, a) : p \in {1, Bad}, b \in {1, 2, NoPrice}, a \in {2, Bad}}
  \cup {Frame(type, t1, p, 1, 2) : type \in {"match", "last_match"}, p \in {2, Bad}}
  \cup {Frame("match", t2, 1, NoPrice, NoPrice)}
  \cup {Frame("ticker", Bad, 1, 1, 2), Frame("heartbeat", t1, 1, 1, 2),
        Frame("garbage", t1, 1, 1, 2)}
=============================================================================
