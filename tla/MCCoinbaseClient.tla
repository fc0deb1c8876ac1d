-------------------------- MODULE MCCoinbaseClient --------------------------
(***************************************************************************)
(* Two callers, one or two topics: two frames can wait behind a third that *)
(* is suspended in ws.send, with a lost connection or the stop at any      *)
(* point of it.                                                            *)
(***************************************************************************)
EXTENDS CoinbaseClient

CONSTANTS k1, k2, t1, t2

MCCallers == {k1, k2}
MCTopics == {t1, t2}
MCOneTopic == {t1}
MCNobody == {}
=============================================================================
