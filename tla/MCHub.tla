-------------------------------- MODULE MCHub --------------------------------
(***************************************************************************)
(* Two connections.  With two topics a cleanup can have two topics to give *)
(* back; with one topic the state space is small enough for liveness.      *)
(***************************************************************************)
EXTENDS Hub, TLC

CONSTANTS c1, c2, t1, t2

MCConns == {c1, c2}
MCTopics == {t1, t2}
MCOneTopic == {t1}
MCNoTopic == {}
MCNobody == {}
MCOneFaulty == {c1}

\* Only used where every property treats all connections and topics alike.
MCSymmetry == Permutations(MCConns) \cup Permutations(MCTopics)
=============================================================================
