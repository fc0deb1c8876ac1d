--------------------------- MODULE MCBrokerStreams ---------------------------
(***************************************************************************)
(* Two consumers and two topics; three messages against room for two, so a *)
(* consumer that reads nothing overflows while the other keeps up.         *)
(***************************************************************************)
EXTENDS BrokerStreams

CONSTANTS c1, c2, t1, t2

MCConsumers == {c1, c2}
MCTopics == {t1, t2}
MCMaxPublished == 3
MCMessages == [topic : MCTopics, seq : 1..MCMaxPublished]
=============================================================================
