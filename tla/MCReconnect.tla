----------------------------- MODULE MCReconnect -----------------------------
(***************************************************************************)
(* Two callers over one topic, two connections lost, any number of failed  *)
(* attempts; the default base and cap, in seconds, with the jitter at its  *)
(* extremes.                                                               *)
(***************************************************************************)
EXTENDS Reconnect

CONSTANTS k1, k2, t1

MCCallers == {k1, k2}
MCTopics == {t1}
MCNobody == {}
MCJitters == {8, 12}
=============================================================================
