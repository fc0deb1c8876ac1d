----------------------------- MODULE MCHubViews -----------------------------
(***************************************************************************)
(* Three connections and two topics: a topic can be held by none, one, two *)
(* or all consumers, and a disconnect can give back two topics at once.    *)
(* One of the topics is in the default catalog.                            *)
(***************************************************************************)
EXTENDS HubViews, TLC

CONSTANTS c1, c2, c3, t1, t2, bad

MCConsumers == {c1, c2, c3}
MCTopics == {t1, t2}
MCPrices == {1}
MCDefaults == {t2}
MCBadIds == {bad}

\* No property tells the consumers apart.
MCSymmetry == Permutations(MCConsumers)
=============================================================================
