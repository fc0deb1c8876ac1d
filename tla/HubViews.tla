------------------------------ MODULE HubViews ------------------------------
(***************************************************************************)
(* What the hub tells those who ask: the REST routes of                    *)
(* app/api/status_routes.py and the MCP tools of app/mcp/tools.py, over    *)
(* the registry, the snapshot store and the client's topic set, which the  *)
(* Runtime of the process (app/runtime.py) makes once and hands to all.    *)
(*                                                                         *)
(* Every answer begins with `await get_status()`, whose lock is never held *)
(* across a suspension, and reads the other two stores without awaiting    *)
(* anything: all it shows is of one state, so an answer is an operator on  *)
(* the state.  Sorted lists are sets here; ages in seconds, schemas and    *)
(* wording are left out.                                                   *)
(***************************************************************************)
EXTENDS ConnectionRegistry, FiniteSetsExt

CONSTANTS
  Prices, NoPrice, Threshold,    \* of the snapshot store
  Defaults,     \* settings.default_topics
  BadIds,       \* strings that are no product id
  NoString,     \* an argument that is no string
  MaxTime       \* bound: the clock stays in 0..MaxTime

ASSUME ViewsAssumption == Topics \cap BadIds = {} /\ NoString \notin Topics \cup BadIds

VARIABLES
  rows, now,          \* the snapshot store
  upstream_topics     \* the client's set of that name

viewVars == <<registryVars, rows, now, upstream_topics>>

Store == INSTANCE SnapshotStore

-----------------------------------------------------------------------------
\* Mutation: the pairs are counted as topics.
GetStatusCountsTopics ==
  [active_downstream_consumers |-> Cardinality(DOMAIN consumers),
   topic_reference_counts |-> topic_refcounts,
   topics_with_active_demand |-> {t \in DOMAIN topic_refcounts : topic_refcounts[t] > 0},
   total_consumer_topic_pairs |-> Cardinality(DOMAIN topic_refcounts),
   consumers |-> consumers]

GetStatus ==
  [active_downstream_consumers |-> Cardinality(DOMAIN consumers),
   topic_reference_counts |-> topic_refcounts,
   topics_with_active_demand |-> {t \in DOMAIN topic_refcounts : topic_refcounts[t] > 0},
   total_consumer_topic_pairs |->
     MapThenSumSet(LAMBDA t : topic_refcounts[t], DOMAIN topic_refcounts),
   consumers |-> consumers]

HubStatus ==
  LET stale == {s.topic : s \in {x \in Store!ListSnapshots : x.stale}}
  IN [registry |-> GetStatus,
      snapshots |-> [topic_count |-> Cardinality(Store!ListSnapshots),
                     stale_topic_count |-> Cardinality(stale),
                     stale_topics |-> stale],
      coinbase_desired_topics |-> upstream_topics]

\* dict.get(topic, 0) on the counts of a status.
CountIn(refcounts, t) == IF t \in DOMAIN refcounts THEN refcounts[t] ELSE 0

\* Mutation: a topic without demand is left out.
DemandedNames == DOMAIN topic_refcounts \cup upstream_topics

\* The topics GET /topics lists.
TopicNames ==
  DOMAIN GetStatus.topic_reference_counts
    \cup {s.topic : s \in Store!ListSnapshots} \cup upstream_topics

\* GET /topics.  The snapshot of an entry is a set: without a row it is empty.
ListTopics ==
  LET refcounts == GetStatus.topic_reference_counts
  IN {[topic |-> t,
       registry_refcount |-> CountIn(refcounts, t),
       active_downstream_demand |-> CountIn(refcounts, t) > 0,
       upstream_desired |-> t \in upstream_topics,
       snapshot |-> {[stale |-> s.stale, updated_at |-> s.updated_at] :
                       s \in {x \in Store!ListSnapshots : x.topic = t}}] : t \in TopicNames}

\* GET /snapshots/{topic}: 404 without a row, whatever the string.
SnapshotForTopic(x) ==
  LET refcounts == GetStatus.topic_reference_counts
  IN IF x \in DOMAIN rows
     THEN [status |-> 200, topic |-> x,
           registry_refcount |-> CountIn(refcounts, x),
           active_downstream_demand |-> CountIn(refcounts, x) > 0,
           upstream_desired |-> x \in upstream_topics,
           snapshot |-> Store!GetSnapshot(x)]
     ELSE [status |-> 404]

-----------------------------------------------------------------------------
\* The MCP tools.  The hub keeps their names in three places: the set that a
\* call is checked against, the specs the host is given, and the dispatch.  The
\* merges of the stores are written here anew, as they are in app/mcp/tools.py.

\* Mutation: a tool that was added later is missing.
ToolNamesOutdated == {"list_available_topics", "describe_topic_schema", "get_topic_snapshot"}

ToolNames == {"list_available_topics", "describe_topic_schema",
              "get_topic_snapshot", "subscribe_to_topic_stream"}

\* The inputSchema of each tool: the properties allowed, all of them strings,
\* and those required.
ListToolSpecs ==
  {[name |-> "list_available_topics", properties |-> {}, required |-> {}],
   [name |-> "describe_topic_schema", properties |-> {"topic"}, required |-> {"topic"}],
   [name |-> "get_topic_snapshot", properties |-> {"topic"}, required |-> {"topic"}],
   [name |-> "subscribe_to_topic_stream", properties |-> {"topic"}, required |-> {"topic"}]}

ToolError(code) == [ok |-> FALSE, error_code |-> code]
ToolOk(payload) == [ok |-> TRUE, payload |-> payload]

ListAvailableTopics ==
  LET counts == GetStatus.topic_reference_counts
      snap(t) == {s \in Store!ListSnapshots : s.topic = t}
      all_names == DOMAIN counts \cup {s.topic : s \in Store!ListSnapshots}
                     \cup upstream_topics \cup Defaults
  IN ToolOk({[topic |-> name,
              registry_refcount |-> CountIn(counts, name),
              active_downstream_demand |-> CountIn(counts, name) > 0,
              upstream_desired |-> name \in upstream_topics,
              in_default_catalog |-> name \in Defaults,
              snapshot |-> {[stale |-> s.stale, updated_at |-> s.updated_at] : s \in snap(name)}] :
                name \in all_names})

\* The product id pattern, the same as that of /ws.
ValidTopicId(x) == x \in Topics

\* Answered from the settings alone.
DescribeTopicSchema(x) ==
  IF ValidTopicId(x) THEN ToolOk([topic |-> x, threshold |-> Threshold])
                     ELSE ToolError("invalid_topic")

SubscribeToTopicStream(x) ==
  IF ValidTopicId(x) THEN ToolOk([topic |-> x, path |-> "/ws"])
                     ELSE ToolError("invalid_topic")

\* Mutation: a topic without a snapshot is taken for one nobody demands.
NoSnapshotNoDemand(x) ==
  [ok |-> FALSE, error_code |-> "no_snapshot_yet",
   extra |-> [topic |-> x, registry_refcount |-> 0, active_downstream_demand |-> FALSE,
              upstream_desired |-> x \in upstream_topics]]

\* The error of a valid topic without a row, with the hints all the same.
NoSnapshotYet(x) ==
  LET counts == GetStatus.topic_reference_counts
  IN [ok |-> FALSE, error_code |-> "no_snapshot_yet",
      extra |-> [topic |-> x,
                 registry_refcount |-> CountIn(counts, x),
                 active_downstream_demand |-> CountIn(counts, x) > 0,
                 upstream_desired |-> x \in upstream_topics]]

\* The payload of a topic with a row.
SnapshotPayload(x) ==
  LET counts == GetStatus.topic_reference_counts
  IN [topic |-> x,
      registry_refcount |-> CountIn(counts, x),
      active_downstream_demand |-> CountIn(counts, x) > 0,
      upstream_desired |-> x \in upstream_topics,
      snapshot |-> Store!GetSnapshot(x)]

\* Mutation: a topic nobody wants has no snapshot.
GetWantedSnapshot(x) ==
  CASE ~ValidTopicId(x) -> ToolError("invalid_topic")
    [] x \in Topics \ (DOMAIN rows \cap DOMAIN topic_refcounts) -> NoSnapshotYet(x)
    [] OTHER -> ToolOk(SnapshotPayload(x))

GetTopicSnapshot(x) ==
  CASE ~ValidTopicId(x) -> ToolError("invalid_topic")
    [] x \in Topics \ DOMAIN rows -> NoSnapshotYet(x)
    [] OTHER -> ToolOk(SnapshotPayload(x))

\* _require_str: the topic argument, if there is one and it is a string.
RequireStr(args) == IF "topic" \in DOMAIN args THEN args["topic"] ELSE NoString

HandleTool(name, args) ==
  LET topic == RequireStr(args)
      withTopic(answer) == IF topic = NoString THEN ToolError("invalid_arguments") ELSE answer
  IN CASE name \notin ToolNames -> ToolError("unknown_tool")
       [] name = "list_available_topics" ->
            IF DOMAIN args = {} THEN ListAvailableTopics ELSE ToolError("invalid_arguments")
       [] name = "describe_topic_schema" -> withTopic(DescribeTopicSchema(topic))
       [] name = "get_topic_snapshot" -> withTopic(GetTopicSnapshot(topic))
       [] name = "subscribe_to_topic_stream" -> withTopic(SubscribeToTopicStream(topic))
       [] OTHER -> ToolError("internal_error")

\* _call_tool of the MCP server: what the host is told of a result.
CallTool(name, args) ==
  LET result == HandleTool(name, args) IN [isError |-> ~result.ok, result |-> result]

-----------------------------------------------------------------------------
ViewsInit ==
  /\ RegistryInit /\ Store!StoreInit
  /\ upstream_topics = {}

\* The registry calls of the /ws handlers.
Downstream == RegistryNext /\ UNCHANGED <<rows, now, upstream_topics>>

\* subscribe_topic and unsubscribe_topic, which the handlers call some time
\* after; in which order they come is the matter of Hub.
Upstream(t) ==
  /\ upstream_topics' \in {upstream_topics \cup {t}, upstream_topics \ {t}}
  /\ UNCHANGED <<registryVars, rows, now>>

\* An event of a wanted topic: a trade, or a ticker with both sides.
Event(t) ==
  /\ t \in upstream_topics
  /\ \E p \in Prices, side \in Prices \cup {NoPrice} :
       Store!ApplyEvent([topic |-> t, price |-> p, best_bid |-> side,
                         best_ask |-> side, received_at |-> now])
  /\ UNCHANGED <<registryVars, now, upstream_topics>>

ClockSet ==
  /\ now' \in {now + 1, now - 1} \cap 0..MaxTime
  /\ UNCHANGED <<registryVars, rows, upstream_topics>>

ViewsNext ==
  \/ Downstream
  \/ \E t \in Topics : Upstream(t) \/ Event(t)
  \/ ClockSet

ViewsSpec == ViewsInit /\ [][ViewsNext]_viewVars

-----------------------------------------------------------------------------
\* The numbers of one /status add up, though the counts and the consumers'
\* topics come from two tables that every call updates separately: the pairs
\* are as many as the consumers list, the active topics those they list.
StatusAddsUp ==
  LET listed == GetStatus.consumers
  IN /\ GetStatus.total_consumer_topic_pairs
          = Cardinality(UNION {{c} \X listed[c] : c \in DOMAIN listed})
     /\ GetStatus.topics_with_active_demand = UNION {listed[c] : c \in DOMAIN listed}

\* GET /topics is "merged names from registry, snapshot store, and upstream
\* desired set" (README): a topic that any other answer of the hub tells
\* something about is in the catalog, once, and with the same freshness.
EveryTopicListed ==
  LET listed == {e.topic : e \in ListTopics}
      stale == {e.topic : e \in {x \in ListTopics : \E s \in x.snapshot : s.stale}}
  IN /\ Cardinality(listed) = Cardinality(ListTopics)
     /\ HubStatus.coinbase_desired_topics \subseteq listed
     /\ UNION {consumers[c] : c \in DOMAIN consumers} \subseteq listed
     /\ HubStatus.snapshots.stale_topics = stale
     /\ \A x \in Topics : SnapshotForTopic(x).status = 200 => x \in listed

\* An answer about a topic says of its demand what /status shows: the count is
\* the number of the consumers listed with the topic.
AgreesWithStatus(a) ==
  LET registry == HubStatus.registry
  IN /\ a.registry_refcount =
          Cardinality({c \in DOMAIN registry.consumers : a.topic \in registry.consumers[c]})
     /\ a.active_downstream_demand = (a.topic \in registry.topics_with_active_demand)
     /\ a.upstream_desired = (a.topic \in HubStatus.coinbase_desired_topics)

\* What the catalogs show of a topic that has no snapshot, and of one that has.
NotShown(t) ==
  \A e \in ListTopics \cup ListAvailableTopics.payload : e.topic = t => e.snapshot = {}
ShownAs(t, snapshot) ==
  \A e \in ListTopics \cup ListAvailableTopics.payload :
    e.topic = t => e.snapshot = {[stale |-> snapshot.stale, updated_at |-> snapshot.updated_at]}

\* "Same snapshot source guarantees one truth" (docs/SYSTEM_ARCHITECTURE.md
\* 5.1).  The stores are merged by four functions of two modules, and /status
\* shows them as they are: each of the four says of a topic's demand what the
\* consumers of /status amount to, REST and MCP show the same snapshot or both
\* say that there is none yet, the catalogs too, and the catalogs name the same
\* topics but for the defaults.
OneTruth ==
  /\ \A e \in ListTopics \cup ListAvailableTopics.payload : AgreesWithStatus(e)
  /\ \A t \in Topics :
       LET rest == SnapshotForTopic(t)
           tool == HandleTool("get_topic_snapshot", [topic |-> t])
       IN \/ /\ rest.status = 404 /\ ~tool.ok /\ tool.error_code = "no_snapshot_yet"
             /\ AgreesWithStatus(tool.extra) /\ NotShown(t)
          \/ /\ rest.status = 200 /\ tool.ok
             /\ AgreesWithStatus(rest) /\ AgreesWithStatus(tool.payload)
             /\ tool.payload.snapshot = rest.snapshot /\ ShownAs(t, rest.snapshot)
  /\ {e.topic : e \in ListAvailableTopics.payload} = {e.topic : e \in ListTopics} \cup Defaults

\* A call that obeys the spec a host was given for its tool is never refused for
\* its shape or its name, a name without a spec is refused, a string that is no
\* product id is "rejected as invalid_topic, not silently accepted"
\* (docs/TOPICS.md 8.1), and the dispatch never falls through: the three places
\* that name the tools agree.
Arguments == UNION {[props -> Topics \cup BadIds \cup {NoString}] :
                      props \in SUBSET {"topic", "other"}}
Obeys(spec, args) ==
  /\ spec.required \subseteq DOMAIN args /\ DOMAIN args \subseteq spec.properties
  /\ \A p \in DOMAIN args : args[p] # NoString
ToolsFollowSpecs ==
  LET listed == {s.name : s \in ListToolSpecs}
  IN \A name \in listed \cup ToolNames \cup {"other_tool"}, args \in Arguments :
       LET answer == CallTool(name, args)
           code == answer.result.error_code
           obeys == \E s \in ListToolSpecs : s.name = name /\ Obeys(s, args)
       IN IF answer.isError
          THEN /\ code # "internal_error"
               /\ code = "unknown_tool" <=> name \notin listed
               /\ obeys => \/ code = "invalid_topic" /\ args["topic"] \in BadIds
                           \/ code = "no_snapshot_yet" /\ args["topic"] \in Topics
          ELSE \E s \in ListToolSpecs :
                 s.name = name /\ ("topic" \in s.required => args["topic"] \in Topics)

\* What an agent has found in the catalog with a snapshot it can read by any
\* later call, though consumers come and go and the topic may be unsubscribed
\* in between ("rows are not deleted on refcount zero", docs/TOPICS.md 6).
ListedStaysReadable ==
  [][\A e \in ListTopics : e.snapshot # {} =>
       LET tool == HandleTool("get_topic_snapshot", [topic |-> e.topic])'
       IN tool.ok]_viewVars
=============================================================================
