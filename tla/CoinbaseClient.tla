--------------------------- MODULE CoinbaseClient ---------------------------
(***************************************************************************)
(* app/ingestion/coinbase_client.py: one upstream socket whose             *)
(* subscriptions follow the set _topics, kept by a runner task that        *)
(* reconnects for ever, and called by any number of other tasks.           *)
(*                                                                         *)
(* Tasks of one event loop switch only at an await that suspends.  _lock   *)
(* is never held across one, so it is never contended and disappears.      *)
(* _ws_lock is held across ws.send; asyncio.Lock is first come first       *)
(* served, so the lock is the queue of the tasks that have it or wait for  *)
(* it.  An action is what one task does between two suspensions: a task    *)
(* that finds _ws_lock free takes it, uses it and goes on in the same      *)
(* action.                                                                 *)
(*                                                                         *)
(* The process starts the client once and stops it once (Runtime.startup   *)
(* and shutdown, from the lifespan of app/main.py).                        *)
(***************************************************************************)
EXTENDS Integers, Sequences, SequencesExt

CONSTANTS
  Callers,      \* tasks that call subscribe_topic and unsubscribe_topic
  Topics,
  Runner,       \* the task of _run_loop
  Stopper,      \* the task that calls stop
  Faulty,       \* callers whose ws.send may raise what _send_json lets through
  FatalFrames,  \* whether the exchange may send a frame whose numbers overflow
  MaxDrops      \* bound: connections lost in a behaviour

ASSUME ClientAssumption ==
  /\ Runner \notin Callers /\ Stopper \notin Callers /\ Runner # Stopper
  /\ Faulty \subseteq Callers
  /\ FatalFrames \in BOOLEAN
  /\ MaxDrops \in Nat

VARIABLES
  topics,    \* _topics: the products the hub wants
  ws,        \* _ws: "none", or "set" to the socket of the runner
  sock,      \* the runner's socket: "none" before the first, "open", "closed"
  wire,      \* products the exchange has subscribed on the open socket
  ws_lock,   \* _ws_lock: its owner or next owner first, then who waits, each
             \* with the control frame it is going to send
  in_send,   \* the owner of _ws_lock is suspended inside ws.send
  call,      \* caller -> "wait" for _ws_lock, "send", "returned" or "raised"
  runner,    \* where the runner is suspended
  exiting,   \* an exception the loop does not catch is unwinding the runner
  cancel,    \* stop has cancelled the runner, which has not run since
  stop,      \* the event _stop
  stopper,   \* where stop is suspended
  drops      \* connections lost so far

callVars == <<topics, call>>
stopVars == <<stop, stopper>>
clientVars == <<topics, ws, sock, wire, ws_lock, in_send, call, runner,
                exiting, cancel, stop, stopper, drops>>

Frame(op, S) == [op |-> op, topics |-> S]
NoFrame == Frame("none", {})     \* of a task that wants the lock to set _ws

\* Task x in the queue of _ws_lock, with the frame f.
Entry(x, f) == [task |-> x, frame |-> f]

\* What a control frame makes of the exchange's subscriptions (external).
Applied(f) == IF f.op = "subscribe" THEN wire \cup f.topics ELSE wire \ f.topics

\* The attribute _ws holds a socket that can still send.
WsIsOpen == ws = "set" /\ sock = "open"

\* The task at the front of _ws_lock has it, or can take it.
Granted(x) == ws_lock # <<>> /\ Head(ws_lock).task = x /\ ~in_send

\* The frame of the task at the front.
FirstFrame == Head(ws_lock).frame

-----------------------------------------------------------------------------
ClientInit ==
  /\ topics = {}
  /\ ws = "none" /\ sock = "none" /\ wire = {}
  /\ ws_lock = <<>> /\ in_send = FALSE
  /\ call = [k \in Callers |-> "returned"]
  /\ runner = "connecting"
  /\ exiting = FALSE /\ cancel = FALSE
  /\ stop = FALSE /\ stopper = "none"
  /\ drops = 0

-----------------------------------------------------------------------------
\* _send_json once the lock is held: x leaves frame f on the socket and hands
\* the lock to the queue q, or is suspended by the transport and keeps it.
Sent(f, q) == wire' = Applied(f) /\ ws_lock' = q /\ in_send' = FALSE
Skipped(q) == ws_lock' = q /\ in_send' = FALSE /\ UNCHANGED wire
Suspended(x, f, q) == ws_lock' = <<Entry(x, f)>> \o q /\ in_send' = TRUE /\ UNCHANGED wire

Returns(k, how) == call' = [call EXCEPT ![k] = how]

CallerSend(k, f, q) ==
  \/ ~WsIsOpen /\ Skipped(q) /\ Returns(k, "returned")
  \/ WsIsOpen /\ Sent(f, q) /\ Returns(k, "returned")
  \/ WsIsOpen /\ Suspended(k, f, q) /\ Returns(k, "send")
  \/ WsIsOpen /\ k \in Faulty /\ Skipped(q) /\ Returns(k, "raised")

SendJson(k, f) ==
  /\ call[k] \in {"returned", "raised"}
  /\ \/ ws_lock = <<>> /\ CallerSend(k, f, <<>>)
     \/ /\ ws_lock # <<>>
        /\ ws_lock' = Append(ws_lock, Entry(k, f))
        /\ Returns(k, "wait")
        /\ UNCHANGED <<wire, in_send>>
  /\ UNCHANGED <<ws, sock, runner, exiting, cancel, stopVars, drops>>

\* Mutation: the list of products is added in place of the product.
SubscribeAddsList(k, t) ==
  topics' = topics \cup {{t}} /\ SendJson(k, Frame("subscribe", {t}))

SubscribeTopic(k, t) ==
  topics' = topics \cup {t} /\ SendJson(k, Frame("subscribe", {t}))

\* Mutation: the topic stays in the wanted set.
UnsubscribeForgetsDiscard(k, t) ==
  UNCHANGED topics /\ SendJson(k, Frame("unsubscribe", {t}))

UnsubscribeTopic(k, t) ==
  topics' = topics \ {t} /\ SendJson(k, Frame("unsubscribe", {t}))

CallerLocked(k) ==
  /\ call[k] = "wait" /\ Granted(k)
  /\ CallerSend(k, FirstFrame, Tail(ws_lock))
  /\ UNCHANGED <<topics, ws, sock, runner, exiting, cancel, stopVars, drops>>

\* Mutation: a send on a connection that was lost meanwhile never ends.
CallerSentIfOpen(k) ==
  /\ call[k] = "send" /\ sock = "open"
  /\ Sent(FirstFrame, Tail(ws_lock)) /\ Returns(k, "returned")
  /\ UNCHANGED <<topics, ws, sock, runner, exiting, cancel, stopVars, drops>>

\* ws.send returns, or raises ConnectionClosed, which is logged and swallowed.
CallerSent(k) ==
  /\ call[k] = "send"
  /\ \/ sock = "open" /\ Sent(FirstFrame, Tail(ws_lock)) /\ Returns(k, "returned")
     \/ sock # "open" /\ Skipped(Tail(ws_lock)) /\ Returns(k, "returned")
     \/ k \in Faulty /\ Skipped(Tail(ws_lock)) /\ Returns(k, "raised")
  /\ UNCHANGED <<topics, ws, sock, runner, exiting, cancel, stopVars, drops>>

-----------------------------------------------------------------------------
\* The finally block of _run_loop, from the moment _set_ws(None) has the lock:
\* the attribute is cleared, an open socket closed, and the loop goes on to
\* its backoff unless an exception is unwinding it or stop was called.
AfterFinally(unwinding) == IF unwinding \/ stop THEN "done" ELSE "backoff"

\* Mutation: the socket is forgotten and not closed.
ClearWsOnly(q, unwinding) ==
  /\ ws' = "none" /\ ws_lock' = q
  /\ runner' = AfterFinally(unwinding)
  /\ UNCHANGED <<sock, wire>>

ClearWs(q, unwinding) ==
  /\ ws' = "none" /\ ws_lock' = q /\ wire' = {}
  /\ IF sock = "open" THEN sock' = "closed" /\ runner' = "closing"
                      ELSE runner' = AfterFinally(unwinding) /\ UNCHANGED sock

\* The runner leaves the try block while the tasks q have or want the lock.
EnterFinally(q, unwinding) ==
  \/ q = <<>> /\ ClearWs(q, unwinding)
  \/ /\ q # <<>>
     /\ ws_lock' = Append(q, Entry(Runner, NoFrame)) /\ runner' = "clear_wait"
     /\ UNCHANGED <<ws, sock, wire>>

\* _send_json of the runner, whose exceptions are all swallowed.
RunnerSend(f, q, open) ==
  \/ ~open /\ Skipped(q) /\ runner' = "receive"
  \/ open /\ Sent(f, q) /\ runner' = "receive"
  \/ open /\ Suspended(Runner, f, q) /\ runner' = "sub_send"

\* Mutation: nothing is subscribed again after a connect.
SetWsOnly(q, open) == ws' = "set" /\ Skipped(q) /\ runner' = "receive"

\* _set_ws(ws) has the lock; _wire_subscribe_all follows without suspending
\* until it needs the lock again, behind the tasks q.
SetWsAndSubscribe(q, open) ==
  /\ ws' = "set"
  /\ \/ topics = {} /\ Skipped(q) /\ runner' = "receive"
     \/ topics # {} /\ q = <<>> /\ RunnerSend(Frame("subscribe", topics), q, open)
     \/ /\ topics # {} /\ q # <<>>
        /\ ws_lock' = Append(q, Entry(Runner, Frame("subscribe", topics)))
        /\ runner' = "sub_wait"
        /\ UNCHANGED <<wire, in_send>>

\* The runner runs an ordinary step: no cancellation is waiting for it.
Running(pc) == runner = pc /\ ~cancel

Connected ==
  /\ Running("connecting")
  /\ sock' = "open"
  /\ \/ ws_lock = <<>> /\ SetWsAndSubscribe(<<>>, TRUE)
     \/ /\ ws_lock # <<>>
        /\ ws_lock' = Append(ws_lock, Entry(Runner, NoFrame)) /\ runner' = "set_wait"
        /\ UNCHANGED <<ws, wire, in_send>>
  /\ UNCHANGED <<callVars, exiting, cancel, stopVars, drops>>

ConnectFailed ==
  /\ Running("connecting")
  /\ EnterFinally(ws_lock, exiting)
  /\ UNCHANGED <<callVars, in_send, exiting, cancel, stopVars, drops>>

WsLocked ==
  /\ Running("set_wait") /\ Granted(Runner)
  /\ SetWsAndSubscribe(Tail(ws_lock), sock = "open")
  /\ UNCHANGED <<callVars, sock, exiting, cancel, stopVars, drops>>

SubscribeAllLocked ==
  /\ Running("sub_wait") /\ Granted(Runner)
  /\ RunnerSend(FirstFrame, Tail(ws_lock), sock = "open")
  /\ UNCHANGED <<callVars, ws, sock, exiting, cancel, stopVars, drops>>

SubscribeAllSent ==
  /\ Running("sub_send")
  /\ runner' = "receive"
  /\ IF sock = "open" THEN Sent(FirstFrame, Tail(ws_lock))
                      ELSE Skipped(Tail(ws_lock))
  /\ UNCHANGED <<callVars, ws, sock, exiting, cancel, stopVars, drops>>

\* recv raises ConnectionClosed once the frames received before are used up.
ReceiveEnds ==
  /\ Running("receive") /\ sock # "open"
  /\ EnterFinally(ws_lock, exiting)
  /\ UNCHANGED <<callVars, in_send, exiting, cancel, stopVars, drops>>

\* A frame with an integer that float() or json.loads refuses: OverflowError
\* and ValueError pass through _dispatch_raw and every handler of _run_loop.
ReceiveFatal ==
  /\ FatalFrames /\ Running("receive")
  /\ exiting' = TRUE
  /\ EnterFinally(ws_lock, TRUE)
  /\ UNCHANGED <<callVars, in_send, cancel, stopVars, drops>>

ClearLocked ==
  /\ Running("clear_wait") /\ Granted(Runner)
  /\ ClearWs(Tail(ws_lock), exiting)
  /\ UNCHANGED <<callVars, in_send, exiting, cancel, stopVars, drops>>

SocketClosed ==
  /\ Running("closing")
  /\ runner' = AfterFinally(exiting)
  /\ UNCHANGED <<callVars, ws, sock, wire, ws_lock, in_send, exiting, cancel, stopVars, drops>>

BackoffOver ==
  /\ Running("backoff")
  /\ runner' = "connecting"
  /\ UNCHANGED <<callVars, ws, sock, wire, ws_lock, in_send, exiting, cancel, stopVars, drops>>

\* Mutation: a cancelled runner keeps the place at which it waits for the lock.
CancelledKeepsPlace ==
  /\ cancel /\ cancel' = FALSE
  /\ exiting' = TRUE
  /\ in_send' = (in_send /\ runner # "sub_send")
  /\ LET q == IF runner = "sub_send" THEN Tail(ws_lock) ELSE ws_lock
     IN \/ /\ runner \in {"connecting", "set_wait", "sub_wait", "sub_send", "receive"}
           /\ EnterFinally(q, TRUE)
        \/ /\ runner \in {"clear_wait", "closing", "backoff"}
           /\ runner' = "done" /\ ws_lock' = q
           /\ UNCHANGED <<ws, sock, wire>>
  /\ UNCHANGED <<callVars, stopVars, drops>>

\* CancelledError, raised where the runner is suspended.  It gives up its
\* place at the lock, or the lock, and unwinds through the finally block; in
\* the finally block already, it skips the rest of it.
RunnerCancelled ==
  /\ cancel /\ cancel' = FALSE
  /\ exiting' = TRUE
  /\ in_send' = (in_send /\ runner # "sub_send")
  /\ LET q == RemoveFirstMatch(ws_lock, LAMBDA e : e.task = Runner)
     IN \/ /\ runner \in {"connecting", "set_wait", "sub_wait", "sub_send", "receive"}
           /\ EnterFinally(q, TRUE)
        \/ /\ runner \in {"clear_wait", "closing", "backoff"}
           /\ runner' = "done" /\ ws_lock' = q
           /\ UNCHANGED <<ws, sock, wire>>
  /\ UNCHANGED <<callVars, stopVars, drops>>

RunnerStep ==
  \/ Connected \/ ConnectFailed \/ WsLocked
  \/ SubscribeAllLocked \/ SubscribeAllSent
  \/ ReceiveEnds \/ ReceiveFatal
  \/ ClearLocked \/ SocketClosed \/ BackoffOver
  \/ RunnerCancelled

-----------------------------------------------------------------------------
\* Mutation: stop sets the event and counts on the loop to look at it.
StopWithoutCancel ==
  /\ stopper = "none"
  /\ stop' = TRUE
  /\ stopper' = (IF runner = "done" THEN "failed" ELSE "joining")
  /\ UNCHANGED <<callVars, ws, sock, wire, ws_lock, in_send, runner, exiting,
                 cancel, drops>>

\* stop cancels the runner and waits for it.  Waiting for a runner that died
\* of an exception of its own raises that exception in stop.
Stop ==
  /\ stopper = "none"
  /\ stop' = TRUE
  /\ IF runner = "done" THEN stopper' = "failed" /\ UNCHANGED cancel
                        ELSE stopper' = "joining" /\ cancel' = TRUE
  /\ UNCHANGED <<callVars, ws, sock, wire, ws_lock, in_send, runner, exiting, drops>>

\* _close_ws once it has the lock, with the tasks q behind it.
CloseWs(q) ==
  /\ ws' = "none" /\ ws_lock' = q
  /\ IF WsIsOpen THEN sock' = "closed" /\ wire' = {} /\ stopper' = "closing"
                 ELSE stopper' = "done" /\ UNCHANGED <<sock, wire>>

\* Mutation: stop does not wait for the runner.
StopDoesNotJoin ==
  /\ stopper = "joining" /\ ws_lock = <<>> /\ CloseWs(<<>>)
  /\ UNCHANGED <<callVars, in_send, runner, exiting, cancel, stop, drops>>

StopJoined ==
  /\ stopper = "joining" /\ runner = "done"
  /\ \/ ws_lock = <<>> /\ CloseWs(<<>>)
     \/ /\ ws_lock # <<>>
        /\ ws_lock' = Append(ws_lock, Entry(Stopper, NoFrame)) /\ stopper' = "close_wait"
        /\ UNCHANGED <<ws, sock, wire>>
  /\ UNCHANGED <<callVars, in_send, runner, exiting, cancel, stop, drops>>

StopLocked ==
  /\ stopper = "close_wait" /\ Granted(Stopper)
  /\ CloseWs(Tail(ws_lock))
  /\ UNCHANGED <<callVars, in_send, runner, exiting, cancel, stop, drops>>

StopClosed ==
  /\ stopper = "closing" /\ stopper' = "done"
  /\ UNCHANGED <<callVars, ws, sock, wire, ws_lock, in_send, runner,
                 exiting, cancel, stop, drops>>

StopStep == StopJoined \/ StopLocked \/ StopClosed

\* The exchange, the network or a missed ping ends the connection.
ConnectionLost ==
  /\ sock = "open" /\ drops < MaxDrops
  /\ sock' = "closed" /\ wire' = {} /\ drops' = drops + 1
  /\ UNCHANGED <<callVars, ws, ws_lock, in_send, runner, exiting, cancel, stopVars>>

-----------------------------------------------------------------------------
CallerStep(k) == CallerLocked(k) \/ CallerSent(k)

ClientNext ==
  \/ \E k \in Callers, t \in Topics : SubscribeTopic(k, t) \/ UnsubscribeTopic(k, t)
  \/ \E k \in Callers : CallerStep(k)
  \/ RunnerStep
  \/ Stop \/ StopStep
  \/ ConnectionLost

\* A task that can run is run; ws.send and ws.close end (a dead peer is found
\* by ping_timeout and close_timeout); the backoff timer fires; an exchange
\* that is asked again and again accepts a connection at last.
ClientFairness ==
  /\ \A k \in Callers : WF_clientVars(CallerStep(k))
  /\ WF_clientVars(RunnerStep) /\ SF_clientVars(Connected)
  /\ WF_clientVars(StopStep)

ClientSpec == ClientInit /\ [][ClientNext]_clientVars

FairClientSpec == ClientSpec /\ ClientFairness

-----------------------------------------------------------------------------
\* The states and places the client's tasks can be in.
ClientTypeOK ==
  /\ topics \subseteq Topics /\ wire \subseteq Topics
  /\ ws \in {"none", "set"} /\ sock \in {"none", "open", "closed"}
  /\ ws_lock \in Seq([task : Callers \cup {Runner, Stopper},
                      frame : [op : {"subscribe", "unsubscribe", "none"},
                               topics : SUBSET Topics]])
  /\ in_send \in BOOLEAN /\ exiting \in BOOLEAN
  /\ cancel \in BOOLEAN /\ stop \in BOOLEAN
  /\ call \in [Callers -> {"wait", "send", "returned", "raised"}]
  /\ runner \in {"connecting", "set_wait", "sub_wait", "sub_send", "receive",
                 "clear_wait", "closing", "backoff", "done"}
  /\ stopper \in {"none", "joining", "close_wait", "closing", "done", "failed"}
  /\ drops \in 0..MaxDrops

\* The tasks suspended in _ws_lock.acquire or holding the lock across ws.send,
\* and those suspended inside ws.send.
Waiters ==
  {k \in Callers : call[k] \in {"wait", "send"}}
  \cup {x \in {Runner} : runner \in {"set_wait", "sub_wait", "sub_send", "clear_wait"}}
  \cup {x \in {Stopper} : stopper = "close_wait"}
Senders ==
  {k \in Callers : call[k] = "send"} \cup {x \in {Runner} : runner = "sub_send"}

\* A task that waits for the send lock has one place in its queue, every place
\* is of a task that still waits, and who sends is first.  A place that a
\* cancelled or finished task left behind would never be given up: every later
\* call, and stop, would wait behind it for ever.
LockServesWaiters ==
  /\ \A i, j \in DOMAIN ws_lock : ws_lock[i].task = ws_lock[j].task => i = j
  /\ {ws_lock[i].task : i \in DOMAIN ws_lock} = Waiters
  /\ Senders = IF in_send THEN {Head(ws_lock).task} ELSE {}

\* "Keeps the upstream subscription set in sync with hub demand" (module
\* docstring): whenever the reader is reading from an open socket and nobody
\* has or wants the send lock, the exchange serves exactly the wanted topics.
\* Subscribes, unsubscribes and the full re-subscribe after a reconnect race
\* for one lock, each with a frame made before it waited.
WireInSync ==
  runner = "receive" /\ WsIsOpen /\ ws_lock = <<>> => wire = topics

\* While frames are still queued, the last one that mentions a topic decides
\* about it: no frame still to be sent is older than the demand it expresses.
Pending(t) == {i \in DOMAIN ws_lock : t \in ws_lock[i].frame.topics}
WillBeServed(t) ==
  IF Pending(t) = {} THEN t \in wire
  ELSE \E i \in Pending(t) : /\ \A j \in Pending(t) : j <= i
                              /\ ws_lock[i].frame.op = "subscribe"
QueuedFramesLeadToDemand ==
  runner \in {"sub_wait", "sub_send", "receive"} /\ WsIsOpen =>
    \A t \in Topics : WillBeServed(t) <=> t \in topics

\* No open socket is ever left without a task that will close it: the runner
\* still has its finally block ahead, or stop still has _close_ws ahead.
NoOrphanSocket ==
  sock = "open" =>
    \/ runner \in {"set_wait", "sub_wait", "sub_send", "receive", "clear_wait"}
    \/ ws = "set" /\ stopper \in {"joining", "close_wait"}

\* Once stop has returned, nothing of the client is left: the task is over,
\* the socket closed, and the attribute cleared, so that no later call sends.
StopLeavesNothing ==
  stopper = "done" => runner = "done" /\ sock # "open" /\ ws = "none"

\* Every subscribe_topic and unsubscribe_topic comes back to its caller,
\* through lost connections, suspended sends, reconnects and a stop.
CallsReturn ==
  \A k \in Callers : call[k] \in {"wait", "send"} ~> call[k] \in {"returned", "raised"}

\* A topic that stays wanted is served for good in the end, and one that
\* stays unwanted is not, whatever was lost on the way: sends made while
\* there is no socket are dropped without a word and made up by the
\* re-subscribe after the next connect.
DemandReachesWire ==
  \A t \in Topics :
    /\ <>[](t \in topics /\ ~stop) => <>[](t \in wire)
    /\ <>[](t \notin topics) => <>[](t \notin wire)

\* stop comes back, wherever it met the runner.  What it leaves behind then is
\* said by StopLeavesNothing.
StopReturns == stop ~> stopper \in {"done", "failed"}

\* "Malformed frames are skipped with a log line; transport errors trigger a
\* capped exponential backoff reconnect": only stop ends the runner.
OnlyStopEndsRunner == runner = "done" => stop
=============================================================================
