------------------------ MODULE CoinbaseClientProofs ------------------------
(***************************************************************************)
(* The upstream client, for any callers, topics, faults and any number of  *)
(* lost connections: every open socket has a task that is going to close   *)
(* it, the queue of _ws_lock is that of the tasks that wait for it, and    *)
(* the exchange serves what the hub wants.                                 *)
(***************************************************************************)
EXTENDS CoinbaseClient, TLAPS, SequenceTheorems

(***************************************************************************)
(* Sockets: an open one always has a task that is going to close it, and   *)
(* stop leaves none.                                                       *)
(***************************************************************************)
\* A cancellation waits only while stop joins a runner that is still there,
\* and stop goes on only after a runner that is done.
StopFollowsRunner ==
  /\ cancel => stopper = "joining" /\ runner # "done"
  /\ stopper \in {"close_wait", "closing", "done", "failed"} => runner = "done"

\* Where an open socket may be, and whether _ws refers to it.  The cases that
\* NoOrphanSocket does not tell apart are what a cancellation depends on: one
\* that meets the runner in its finally block leaves the socket to stop, which
\* finds it only through _ws.
SocketHasOwner ==
  sock = "open" =>
    \/ runner = "set_wait"
    \/ runner \in {"sub_wait", "sub_send", "receive"} /\ ws = "set"
    \/ runner = "clear_wait" /\ (ws = "set" \/ (stopper = "joining" /\ ~cancel))
    \/ runner = "done" /\ ws = "set" /\ stopper \in {"joining", "close_wait"}

\* What stop has closed or found closed stays so.
StopClosesLast ==
  stopper \in {"closing", "done"} => ws = "none" /\ sock # "open"

SocketInv == StopFollowsRunner /\ SocketHasOwner /\ StopClosesLast

-----------------------------------------------------------------------------
\* The invariant speaks of these variables only.
socketVars == <<ws, sock, runner, cancel, stopper>>

LEMMA SocketInvStutters ==
  ASSUME SocketInv, UNCHANGED socketVars
  PROVE  SocketInv'
BY DEF SocketInv, StopFollowsRunner, SocketHasOwner, StopClosesLast, socketVars

\* Calls move topics, frames and the lock: no socket.
LEMMA CallsKeepSockets ==
  ASSUME NEW k \in Callers,
         \/ \E t \in Topics : SubscribeTopic(k, t) \/ UnsubscribeTopic(k, t)
         \/ CallerStep(k)
  PROVE  UNCHANGED socketVars
BY DEF SubscribeTopic, UnsubscribeTopic, SendJson, CallerStep, CallerLocked,
       CallerSent, stopVars, socketVars

\* In the finally block an open socket is closed, or waits for the lock in the
\* hands of the runner; one that is not open does not matter.
LEMMA FinallyEffect ==
  ASSUME NEW q, NEW unwinding, EnterFinally(q, unwinding)
  PROVE  \/ sock' # "open" /\ runner' \in {"closing", "backoff", "done"} /\ ws' = "none"
         \/ sock' = sock /\ runner' = "clear_wait" /\ ws' = ws
BY DEF EnterFinally, ClearWs, AfterFinally

\* A runner that has its socket leads it into _ws before anything else.
LEMMA SetWsEffect ==
  ASSUME NEW q, NEW open, SetWsAndSubscribe(q, open)
  PROVE  ws' = "set" /\ runner' \in {"sub_wait", "sub_send", "receive"}
BY DEF SetWsAndSubscribe, RunnerSend

\* Steps of a runner that is not being cancelled.
LEMMA RunnerKeepsSocketInv ==
  ASSUME SocketInv, RunnerStep, ~RunnerCancelled
  PROVE  SocketInv'
<1> USE DEF SocketInv, StopFollowsRunner, SocketHasOwner, StopClosesLast
<1>1. CASE Connected
  <2>1. /\ runner = "connecting" /\ ~cancel /\ sock' = "open"
        /\ UNCHANGED <<cancel, stopper>>
    BY <1>1 DEF Connected, Running, stopVars
  <2>2. \/ ws' = "set" /\ runner' \in {"sub_wait", "sub_send", "receive"}
        \/ runner' = "set_wait"
    BY <1>1, SetWsEffect DEF Connected
  <2>3. QED
    BY <2>1, <2>2
<1>2. CASE ConnectFailed
  <2>1. /\ runner = "connecting" /\ ~cancel
        /\ UNCHANGED <<cancel, stopper>>
    BY <1>2 DEF ConnectFailed, Running, stopVars
  <2>2. \/ sock' # "open" /\ runner' \in {"closing", "backoff", "done"} /\ ws' = "none"
        \/ sock' = sock /\ runner' = "clear_wait" /\ ws' = ws
    BY <1>2, FinallyEffect DEF ConnectFailed
  <2>3. QED
    BY <2>1, <2>2
<1>3. CASE WsLocked
  <2>1. /\ runner = "set_wait" /\ ~cancel /\ sock' = sock
        /\ UNCHANGED <<cancel, stopper>>
    BY <1>3 DEF WsLocked, Running, stopVars
  <2>2. ws' = "set" /\ runner' \in {"sub_wait", "sub_send", "receive"}
    BY <1>3, SetWsEffect DEF WsLocked
  <2>3. QED
    BY <2>1, <2>2
<1>4. CASE SubscribeAllLocked \/ SubscribeAllSent
  <2>1. /\ runner \in {"sub_wait", "sub_send"} /\ ~cancel
        /\ UNCHANGED <<ws, sock, cancel, stopper>>
        /\ runner' \in {"sub_send", "receive"}
    BY <1>4 DEF SubscribeAllLocked, SubscribeAllSent, RunnerSend, Running, stopVars
  <2>2. QED
    BY <2>1
<1>5. CASE ReceiveEnds \/ ReceiveFatal
  <2>1. /\ runner = "receive" /\ ~cancel
        /\ UNCHANGED <<cancel, stopper>>
    BY <1>5 DEF ReceiveEnds, ReceiveFatal, Running, stopVars
  <2>2. \/ sock' # "open" /\ runner' \in {"closing", "backoff", "done"} /\ ws' = "none"
        \/ sock' = sock /\ runner' = "clear_wait" /\ ws' = ws
    BY <1>5, FinallyEffect DEF ReceiveEnds, ReceiveFatal
  <2>3. QED
    BY <2>1, <2>2
<1>6. CASE ClearLocked
  <2>1. /\ runner = "clear_wait" /\ ~cancel
        /\ UNCHANGED <<cancel, stopper>>
        /\ sock' # "open" /\ runner' \in {"closing", "backoff", "done"} /\ ws' = "none"
    BY <1>6 DEF ClearLocked, ClearWs, AfterFinally, Running, stopVars
  <2>2. QED
    BY <2>1
<1>7. CASE SocketClosed \/ BackoffOver
  <2>1. /\ runner \in {"closing", "backoff"} /\ ~cancel
        /\ UNCHANGED <<ws, sock, cancel, stopper>>
        /\ runner' \in {"connecting", "backoff", "done"}
    BY <1>7 DEF SocketClosed, BackoffOver, AfterFinally, Running, stopVars
  <2>2. sock # "open"
    BY <2>1
  <2>3. QED
    BY <2>1, <2>2
<1>8. QED
  BY <1>1, <1>2, <1>3, <1>4, <1>5, <1>6, <1>7 DEF RunnerStep

\* A cancelled runner closes its socket on the way out, or leaves it in _ws.
LEMMA CancelKeepsSocketInv ==
  ASSUME SocketInv, RunnerCancelled
  PROVE  SocketInv'
<1> USE DEF SocketInv, StopFollowsRunner, SocketHasOwner, StopClosesLast
<1> DEFINE q == RemoveFirstMatch(ws_lock, LAMBDA e : e.task = Runner)
<1>1. cancel /\ cancel' = FALSE /\ stopper = "joining" /\ stopper' = "joining"
  BY DEF RunnerCancelled, stopVars
<1>2. CASE /\ runner \in {"connecting", "set_wait", "sub_wait", "sub_send", "receive"}
           /\ EnterFinally(q, TRUE)
  <2>1. \/ sock' # "open" /\ runner' \in {"closing", "backoff", "done"} /\ ws' = "none"
        \/ sock' = sock /\ runner' = "clear_wait" /\ ws' = ws
    <3> HIDE DEF q
    <3> QED
      BY <1>2, FinallyEffect
  <2>2. QED
    BY <1>1, <1>2, <2>1
<1>3. CASE /\ runner \in {"clear_wait", "closing", "backoff"}
           /\ runner' = "done"
           /\ UNCHANGED <<ws, sock, wire>>
  BY <1>1, <1>3
<1>4. QED
  BY <1>2, <1>3 DEF RunnerCancelled

\* stop cancels a runner that is there, and closes what it finds once it is not.
LEMMA StopKeepsSocketInv ==
  ASSUME SocketInv, Stop \/ StopStep
  PROVE  SocketInv'
<1> USE DEF SocketInv, StopFollowsRunner, SocketHasOwner, StopClosesLast
<1>1. CASE Stop
  BY <1>1 DEF Stop
<1>2. ASSUME NEW q, CloseWs(q), runner = "done", runner' = "done", cancel' = cancel
      PROVE  SocketInv'
  BY <1>2 DEF CloseWs, WsIsOpen
<1>3. CASE StopJoined
  <2>1. runner = "done" /\ runner' = "done" /\ cancel' = cancel /\ stopper = "joining"
    BY <1>3 DEF StopJoined
  <2>2. CASE CloseWs(<<>>)
    BY <1>2, <2>1, <2>2
  <2>3. CASE stopper' = "close_wait" /\ UNCHANGED <<ws, sock, wire>>
    BY <2>1, <2>3
  <2>4. QED
    BY <1>3, <2>2, <2>3 DEF StopJoined
<1>4. CASE StopLocked
  <2>1. /\ runner = "done" /\ runner' = "done" /\ cancel' = cancel
        /\ CloseWs(Tail(ws_lock))
    BY <1>4 DEF StopLocked
  <2>2. QED
    BY <1>2, <2>1
<1>5. CASE StopClosed
  BY <1>5 DEF StopClosed
<1>6. QED
  BY <1>1, <1>3, <1>4, <1>5 DEF StopStep

\* A lost connection only closes.
LEMMA LossKeepsSocketInv ==
  ASSUME SocketInv, ConnectionLost
  PROVE  SocketInv'
BY DEF SocketInv, StopFollowsRunner, SocketHasOwner, StopClosesLast,
       ConnectionLost, stopVars

\* In every reachable state each open socket is in the hands of a task that has
\* a close ahead of it, and stop runs behind the runner.
THEOREM SocketInvariant == ClientSpec => []SocketInv
<1>1. ClientInit => SocketInv
  BY DEF ClientInit, SocketInv, StopFollowsRunner, SocketHasOwner, StopClosesLast
<1>2. SocketInv /\ [ClientNext]_clientVars => SocketInv'
  <2> SUFFICES ASSUME SocketInv, [ClientNext]_clientVars
               PROVE  SocketInv'
    OBVIOUS
  <2>1. ASSUME NEW k \in Callers,
               \/ \E t \in Topics : SubscribeTopic(k, t) \/ UnsubscribeTopic(k, t)
               \/ CallerStep(k)
        PROVE  SocketInv'
    <3>1. UNCHANGED socketVars
      BY <2>1, CallsKeepSockets
    <3>2. QED
      BY <3>1, SocketInvStutters
  <2>2. CASE RunnerStep
    BY <2>2, RunnerKeepsSocketInv, CancelKeepsSocketInv
  <2>3. CASE Stop \/ StopStep
    BY <2>3, StopKeepsSocketInv
  <2>4. CASE ConnectionLost
    BY <2>4, LossKeepsSocketInv
  <2>5. CASE UNCHANGED clientVars
    <3>1. UNCHANGED socketVars
      BY <2>5 DEF clientVars, socketVars
    <3>2. QED
      BY <3>1, SocketInvStutters
  <2>6. QED
    BY <2>1, <2>2, <2>3, <2>4, <2>5 DEF ClientNext
<1>3. QED
  BY <1>1, <1>2, PTL DEF ClientSpec

\* A cancellation, a fatal frame or a lost connection, at any suspension of the
\* runner, never leaves an open socket that nobody is going to close.
THEOREM NoSocketOrphaned == ClientSpec => []NoOrphanSocket
<1>1. SocketInv => NoOrphanSocket
  BY DEF SocketInv, SocketHasOwner, NoOrphanSocket
<1>2. QED
  BY SocketInvariant, <1>1, PTL

\* After stop there is no task, no open socket and no _ws, for good.
THEOREM StopLeavesNothingEver == ClientSpec => []StopLeavesNothing
<1>1. SocketInv => StopLeavesNothing
  BY DEF SocketInv, StopFollowsRunner, StopClosesLast, StopLeavesNothing
<1>2. QED
  BY SocketInvariant, <1>1, PTL

-----------------------------------------------------------------------------
(***************************************************************************)
(* The send lock: its queue holds the tasks that wait for it, each once,   *)
(* the sender first.                                                       *)
(***************************************************************************)
Frames == [op : {"subscribe", "unsubscribe", "none"}, topics : SUBSET Topics]
Entries == [task : Callers \cup {Runner, Stopper}, frame : Frames]

\* The tasks that have a place in the queue q, and whether each has only one.
TasksIn(q) == {q[i].task : i \in DOMAIN q}
OnePlaceEach(q) == \A i, j \in DOMAIN q : q[i].task = q[j].task => i = j

CallStates == {"wait", "send", "returned", "raised"}
LockWaits == {"set_wait", "sub_wait", "sub_send", "clear_wait"}

LockInv ==
  /\ ws_lock \in Seq(Entries) /\ topics \subseteq Topics
  /\ call \in [Callers -> CallStates]
  /\ LockServesWaiters

\* What the queue q has to be for the tasks in waiters and senders.
Serves(q, sending, waiters, senders) ==
  /\ OnePlaceEach(q) /\ TasksIn(q) = waiters
  /\ senders = IF sending THEN {Head(q).task} ELSE {}

LEMMA ServesIsLockServesWaiters ==
  /\ LockServesWaiters <=> Serves(ws_lock, in_send, Waiters, Senders)
  /\ LockServesWaiters' <=> Serves(ws_lock', in_send', Waiters', Senders')
BY DEF LockServesWaiters, Serves, OnePlaceEach, TasksIn

\* A task goes to the end of the queue, is put at its head, leaves its head, or
\* gives up a place somewhere in it.
LEMMA AppendPlace ==
  ASSUME NEW q \in Seq(Entries), OnePlaceEach(q), NEW e \in Entries, e.task \notin TasksIn(q)
  PROVE  /\ Append(q, e) \in Seq(Entries) /\ OnePlaceEach(Append(q, e))
         /\ TasksIn(Append(q, e)) = TasksIn(q) \cup {e.task}
         /\ q # <<>> => Head(Append(q, e)) = Head(q)
<1> DEFINE p == Append(q, e)
<1>1. /\ p \in Seq(Entries) /\ Len(q) \in Nat /\ DOMAIN q = 1..Len(q)
      /\ DOMAIN p = 1..(Len(q) + 1) /\ p[Len(q) + 1] = e /\ \A i \in 1..Len(q) : p[i] = q[i]
      /\ q # <<>> => Head(p) = Head(q)
  OBVIOUS
<1> HIDE DEF p
<1>2. \A i \in DOMAIN p : i \in DOMAIN q \/ i = Len(q) + 1
  BY <1>1
<1>3. OnePlaceEach(p)
  BY <1>1, <1>2 DEF OnePlaceEach, TasksIn
<1>4. TasksIn(p) = TasksIn(q) \cup {e.task}
  BY <1>1, <1>2 DEF TasksIn
<1>5. QED
  BY <1>1, <1>3, <1>4 DEF p

LEMMA PutPlace ==
  ASSUME NEW q \in Seq(Entries), OnePlaceEach(q), NEW e \in Entries, e.task \notin TasksIn(q)
  PROVE  /\ <<e>> \o q \in Seq(Entries) /\ OnePlaceEach(<<e>> \o q)
         /\ TasksIn(<<e>> \o q) = TasksIn(q) \cup {e.task}
         /\ Head(<<e>> \o q) = e
<1> DEFINE p == <<e>> \o q
<1>1. /\ p \in Seq(Entries) /\ Len(q) \in Nat /\ DOMAIN q = 1..Len(q)
      /\ DOMAIN p = 1..(Len(q) + 1) /\ p[1] = e /\ \A i \in 1..Len(q) : p[i + 1] = q[i]
      /\ Head(p) = e
  OBVIOUS
<1> HIDE DEF p
<1>2. \A i \in DOMAIN p : i = 1 \/ (i - 1 \in DOMAIN q /\ p[i] = q[i - 1])
  <2> SUFFICES ASSUME NEW i \in DOMAIN p, i # 1 PROVE i - 1 \in DOMAIN q /\ p[i] = q[i - 1]
    OBVIOUS
  <2>1. i - 1 \in 1..Len(q) /\ (i - 1) + 1 = i
    BY <1>1
  <2>2. QED
    BY <1>1, <2>1
<1>3. \A i \in DOMAIN q : q[i].task # e.task
  BY DEF TasksIn
<1>4. OnePlaceEach(p)
  <2> SUFFICES ASSUME NEW i \in DOMAIN p, NEW j \in DOMAIN p, p[i].task = p[j].task
               PROVE  i = j
    BY DEF OnePlaceEach
  <2>1. CASE i = 1 \/ j = 1
    BY <1>1, <1>2, <1>3, <2>1
  <2>2. CASE i # 1 /\ j # 1
    <3>1. i - 1 = j - 1
      BY <1>2, <2>2 DEF OnePlaceEach
    <3>2. QED
      BY <1>1, <3>1
  <2>3. QED
    BY <2>1, <2>2
<1>5. TasksIn(p) = TasksIn(q) \cup {e.task}
  <2>1. /\ 1 \in DOMAIN p
        /\ \A i \in DOMAIN q : i + 1 \in DOMAIN p /\ p[i + 1].task = q[i].task
    BY <1>1
  <2>2. QED
    BY <1>1, <1>2, <2>1 DEF TasksIn
<1>6. QED
  BY <1>1, <1>4, <1>5 DEF p

LEMMA TailPlace ==
  ASSUME NEW q \in Seq(Entries), q # <<>>, OnePlaceEach(q)
  PROVE  /\ Tail(q) \in Seq(Entries) /\ OnePlaceEach(Tail(q))
         /\ TasksIn(Tail(q)) = TasksIn(q) \ {Head(q).task}
         /\ Head(q) \in Entries /\ Head(q).task \in TasksIn(q)
<1> DEFINE p == Tail(q)
<1>1. /\ p \in Seq(Entries) /\ Len(q) \in Nat \ {0} /\ DOMAIN q = 1..Len(q)
      /\ DOMAIN p = 1..(Len(q) - 1) /\ \A i \in 1..(Len(q) - 1) : p[i] = q[i + 1]
      /\ Head(q) = q[1] /\ Head(q) \in Entries
  OBVIOUS
<1> HIDE DEF p
<1>2. /\ 1 \in DOMAIN q /\ \A i \in DOMAIN p : i + 1 \in DOMAIN q /\ p[i] = q[i + 1]
      /\ \A i \in DOMAIN q : i = 1 \/ (i - 1 \in DOMAIN p /\ p[i - 1] = q[i])
  <2>1. \A i \in DOMAIN q : i = 1 \/ (i - 1 \in DOMAIN p /\ (i - 1) + 1 = i)
    BY <1>1
  <2>2. QED
    BY <1>1, <2>1
<1>3. OnePlaceEach(p)
  <2> SUFFICES ASSUME NEW i \in DOMAIN p, NEW j \in DOMAIN p, p[i].task = p[j].task
               PROVE  i = j
    BY DEF OnePlaceEach
  <2>1. i + 1 = j + 1
    BY <1>2 DEF OnePlaceEach
  <2>2. QED
    BY <1>1, <2>1
<1>4. \A i \in DOMAIN q : i # 1 => q[i].task # q[1].task
  BY <1>2 DEF OnePlaceEach
<1>5. \A i \in DOMAIN p : p[i].task # q[1].task
  <2>1. \A i \in DOMAIN p : i + 1 # 1
    BY <1>1
  <2>2. QED
    BY <1>2, <1>4, <2>1
<1>6. TasksIn(p) = TasksIn(q) \ {q[1].task}
  BY <1>2, <1>5 DEF TasksIn
<1>7. QED
  BY <1>1, <1>2, <1>3, <1>6 DEF p, TasksIn

Without(q, x) == RemoveFirstMatch(q, LAMBDA e : e.task = x)

LEMMA RemovePlace ==
  ASSUME NEW q \in Seq(Entries), OnePlaceEach(q), NEW x
  PROVE  /\ Without(q, x) \in Seq(Entries) /\ OnePlaceEach(Without(q, x))
         /\ TasksIn(Without(q, x)) = TasksIn(q) \ {x}
         /\ q # <<>> /\ Head(q).task # x => Head(Without(q, x)) = Head(q)
<1> DEFINE p == Without(q, x)
<1>1. Len(q) \in Nat /\ DOMAIN q = 1..Len(q)
  OBVIOUS
<1>2. CASE x \notin TasksIn(q)
  <2>1. ~\E i \in 1..Len(q) : q[i].task = x
    BY <1>1, <1>2 DEF TasksIn
  <2>2. p = q
    BY <2>1 DEF Without, RemoveFirstMatch
  <2>3. QED
    BY <1>2, <2>2
<1>3. CASE x \in TasksIn(q)
  <2>1. PICK n \in 1..Len(q) : q[n].task = x
    BY <1>1, <1>3 DEF TasksIn
  <2>2. {i \in 1..Len(q) : q[i].task = x} = {n}
    BY <1>1, <2>1 DEF OnePlaceEach
  <2>3. (CHOOSE i \in {n} : \A j \in {n} : i <= j) = n
    BY <2>1
  <2>4. SelectInSeq(q, LAMBDA e : e.task = x) = n
    BY <2>2, <2>3 DEF SelectInSeq, Min
  <2>5. p = SubSeq(q, 1, n - 1) \o SubSeq(q, n + 1, Len(q))
    BY <2>1, <2>4 DEF Without, RemoveFirstMatch, RemoveAt
  <2> DEFINE s == SubSeq(q, 1, n - 1)
             r == SubSeq(q, n + 1, Len(q))
  <2>6. /\ s \in Seq(Entries) /\ Len(s) = n - 1 /\ \A i \in 1..(n - 1) : s[i] = q[i]
    BY <2>1
  <2>7. /\ r \in Seq(Entries) /\ Len(r) = Len(q) - n
        /\ \A i \in 1..(Len(q) - n) : r[i] = q[i + n]
    BY <2>1
  <2> HIDE DEF s, r
  <2>8. /\ p \in Seq(Entries) /\ DOMAIN p = 1..(Len(q) - 1)
        /\ \A i \in 1..(Len(q) - 1) : p[i] = IF i < n THEN q[i] ELSE q[i + 1]
    <3>1. p = s \o r
      BY <2>5 DEF s, r
    <3> HIDE DEF p
    <3>2. /\ p \in Seq(Entries) /\ Len(p) = Len(s) + Len(r)
          /\ \A i \in 1..Len(p) : p[i] = IF i <= Len(s) THEN s[i] ELSE r[i - Len(s)]
      <4>1. s \in Seq(Entries) /\ r \in Seq(Entries)
        BY <2>6, <2>7
      <4>2. /\ p \in Seq(Entries) /\ Len(p) = Len(s) + Len(r)
            /\ \A i \in 1..(Len(s) + Len(r)) :
                 p[i] = IF i <= Len(s) THEN s[i] ELSE r[i - Len(s)]
        BY <3>1, <4>1, ConcatProperties, Zenon
      <4>3. QED
        BY <4>2
    <3>3. Len(p) = Len(q) - 1 /\ DOMAIN p = 1..(Len(q) - 1)
      BY <1>1, <2>6, <2>7, <3>2
    <3>4. ASSUME NEW i \in 1..(Len(q) - 1)
          PROVE  p[i] = IF i < n THEN q[i] ELSE q[i + 1]
      <4>1. CASE i < n
        <5>1. i <= Len(s) /\ i \in 1..(n - 1)
          BY <2>6, <4>1
        <5>2. QED
          BY <2>6, <3>2, <3>3, <4>1, <5>1
      <4>2. CASE ~(i < n)
        <5>1. /\ ~(i <= Len(s)) /\ i - Len(s) \in 1..(Len(q) - n)
              /\ (i - Len(s)) + n = i + 1
          BY <1>1, <2>6, <4>2
        <5>2. QED
          BY <2>7, <3>2, <3>3, <4>2, <5>1
      <4>3. QED
        BY <4>1, <4>2
    <3>5. QED
      BY <3>2, <3>3, <3>4
  <2> HIDE DEF p
  <2>9. /\ \A i \in DOMAIN p : \E j \in DOMAIN q :
              j # n /\ p[i] = q[j] /\ j = IF i < n THEN i ELSE i + 1
        /\ \A j \in DOMAIN q : j # n => \E i \in DOMAIN p : p[i] = q[j]
    <3>1. ASSUME NEW i \in DOMAIN p
          PROVE  \E j \in DOMAIN q : j # n /\ p[i] = q[j] /\ j = IF i < n THEN i ELSE i + 1
      <4>1. (IF i < n THEN i ELSE i + 1) \in DOMAIN q \ {n}
        BY <1>1, <2>1, <2>8
      <4>2. QED
        BY <2>8, <4>1
    <3>2. ASSUME NEW j \in DOMAIN q, j # n
          PROVE  \E i \in DOMAIN p : p[i] = q[j]
      <4>1. CASE j < n
        <5>1. j \in DOMAIN p
          BY <1>1, <2>1, <2>8, <4>1
        <5>2. QED
          BY <2>8, <4>1, <5>1
      <4>2. CASE ~(j < n)
        <5>1. j - 1 \in DOMAIN p /\ ~(j - 1 < n) /\ (j - 1) + 1 = j
          BY <1>1, <2>1, <2>8, <3>2, <4>2
        <5>2. QED
          BY <2>8, <5>1
      <4>3. QED
        BY <4>1, <4>2
    <3>3. QED
      BY <3>1, <3>2
  <2>10. OnePlaceEach(p)
    <3> SUFFICES ASSUME NEW i \in DOMAIN p, NEW j \in DOMAIN p, p[i].task = p[j].task
                 PROVE  i = j
      BY DEF OnePlaceEach
    <3>1. (IF i < n THEN i ELSE i + 1) = (IF j < n THEN j ELSE j + 1)
      BY <2>9 DEF OnePlaceEach
    <3>2. i \in Nat /\ j \in Nat /\ n \in Nat
      BY <2>1, <2>8
    <3>3. QED
      BY <3>1, <3>2
  <2>11. TasksIn(p) = TasksIn(q) \ {x}
    <3>1. \A j \in DOMAIN q : q[j].task = x <=> j = n
      BY <1>1, <2>1 DEF OnePlaceEach
    <3>2. QED
      BY <2>9, <3>1 DEF TasksIn
  <2>12. ASSUME q # <<>>, Head(q).task # x
         PROVE  Head(p) = Head(q)
    <3>1. Head(q) = q[1]
      BY <2>12
    <3>2. n # 1 /\ 1 < n /\ 1 \in DOMAIN p
      BY <2>1, <2>8, <2>12, <3>1
    <3>3. Head(p) = p[1] /\ p[1] = q[1]
      BY <2>8, <3>2
    <3>4. QED
      BY <3>1, <3>3
  <2>13. QED
    BY <1>3, <2>8, <2>10, <2>11, <2>12 DEF p
<1>4. QED
  BY <1>2, <1>3
\* Task x has the lock or finds it free, and the tasks of q wait behind it.
Holds(x, q) ==
  \/ ws_lock = <<>> /\ q = <<>>
  \/ ws_lock # <<>> /\ Head(ws_lock).task = x /\ q = Tail(ws_lock)

LEMMA BehindHolder ==
  ASSUME LockInv, NEW x, NEW q, Holds(x, q)
  PROVE  /\ q \in Seq(Entries) /\ OnePlaceEach(q) /\ TasksIn(q) = Waiters \ {x}
         /\ Senders \subseteq {x}
<1>1. /\ ws_lock \in Seq(Entries) /\ OnePlaceEach(ws_lock) /\ TasksIn(ws_lock) = Waiters
      /\ Senders = IF in_send THEN {Head(ws_lock).task} ELSE {}
  BY DEF LockInv, LockServesWaiters, OnePlaceEach, TasksIn
<1>2. CASE ws_lock = <<>> /\ q = <<>>
  <2>1. Waiters = {}
    BY <1>1, <1>2 DEF TasksIn
  <2>2. Senders \subseteq Waiters
    BY DEF Senders, Waiters
  <2>3. QED
    BY <1>1, <1>2, <2>1, <2>2
<1>3. CASE ws_lock # <<>> /\ Head(ws_lock).task = x /\ q = Tail(ws_lock)
  BY <1>1, <1>3, TailPlace
<1>4. QED
  BY <1>2, <1>3 DEF Holds

\* Who is suspended in ws.send has the lock.
LEMMA SenderHolds ==
  ASSUME LockInv, NEW x \in Senders
  PROVE  ws_lock # <<>> /\ Head(ws_lock).task = x /\ in_send
<1>1. in_send /\ Head(ws_lock).task = x
  BY DEF LockInv, LockServesWaiters
<1>2. x \in TasksIn(ws_lock)
  BY DEF LockInv, LockServesWaiters, Senders, Waiters, TasksIn
<1>3. ws_lock # <<>>
  BY <1>2 DEF TasksIn
<1>4. QED
  BY <1>1, <1>3

\* How a task leaves a step in which it had, or found, the lock: it has let go
\* of it, keeps it through ws.send, or wants it again behind the others.
LEMMA HolderLetsGo ==
  ASSUME LockInv, NEW x, NEW q, Holds(x, q), ws_lock' = q,
         Waiters' = Waiters \ {x}, Senders' = {}, ~in_send'
  PROVE  ws_lock' \in Seq(Entries) /\ LockServesWaiters'
BY BehindHolder, ServesIsLockServesWaiters DEF Serves

LEMMA HolderSends ==
  ASSUME LockInv, NEW q, NEW e \in Entries, Holds(e.task, q), ws_lock' = <<e>> \o q,
         Waiters' = Waiters \cup {e.task}, Senders' = {e.task}, in_send'
  PROVE  ws_lock' \in Seq(Entries) /\ LockServesWaiters'
<1>1. /\ q \in Seq(Entries) /\ OnePlaceEach(q) /\ e.task \notin TasksIn(q)
      /\ TasksIn(q) \cup {e.task} = Waiters \cup {e.task}
  BY BehindHolder
<1>2. QED
  BY <1>1, PutPlace, ServesIsLockServesWaiters DEF Serves

LEMMA HolderWaitsAgain ==
  ASSUME LockInv, NEW q, q # <<>>, NEW e \in Entries, Holds(e.task, q),
         ws_lock' = Append(q, e),
         Waiters' = Waiters \cup {e.task}, Senders' = {}, ~in_send'
  PROVE  ws_lock' \in Seq(Entries) /\ LockServesWaiters'
<1>1. /\ q \in Seq(Entries) /\ OnePlaceEach(q) /\ e.task \notin TasksIn(q)
      /\ TasksIn(q) \cup {e.task} = Waiters \cup {e.task}
  BY BehindHolder
<1>2. QED
  BY <1>1, AppendPlace, ServesIsLockServesWaiters DEF Serves

\* A task that had no place takes one behind all others.
LEMMA NewcomerWaits ==
  ASSUME LockInv, ws_lock # <<>>, NEW e \in Entries, e.task \notin Waiters,
         ws_lock' = Append(ws_lock, e),
         Waiters' = Waiters \cup {e.task}, Senders' = Senders, in_send' = in_send
  PROVE  ws_lock' \in Seq(Entries) /\ LockServesWaiters'
<1>1. /\ ws_lock \in Seq(Entries) /\ OnePlaceEach(ws_lock) /\ TasksIn(ws_lock) = Waiters
      /\ Senders = IF in_send THEN {Head(ws_lock).task} ELSE {}
  BY DEF LockInv, LockServesWaiters, OnePlaceEach, TasksIn
<1>2. QED
  BY <1>1, AppendPlace, ServesIsLockServesWaiters DEF Serves

\* What a step of one task does to the waiters and senders.
LEMMA CallerMoves ==
  ASSUME ClientAssumption, LockInv, NEW k \in Callers, NEW how \in CallStates,
         call' = [call EXCEPT ![k] = how], UNCHANGED <<runner, stopper>>
  PROVE  /\ call' \in [Callers -> CallStates]
         /\ Waiters' = IF how \in {"wait", "send"} THEN Waiters \cup {k} ELSE Waiters \ {k}
         /\ Senders' = IF how = "send" THEN Senders \cup {k} ELSE Senders \ {k}
         /\ call[k] \in {"returned", "raised"} => k \notin Waiters
<1>1. /\ call \in [Callers -> CallStates] /\ k # Runner /\ k # Stopper
      /\ \A c \in Callers : call'[c] = IF c = k THEN how ELSE call[c]
  BY DEF LockInv, ClientAssumption
<1>2. call' \in [Callers -> CallStates]
  BY <1>1
<1>3. Waiters' = IF how \in {"wait", "send"} THEN Waiters \cup {k} ELSE Waiters \ {k}
  BY <1>1 DEF Waiters
<1>4. Senders' = IF how = "send" THEN Senders \cup {k} ELSE Senders \ {k}
  BY <1>1 DEF Senders
<1>5. call[k] \in {"returned", "raised"} => k \notin Waiters
  BY <1>1 DEF Waiters
<1>6. QED
  BY <1>2, <1>3, <1>4, <1>5

LEMMA RunnerMoves ==
  ASSUME ClientAssumption, UNCHANGED <<call, stopper>>
  PROVE  /\ Waiters' = IF runner' \in LockWaits THEN Waiters \cup {Runner}
                                                ELSE Waiters \ {Runner}
         /\ Senders' = IF runner' = "sub_send" THEN Senders \cup {Runner}
                                               ELSE Senders \ {Runner}
         /\ Runner \in Waiters <=> runner \in LockWaits
         /\ Runner \in Senders <=> runner = "sub_send"
BY DEF Waiters, Senders, LockWaits, ClientAssumption

LEMMA StopperMoves ==
  ASSUME ClientAssumption, UNCHANGED <<call, runner>>
  PROVE  /\ Waiters' = IF stopper' = "close_wait" THEN Waiters \cup {Stopper}
                                                  ELSE Waiters \ {Stopper}
         /\ Senders' = Senders /\ Stopper \notin Senders
         /\ Stopper \in Waiters <=> stopper = "close_wait"
BY DEF Waiters, Senders, ClientAssumption

\* The entries the client makes.
LEMMA EntriesTyped ==
  ASSUME NEW x \in Callers \cup {Runner, Stopper}, NEW S \in SUBSET Topics
  PROVE  /\ Entry(x, Frame("subscribe", S)) \in Entries
         /\ Entry(x, Frame("unsubscribe", S)) \in Entries
         /\ Entry(x, NoFrame) \in Entries
         /\ \A f : Entry(x, f).task = x
BY DEF Entry, Frame, NoFrame, Entries, Frames

\* The frame at the front of the queue.
LEMMA FrontTyped ==
  ASSUME LockInv, ws_lock # <<>>
  PROVE  /\ Entry(Head(ws_lock).task, FirstFrame) \in Entries
         /\ FirstFrame.topics \subseteq Topics
<1>1. ws_lock \in Seq(Entries)
  BY DEF LockInv
<1>2. Head(ws_lock) \in Entries
  BY <1>1
<1>3. Entry(Head(ws_lock).task, FirstFrame) = Head(ws_lock)
  BY <1>2 DEF Entry, FirstFrame, Entries
<1>4. QED
  BY <1>2, <1>3 DEF FirstFrame, Entries, Frames

-----------------------------------------------------------------------------
\* The calls: a send on a lock found free or waited for, or a new place.
LEMMA CallerSendKeepsLockInv ==
  ASSUME ClientAssumption, LockInv, NEW k \in Callers, NEW f, NEW q, CallerSend(k, f, q),
         Holds(k, q), Entry(k, f) \in Entries,
         topics' \subseteq Topics, UNCHANGED <<runner, stopper>>
  PROVE  LockInv'
<1> DEFINE e == Entry(k, f)
<1>1. e \in Entries /\ e.task = k
  BY DEF Entry
<1>2. Senders \subseteq {k}
  BY BehindHolder
<1>3. CASE /\ ws_lock' = q /\ ~in_send'
           /\ \E how \in {"returned", "raised"} : call' = [call EXCEPT ![k] = how]
  <2>1. PICK how \in {"returned", "raised"} : call' = [call EXCEPT ![k] = how]
    BY <1>3
  <2>2. how \in CallStates
    BY DEF CallStates
  <2>3. /\ call' \in [Callers -> CallStates]
        /\ Waiters' = Waiters \ {k} /\ Senders' = Senders \ {k}
    BY <2>1, <2>2, CallerMoves
  <2>4. QED
    BY <1>2, <1>3, <2>3, HolderLetsGo DEF LockInv
<1>4. CASE ws_lock' = <<e>> \o q /\ in_send' /\ call' = [call EXCEPT ![k] = "send"]
  <2>1. /\ call' \in [Callers -> CallStates]
        /\ Waiters' = Waiters \cup {k} /\ Senders' = Senders \cup {k}
    BY <1>4, CallerMoves DEF CallStates
  <2>2. Senders' = {k}
    BY <1>2, <2>1
  <2>3. ws_lock' \in Seq(Entries) /\ LockServesWaiters'
    BY <1>1, <1>4, <2>1, <2>2, HolderSends
  <2>4. QED
    BY <2>1, <2>3 DEF LockInv
<1>5. QED
  BY <1>3, <1>4 DEF CallerSend, Skipped, Sent, Suspended, Returns

LEMMA CallsKeepLockInv ==
  ASSUME ClientAssumption, LockInv, NEW k \in Callers,
         \/ \E t \in Topics : SubscribeTopic(k, t) \/ UnsubscribeTopic(k, t)
         \/ CallerStep(k)
  PROVE  LockInv'
<1>1. ASSUME NEW op \in {"subscribe", "unsubscribe"}, NEW t \in Topics,
             SendJson(k, Frame(op, {t})), topics' \subseteq Topics
      PROVE  LockInv'
  <2> DEFINE f == Frame(op, {t})
             e == Entry(k, f)
  <2>1. e \in Entries /\ e.task = k
    BY EntriesTyped
  <2>2. call[k] \in {"returned", "raised"} /\ UNCHANGED <<runner, stopper>>
    BY <1>1 DEF SendJson, stopVars
  <2>3. CASE ws_lock = <<>> /\ CallerSend(k, f, <<>>)
    <3>1. Holds(k, <<>>)
      BY <2>3 DEF Holds
    <3>2. QED
      BY <1>1, <2>1, <2>2, <2>3, <3>1, CallerSendKeepsLockInv
  <2>4. CASE /\ ws_lock # <<>> /\ ws_lock' = Append(ws_lock, e)
             /\ Returns(k, "wait") /\ in_send' = in_send
    <3>1. /\ call' \in [Callers -> CallStates] /\ k \notin Waiters
          /\ Waiters' = Waiters \cup {k} /\ Senders' = Senders \ {k}
      BY <2>2, <2>4, CallerMoves DEF Returns, CallStates
    <3>2. Senders' = Senders
      BY <2>2, <3>1 DEF Senders, Waiters
    <3>3. ws_lock' \in Seq(Entries) /\ LockServesWaiters'
      BY <2>1, <2>4, <3>1, <3>2, NewcomerWaits
    <3>4. QED
      BY <1>1, <3>1, <3>3 DEF LockInv
  <2>5. QED
    BY <1>1, <2>3, <2>4 DEF SendJson
<1>2. ASSUME NEW t \in Topics, SubscribeTopic(k, t) \/ UnsubscribeTopic(k, t)
      PROVE  LockInv'
  <2>1. topics' \subseteq Topics
    BY <1>2 DEF SubscribeTopic, UnsubscribeTopic, LockInv
  <2>2. QED
    BY <1>1, <1>2, <2>1 DEF SubscribeTopic, UnsubscribeTopic
<1>3. CASE CallerLocked(k)
  <2>1. /\ ws_lock # <<>> /\ Head(ws_lock).task = k /\ UNCHANGED <<topics, runner, stopper>>
        /\ CallerSend(k, FirstFrame, Tail(ws_lock)) /\ topics \subseteq Topics
    BY <1>3 DEF CallerLocked, Granted, stopVars, LockInv
  <2>2. Holds(k, Tail(ws_lock))
    BY <2>1 DEF Holds
  <2>3. QED
    BY <2>1, <2>2, FrontTyped, CallerSendKeepsLockInv
<1>4. CASE CallerSent(k)
  <2>1. k \in Senders /\ UNCHANGED <<topics, runner, stopper>> /\ topics \subseteq Topics
    BY <1>4 DEF CallerSent, Senders, stopVars, LockInv
  <2>2. ws_lock # <<>> /\ Head(ws_lock).task = k
    BY <2>1, SenderHolds
  <2>3. PICK how \in {"returned", "raised"} : call' = [call EXCEPT ![k] = how]
    BY <1>4 DEF CallerSent, Returns
  <2>4. ws_lock' = Tail(ws_lock) /\ ~in_send'
    BY <1>4 DEF CallerSent, Sent, Skipped
  <2>5. Holds(k, Tail(ws_lock))
    BY <2>2 DEF Holds
  <2>6. /\ call' \in [Callers -> CallStates]
        /\ Waiters' = Waiters \ {k} /\ Senders' = Senders \ {k}
    BY <2>1, <2>3, CallerMoves DEF CallStates
  <2>7. Senders' = {}
    BY <2>5, <2>6, BehindHolder
  <2>8. QED
    BY <2>1, <2>4, <2>5, <2>6, <2>7, HolderLetsGo DEF LockInv
<1>5. QED
  BY <1>2, <1>3, <1>4 DEF CallerStep

-----------------------------------------------------------------------------
\* In the finally block, with q the queue without the runner.
LEMMA FinallyKeepsLockInv ==
  ASSUME ClientAssumption, LockInv, NEW q, NEW unwinding, EnterFinally(q, unwinding),
         q \in Seq(Entries), OnePlaceEach(q), TasksIn(q) = Waiters \ {Runner},
         Senders \ {Runner} = IF in_send' THEN {Head(q).task} ELSE {},
         UNCHANGED <<topics, call, stopper>>
  PROVE  LockInv'
<1> DEFINE e == Entry(Runner, NoFrame)
<1>1. e \in Entries /\ e.task = Runner
  BY EntriesTyped
<1>2. CASE q = <<>> /\ ClearWs(q, unwinding)
  <2>1. ws_lock' = q /\ runner' \in {"closing", "backoff", "done"}
    BY <1>2 DEF ClearWs, AfterFinally
  <2>2. Waiters' = Waiters \ {Runner} /\ Senders' = Senders \ {Runner}
    BY <2>1, RunnerMoves DEF LockWaits
  <2>3. ws_lock' \in Seq(Entries) /\ LockServesWaiters'
    BY <2>1, <2>2, ServesIsLockServesWaiters DEF Serves
  <2>4. QED
    BY <2>3 DEF LockInv
<1>3. CASE q # <<>> /\ ws_lock' = Append(q, e) /\ runner' = "clear_wait"
  <2>1. Waiters' = Waiters \cup {Runner} /\ Senders' = Senders \ {Runner}
    BY <1>3, RunnerMoves DEF LockWaits
  <2>2. /\ ws_lock' \in Seq(Entries) /\ OnePlaceEach(ws_lock') /\ Head(ws_lock') = Head(q)
        /\ TasksIn(ws_lock') = TasksIn(q) \cup {Runner}
    BY <1>1, <1>3, AppendPlace
  <2>3. LockServesWaiters'
    BY <2>1, <2>2, ServesIsLockServesWaiters DEF Serves
  <2>4. QED
    BY <2>2, <2>3 DEF LockInv
<1>4. QED
  BY <1>2, <1>3 DEF EnterFinally

\* A runner without a place at the lock reaches its finally block.
LEMMA LeavesTryKeepsLockInv ==
  ASSUME ClientAssumption, LockInv, NEW unwinding, EnterFinally(ws_lock, unwinding),
         runner \notin LockWaits, UNCHANGED <<topics, call, stopper, in_send>>
  PROVE  LockInv'
<1>1. Runner \notin Waiters /\ Runner \notin Senders
  BY RunnerMoves DEF LockWaits
<1>2. /\ ws_lock \in Seq(Entries) /\ OnePlaceEach(ws_lock) /\ TasksIn(ws_lock) = Waiters
      /\ Senders = IF in_send THEN {Head(ws_lock).task} ELSE {}
  BY DEF LockInv, LockServesWaiters, OnePlaceEach, TasksIn
<1>3. QED
  BY <1>1, <1>2, FinallyKeepsLockInv

\* The runner, with the lock, sends the frame f or drops it.
LEMMA RunnerSendKeepsLockInv ==
  ASSUME ClientAssumption, LockInv, NEW f, NEW q, NEW open, RunnerSend(f, q, open),
         Holds(Runner, q), Entry(Runner, f) \in Entries, UNCHANGED <<topics, call, stopper>>
  PROVE  LockInv'
<1> DEFINE e == Entry(Runner, f)
<1>1. e \in Entries /\ e.task = Runner /\ Senders \subseteq {Runner}
  BY BehindHolder DEF Entry
<1>2. CASE ws_lock' = q /\ ~in_send' /\ runner' = "receive"
  <2>1. Waiters' = Waiters \ {Runner} /\ Senders' = Senders \ {Runner}
    BY <1>2, RunnerMoves DEF LockWaits
  <2>2. QED
    BY <1>1, <1>2, <2>1, HolderLetsGo DEF LockInv
<1>3. CASE ws_lock' = <<e>> \o q /\ in_send' /\ runner' = "sub_send"
  <2>1. Waiters' = Waiters \cup {Runner} /\ Senders' = Senders \cup {Runner}
    BY <1>3, RunnerMoves DEF LockWaits
  <2>2. Senders' = {Runner}
    BY <1>1, <2>1
  <2>3. ws_lock' \in Seq(Entries) /\ LockServesWaiters'
    BY <1>1, <1>3, <2>1, <2>2, HolderSends
  <2>4. QED
    BY <2>3 DEF LockInv
<1>4. QED
  BY <1>2, <1>3 DEF RunnerSend, Skipped, Sent, Suspended

LEMMA SetWsKeepsLockInv ==
  ASSUME ClientAssumption, LockInv, NEW q, NEW open, SetWsAndSubscribe(q, open),
         Holds(Runner, q), ~in_send, UNCHANGED <<topics, call, stopper>>
  PROVE  LockInv'
<1> DEFINE f == Frame("subscribe", topics)
           e == Entry(Runner, f)
<1>1. e \in Entries /\ e.task = Runner
  BY EntriesTyped DEF LockInv
<1>2. CASE Skipped(q) /\ runner' = "receive"
  <2>1. RunnerSend(f, q, FALSE)
    BY <1>2 DEF RunnerSend
  <2>2. QED
    BY <1>1, <2>1, RunnerSendKeepsLockInv
<1>3. CASE RunnerSend(f, q, open)
  BY <1>1, <1>3, RunnerSendKeepsLockInv
<1>4. CASE q # <<>> /\ ws_lock' = Append(q, e) /\ runner' = "sub_wait" /\ in_send' = in_send
  <2>1. Waiters' = Waiters \cup {Runner} /\ Senders' = Senders \ {Runner}
    BY <1>4, RunnerMoves DEF LockWaits
  <2>2. Senders = {} /\ ~in_send'
    BY <1>4 DEF LockInv, LockServesWaiters
  <2>3. ws_lock' \in Seq(Entries) /\ LockServesWaiters'
    BY <1>1, <1>4, <2>1, <2>2, HolderWaitsAgain
  <2>4. QED
    BY <2>3 DEF LockInv
<1>5. QED
  BY <1>2, <1>3, <1>4 DEF SetWsAndSubscribe

LEMMA RunnerKeepsLockInv ==
  ASSUME ClientAssumption, LockInv, RunnerStep, ~RunnerCancelled
  PROVE  LockInv'
<1>1. UNCHANGED <<topics, call, stopper>> /\ topics \subseteq Topics
  BY DEF RunnerStep, Connected, ConnectFailed, WsLocked, SubscribeAllLocked, SubscribeAllSent,
         ReceiveEnds, ReceiveFatal, ClearLocked, SocketClosed, BackoffOver, RunnerCancelled,
         callVars, stopVars, LockInv
<1>2. CASE Connected
  <2>1. runner \notin LockWaits
    BY <1>2 DEF Connected, Running, LockWaits
  <2>2. CASE ws_lock = <<>> /\ SetWsAndSubscribe(<<>>, TRUE)
    <3>1. Holds(Runner, <<>>) /\ ~in_send
      <4>1. Holds(Runner, <<>>)
        BY <2>2 DEF Holds
      <4>2. Senders \subseteq Waiters /\ TasksIn(ws_lock) = Waiters /\ TasksIn(ws_lock) = {}
        BY <2>2 DEF Senders, Waiters, LockInv, LockServesWaiters, TasksIn
      <4>3. QED
        BY <4>1, <4>2 DEF LockInv, LockServesWaiters
    <3>2. QED
      BY <1>1, <2>2, <3>1, SetWsKeepsLockInv
  <2>3. CASE /\ ws_lock # <<>> /\ ws_lock' = Append(ws_lock, Entry(Runner, NoFrame))
             /\ runner' = "set_wait" /\ in_send' = in_send
    <3> DEFINE e == Entry(Runner, NoFrame)
    <3>1. e \in Entries /\ e.task = Runner
      BY EntriesTyped
    <3>2. /\ Runner \notin Waiters /\ Runner \notin Senders
          /\ Waiters' = Waiters \cup {Runner} /\ Senders' = Senders \ {Runner}
      BY <1>1, <2>1, <2>3, RunnerMoves DEF LockWaits
    <3>3. Senders' = Senders
      BY <3>2
    <3>4. ws_lock' \in Seq(Entries) /\ LockServesWaiters'
      BY <2>3, <3>1, <3>2, <3>3, NewcomerWaits
    <3>5. QED
      BY <1>1, <3>4 DEF LockInv
  <2>4. QED
    BY <1>2, <2>2, <2>3 DEF Connected
<1>3. CASE ConnectFailed \/ ReceiveEnds
  <2>1. runner \notin LockWaits /\ EnterFinally(ws_lock, exiting) /\ in_send' = in_send
    BY <1>3 DEF ConnectFailed, ReceiveEnds, Running, LockWaits
  <2>2. QED
    BY <1>1, <2>1, LeavesTryKeepsLockInv
<1>4. CASE ReceiveFatal
  <2>1. runner \notin LockWaits /\ EnterFinally(ws_lock, TRUE) /\ in_send' = in_send
    BY <1>4 DEF ReceiveFatal, Running, LockWaits
  <2>2. QED
    BY <1>1, <2>1, LeavesTryKeepsLockInv
<1>5. CASE WsLocked
  <2>1. Holds(Runner, Tail(ws_lock)) /\ ~in_send /\ SetWsAndSubscribe(Tail(ws_lock), sock = "open")
    BY <1>5 DEF WsLocked, Granted, Holds
  <2>2. QED
    BY <1>1, <2>1, SetWsKeepsLockInv
<1>6. CASE SubscribeAllLocked
  <2>1. /\ Holds(Runner, Tail(ws_lock)) /\ ws_lock # <<>> /\ Head(ws_lock).task = Runner
        /\ RunnerSend(FirstFrame, Tail(ws_lock), sock = "open")
    BY <1>6 DEF SubscribeAllLocked, Granted, Holds
  <2>2. QED
    BY <1>1, <2>1, FrontTyped, RunnerSendKeepsLockInv
<1>7. CASE SubscribeAllSent
  <2>1. ws_lock # <<>> /\ Head(ws_lock).task = Runner
    BY <1>1, <1>7, RunnerMoves, SenderHolds DEF SubscribeAllSent, Running
  <2>2. Holds(Runner, Tail(ws_lock)) /\ RunnerSend(FirstFrame, Tail(ws_lock), sock = "open")
    BY <1>7, <2>1 DEF SubscribeAllSent, Holds, RunnerSend
  <2>3. QED
    BY <1>1, <2>1, <2>2, FrontTyped, RunnerSendKeepsLockInv
<1>8. CASE ClearLocked
  <2>1. /\ Holds(Runner, Tail(ws_lock)) /\ ws_lock' = Tail(ws_lock) /\ ~in_send'
        /\ runner' \in {"closing", "backoff", "done"}
    BY <1>8 DEF ClearLocked, Granted, Holds, ClearWs, AfterFinally
  <2>2. Waiters' = Waiters \ {Runner} /\ Senders' = Senders \ {Runner}
    BY <1>1, <2>1, RunnerMoves DEF LockWaits
  <2>3. Senders' = {}
    BY <2>1, <2>2, BehindHolder
  <2>4. QED
    BY <1>1, <2>1, <2>2, <2>3, HolderLetsGo DEF LockInv
<1>9. CASE SocketClosed \/ BackoffOver
  <2>1. /\ runner \notin LockWaits /\ runner' \in {"connecting", "backoff", "done"}
        /\ UNCHANGED <<ws_lock, in_send>>
    BY <1>9 DEF SocketClosed, BackoffOver, AfterFinally, Running, LockWaits
  <2>2. Waiters' = Waiters /\ Senders' = Senders
    BY <1>1, <2>1, RunnerMoves DEF LockWaits
  <2>3. QED
    BY <1>1, <2>1, <2>2 DEF LockInv, LockServesWaiters
<1>10. QED
  BY <1>2, <1>3, <1>4, <1>5, <1>6, <1>7, <1>8, <1>9 DEF RunnerStep

\* A cancelled runner gives up its place at the lock, or the lock, wherever it
\* is, and takes a new place for its finally block.
LEMMA CancelKeepsLockInv ==
  ASSUME ClientAssumption, LockInv, RunnerCancelled
  PROVE  LockInv'
<1> DEFINE q == Without(ws_lock, Runner)
<1>1. /\ UNCHANGED <<topics, call, stopper>> /\ topics \subseteq Topics
      /\ in_send' = (in_send /\ runner # "sub_send")
  BY DEF RunnerCancelled, callVars, stopVars, LockInv
<1>2. /\ ws_lock \in Seq(Entries) /\ OnePlaceEach(ws_lock) /\ TasksIn(ws_lock) = Waiters
      /\ Senders = IF in_send THEN {Head(ws_lock).task} ELSE {}
  BY DEF LockInv, LockServesWaiters, OnePlaceEach, TasksIn
<1>3. /\ q \in Seq(Entries) /\ OnePlaceEach(q) /\ TasksIn(q) = Waiters \ {Runner}
      /\ ws_lock # <<>> /\ Head(ws_lock).task # Runner => Head(q) = Head(ws_lock)
  BY <1>2, RemovePlace
<1>4. \/ /\ runner \in {"connecting", "set_wait", "sub_wait", "sub_send", "receive"}
         /\ EnterFinally(q, TRUE)
      \/ runner' = "done" /\ ws_lock' = q
  BY DEF RunnerCancelled, Without
<1> HIDE DEF q
<1>5. Senders \ {Runner} = IF in_send' THEN {Head(q).task} ELSE {}
  <2>1. Runner \in Senders <=> runner = "sub_send"
    BY <1>1, RunnerMoves
  <2>2. CASE in_send /\ runner # "sub_send"
    <3>1. ws_lock # <<>> /\ Head(ws_lock).task # Runner
      BY <1>2, <2>1, <2>2, SenderHolds
    <3>2. QED
      BY <1>1, <1>2, <1>3, <2>1, <2>2, <3>1
  <2>3. CASE ~in_send \/ runner = "sub_send"
    BY <1>1, <1>2, <2>1, <2>3
  <2>4. QED
    BY <2>2, <2>3
<1>6. CASE EnterFinally(q, TRUE)
  BY <1>1, <1>3, <1>5, <1>6, FinallyKeepsLockInv
<1>7. CASE runner' = "done" /\ ws_lock' = q
  <2>1. Waiters' = Waiters \ {Runner} /\ Senders' = Senders \ {Runner}
    BY <1>1, <1>7, RunnerMoves DEF LockWaits
  <2>2. LockServesWaiters'
    BY <1>3, <1>5, <1>7, <2>1, ServesIsLockServesWaiters DEF Serves
  <2>3. QED
    BY <1>1, <1>3, <1>7, <2>2 DEF LockInv
<1>8. QED
  BY <1>4, <1>6, <1>7

\* stop takes its place behind the others, or finds the lock free.
LEMMA StopKeepsLockInv ==
  ASSUME ClientAssumption, LockInv, Stop \/ StopStep
  PROVE  LockInv'
<1>1. UNCHANGED <<topics, call, runner, in_send>> /\ topics \subseteq Topics
  BY DEF Stop, StopStep, StopJoined, StopLocked, StopClosed, callVars, LockInv
<1>2. /\ Senders' = Senders /\ Stopper \notin Senders
      /\ Stopper \in Waiters <=> stopper = "close_wait"
      /\ Waiters' = IF stopper' = "close_wait" THEN Waiters \cup {Stopper}
                                               ELSE Waiters \ {Stopper}
  BY <1>1, StopperMoves
<1>3. CASE ws_lock' = ws_lock /\ stopper # "close_wait" /\ stopper' # "close_wait"
  <2>1. Waiters' = Waiters
    BY <1>2, <1>3
  <2>2. QED
    BY <1>1, <1>2, <1>3, <2>1 DEF LockInv, LockServesWaiters
<1>4. CASE StopJoined /\ ws_lock = <<>>
  BY <1>3, <1>4 DEF StopJoined, CloseWs
<1>5. CASE StopJoined /\ ws_lock # <<>>
  <2> DEFINE e == Entry(Stopper, NoFrame)
  <2>1. e \in Entries /\ e.task = Stopper
    BY EntriesTyped
  <2>2. ws_lock' = Append(ws_lock, e) /\ stopper = "joining" /\ stopper' = "close_wait"
    BY <1>5 DEF StopJoined
  <2>3. Stopper \notin Waiters /\ Waiters' = Waiters \cup {Stopper}
    BY <1>2, <2>2
  <2>4. ws_lock' \in Seq(Entries) /\ LockServesWaiters'
    BY <1>1, <1>2, <1>5, <2>1, <2>2, <2>3, NewcomerWaits
  <2>5. QED
    BY <1>1, <2>4 DEF LockInv
<1>6. CASE StopLocked
  <2>1. /\ Holds(Stopper, Tail(ws_lock)) /\ ws_lock' = Tail(ws_lock) /\ ~in_send'
        /\ stopper' # "close_wait"
    BY <1>6 DEF StopLocked, Granted, Holds, CloseWs
  <2>2. Waiters' = Waiters \ {Stopper}
    BY <1>2, <2>1
  <2>3. Senders' = {}
    BY <1>2, <2>1, BehindHolder
  <2>4. QED
    BY <1>1, <2>1, <2>2, <2>3, HolderLetsGo DEF LockInv
<1>7. CASE Stop \/ StopClosed
  BY <1>3, <1>7 DEF Stop, StopClosed
<1>8. QED
  BY <1>4, <1>5, <1>6, <1>7 DEF StopStep

\* In every reachable state the queue of _ws_lock is that of the tasks that wait
\* for it, each once, the sender first: through sends that suspend, reconnects,
\* a cancellation in any of them, and the stop.
THEOREM LockInvariant == ClientSpec => []LockInv
<1>1. ClientInit => LockInv
  BY DEF ClientInit, LockInv, LockServesWaiters, Waiters, Senders, CallStates
<1>2. LockInv /\ [ClientNext]_clientVars => LockInv'
  <2> SUFFICES ASSUME LockInv, [ClientNext]_clientVars PROVE LockInv'
    OBVIOUS
  <2>1. CASE RunnerStep
    BY <2>1, RunnerKeepsLockInv, CancelKeepsLockInv, ClientAssumption
  <2>2. CASE Stop \/ StopStep
    BY <2>2, StopKeepsLockInv, ClientAssumption
  <2>3. CASE ConnectionLost \/ UNCHANGED clientVars
    <3>1. UNCHANGED <<topics, call, ws_lock, in_send, runner, stopper>>
      BY <2>3 DEF ConnectionLost, clientVars, callVars, stopVars
    <3>2. QED
      BY <3>1 DEF LockInv, LockServesWaiters, Waiters, Senders
  <2>4. QED
    BY <2>1, <2>2, <2>3, CallsKeepLockInv, ClientAssumption DEF ClientNext
<1>3. QED
  BY <1>1, <1>2, PTL DEF ClientSpec

\* No task waits for the send lock without a place in its queue, and no place is
\* left behind by a task that was cancelled, that failed or that returned.
THEOREM LockAlwaysServesWaiters == ClientSpec => []LockServesWaiters
<1>1. LockInv => LockServesWaiters
  BY DEF LockInv
<1>2. QED
  BY <1>1, LockInvariant, PTL

-----------------------------------------------------------------------------
\* What the other variables hold.
ClientValues ==
  /\ wire \subseteq Topics
  /\ ws \in {"none", "set"} /\ sock \in {"none", "open", "closed"}
  /\ in_send \in BOOLEAN /\ exiting \in BOOLEAN
  /\ cancel \in BOOLEAN /\ stop \in BOOLEAN
  /\ runner \in {"connecting", "set_wait", "sub_wait", "sub_send", "receive",
                 "clear_wait", "closing", "backoff", "done"}
  /\ stopper \in {"none", "joining", "close_wait", "closing", "done", "failed"}
  /\ drops \in 0..MaxDrops

\* A frame that names topics leaves the exchange serving topics.
LEMMA SendKeepsWire ==
  ASSUME wire \subseteq Topics, NEW f, f.topics \subseteq Topics, NEW q, NEW x,
         Sent(f, q) \/ Skipped(q) \/ Suspended(x, f, q)
  PROVE  wire' \subseteq Topics /\ in_send' \in BOOLEAN
BY DEF Sent, Skipped, Suspended, Applied

LEMMA CallerSendKeepsWire ==
  ASSUME wire \subseteq Topics, NEW f, f.topics \subseteq Topics, NEW q, NEW k,
         CallerSend(k, f, q)
  PROVE  wire' \subseteq Topics /\ in_send' \in BOOLEAN
BY DEF CallerSend, Sent, Skipped, Suspended, Applied

LEMMA CallsKeepValues ==
  ASSUME ClientValues, LockInv, NEW k \in Callers,
         \/ \E t \in Topics : SubscribeTopic(k, t) \/ UnsubscribeTopic(k, t)
         \/ CallerStep(k)
  PROVE  ClientValues'
<1>1. UNCHANGED <<ws, sock, runner, exiting, cancel, stop, stopper, drops>>
  BY DEF SubscribeTopic, UnsubscribeTopic, SendJson, CallerStep,
         CallerLocked, CallerSent, stopVars
<1>2. ASSUME NEW op, NEW t \in Topics, SendJson(k, Frame(op, {t}))
      PROVE  wire' \subseteq Topics /\ in_send' \in BOOLEAN
  <2>1. Frame(op, {t}).topics \subseteq Topics
    BY DEF Frame
  <2>2. QED
    BY <1>2, <2>1, CallerSendKeepsWire DEF SendJson, ClientValues
<1>3. ASSUME CallerLocked(k)
      PROVE  wire' \subseteq Topics /\ in_send' \in BOOLEAN
  <2>1. ws_lock # <<>> /\ CallerSend(k, FirstFrame, Tail(ws_lock))
    BY <1>3 DEF CallerLocked, Granted
  <2>2. FirstFrame.topics \subseteq Topics
    BY <2>1, FrontTyped
  <2>3. QED
    BY <2>1, <2>2, CallerSendKeepsWire DEF ClientValues
<1>4. ASSUME CallerSent(k)
      PROVE  wire' \subseteq Topics /\ in_send' \in BOOLEAN
  <2>1. ws_lock # <<>>
    BY <1>4, SenderHolds DEF CallerSent, Senders
  <2>2. FirstFrame.topics \subseteq Topics
    BY <2>1, FrontTyped
  <2>3. \/ Sent(FirstFrame, Tail(ws_lock))
        \/ Skipped(Tail(ws_lock))
    BY <1>4 DEF CallerSent
  <2>4. QED
    BY <2>2, <2>3 DEF Sent, Skipped, Applied, ClientValues
<1>5. wire' \subseteq Topics /\ in_send' \in BOOLEAN
  BY <1>2, <1>3, <1>4 DEF SubscribeTopic, UnsubscribeTopic, CallerStep
<1>6. QED
  BY <1>1, <1>5 DEF ClientValues

LEMMA RunnerKeepsValues ==
  ASSUME ClientValues, LockInv, RunnerStep
  PROVE  ClientValues'
<1> USE DEF ClientValues
<1>1. ASSUME NEW f, f.topics \subseteq Topics, NEW q, NEW open, RunnerSend(f, q, open)
      PROVE  /\ wire' \subseteq Topics /\ in_send' \in BOOLEAN
             /\ runner' \in {"receive", "sub_send"}
  BY <1>1, SendKeepsWire DEF RunnerSend
<1>2. ASSUME NEW q, NEW open, SetWsAndSubscribe(q, open)
      PROVE  /\ wire' \subseteq Topics /\ in_send' \in BOOLEAN /\ ws' = "set"
             /\ runner' \in {"receive", "sub_send", "sub_wait"}
  <2>1. Frame("subscribe", topics).topics \subseteq Topics
    BY DEF Frame, LockInv
  <2>2. QED
    BY <1>1, <1>2, <2>1 DEF SetWsAndSubscribe, Skipped
<1>3. ASSUME NEW q, NEW b, ClearWs(q, b)
      PROVE  /\ wire' = {} /\ ws' = "none" /\ sock' \in {sock, "closed"}
             /\ runner' \in {"closing", "done", "backoff"}
  BY <1>3 DEF ClearWs, AfterFinally
<1>4. ASSUME NEW q, NEW b, EnterFinally(q, b)
      PROVE  /\ wire' \in {{}, wire} /\ ws' \in {"none", ws} /\ sock' \in {sock, "closed"}
             /\ runner' \in {"closing", "done", "backoff", "clear_wait"}
  BY <1>3, <1>4 DEF EnterFinally
<1>5. CASE Connected \/ WsLocked
  BY <1>2, <1>5 DEF Connected, WsLocked, stopVars
<1>6. CASE ConnectFailed \/ ReceiveEnds \/ ReceiveFatal
  BY <1>4, <1>6
     DEF ConnectFailed, ReceiveEnds, ReceiveFatal, stopVars
<1>7. CASE SubscribeAllLocked
  BY <1>1, <1>7, FrontTyped
     DEF SubscribeAllLocked, Granted, stopVars
<1>8. CASE SubscribeAllSent
  <2>1. ws_lock # <<>>
    BY <1>8, SenderHolds DEF SubscribeAllSent, Running, Senders
  <2>2. wire' \subseteq Topics /\ in_send' \in BOOLEAN
    BY <1>8, <2>1, FrontTyped, SendKeepsWire DEF SubscribeAllSent
  <2>3. QED
    BY <1>8, <2>2 DEF SubscribeAllSent, stopVars
<1>9. CASE ClearLocked
  BY <1>3, <1>9 DEF ClearLocked, stopVars
<1>10. CASE SocketClosed \/ BackoffOver
  BY <1>10 DEF SocketClosed, BackoffOver, AfterFinally, stopVars
<1>11. CASE RunnerCancelled
  <2>1. /\ cancel' = FALSE /\ exiting' = TRUE /\ in_send' \in BOOLEAN
        /\ UNCHANGED <<stop, stopper, drops>>
    BY <1>11 DEF RunnerCancelled, stopVars
  <2>2. \/ \E q : EnterFinally(q, TRUE)
        \/ runner' = "done" /\ UNCHANGED <<ws, sock, wire>>
    BY <1>11 DEF RunnerCancelled
  <2>3. QED
    BY <1>4, <2>1, <2>2
<1>12. QED
  BY <1>5, <1>6, <1>7, <1>8, <1>9, <1>10, <1>11 DEF RunnerStep

\* Every variable holds what it is declared to hold, every frame that waits is
\* one the client builds, and every task is at one of its awaits.
THEOREM ClientAlwaysTyped == ClientSpec => []ClientTypeOK
<1>1. ClientInit => ClientValues
  <2>1. 0 \in 0..MaxDrops
    BY ClientAssumption
  <2>2. QED
    BY <2>1 DEF ClientInit, ClientValues
<1>2. ClientValues /\ LockInv /\ [ClientNext]_clientVars => ClientValues'
  <2> SUFFICES ASSUME ClientValues, LockInv, [ClientNext]_clientVars PROVE ClientValues'
    OBVIOUS
  <2>1. CASE Stop
    BY <2>1 DEF Stop, ClientValues
  <2>2. CASE StopStep
    BY <2>2 DEF StopStep, StopJoined, StopLocked, StopClosed, CloseWs, ClientValues
  <2>3. CASE ConnectionLost
    BY <2>3, ClientAssumption DEF ConnectionLost, stopVars, ClientValues
  <2>4. CASE UNCHANGED clientVars
    BY <2>4 DEF clientVars, ClientValues
  <2>5. QED
    BY <2>1, <2>2, <2>3, <2>4, CallsKeepValues, RunnerKeepsValues DEF ClientNext
<1>3. ClientValues /\ LockInv => ClientTypeOK
  BY DEF ClientValues, LockInv, ClientTypeOK, Entries, Frames, CallStates
<1>4. QED
  BY <1>1, <1>2, <1>3, LockInvariant, PTL DEF ClientSpec

-----------------------------------------------------------------------------
(***************************************************************************)
(* The exchange serves what the hub wants: WireInSync and the stronger     *)
(* QueuedFramesLeadToDemand, as long as no send raises anything but        *)
(* ConnectionClosed.                                                       *)
(*                                                                         *)
(* Nothing is said of a runner that an exception unwinds: it never reads   *)
(* from a socket again, so a cancellation may take its frame out of the    *)
(* queue of _ws_lock without anybody missing it.                           *)
(***************************************************************************)
\* The frames of the queue q that mention t, and what the last of them says.
Mentions(q, t) == {i \in DOMAIN q : t \in q[i].frame.topics}
LastSays(q, t, wanted) ==
  \/ Mentions(q, t) = {}
  \/ \E i \in Mentions(q, t) :
       /\ \A j \in Mentions(q, t) : j <= i
       /\ (q[i].frame.op = "subscribe") <=> wanted

LockTyped == ws_lock \in Seq(Entries) /\ topics \subseteq Topics /\ wire \subseteq Topics

\* Who is suspended inside ws.send is at the head of the queue, on the socket
\* that _ws refers to.
SenderFirst ==
  /\ \A k \in Callers : call[k] = "send" => in_send /\ Head(ws_lock).task = k
  /\ runner = "sub_send" => in_send /\ Head(ws_lock).task = Runner
  /\ in_send => ws_lock # <<>> /\ ws = "set"
  /\ DOMAIN call = Callers

\* Without a socket in _ws nothing is served, and a runner that is about to
\* connect has none.
UnsetIsUnserved ==
  /\ ~WsIsOpen => wire = {}
  /\ runner \in {"connecting", "set_wait", "closing", "backoff"} => ws = "none"

\* The last frame that mentions a topic says whether it is wanted now.
QueueDecides == \A t \in Topics : LastSays(ws_lock, t, t \in topics)

\* A topic that no frame mentions is served as it is wanted.
RestInSync ==
  runner \in {"sub_wait", "sub_send", "receive"} /\ WsIsOpen =>
    \A t \in Topics : Mentions(ws_lock, t) = {} => (t \in wire <=> t \in topics)

QueueInv == LockTyped /\ SenderFirst /\ UnsetIsUnserved /\ QueueDecides /\ RestInSync

\* A runner that is being unwound stays in its finally block, and only such a
\* runner is ever done.
UnwindingEnds ==
  /\ stop => cancel \/ exiting
  /\ runner = "done" => exiting
  /\ exiting => runner \in {"clear_wait", "closing", "done"}

SyncInv == UnwindingEnds /\ (~exiting => QueueInv)

-----------------------------------------------------------------------------
\* A frame added at the end: silent on the topics it does not mention, decisive
\* for those it does.
LEMMA AppendOther ==
  ASSUME NEW q \in Seq(Entries), NEW e \in Entries, NEW t, t \notin e.frame.topics
  PROVE  /\ Mentions(Append(q, e), t) = Mentions(q, t)
         /\ \A w : LastSays(q, t, w) => LastSays(Append(q, e), t, w)
<1>1. /\ DOMAIN Append(q, e) = 1..(Len(q) + 1) /\ DOMAIN q = 1..Len(q) /\ Len(q) \in Nat
      /\ \A i \in 1..Len(q) : Append(q, e)[i] = q[i]
      /\ Append(q, e)[Len(q) + 1] = e
  OBVIOUS
<1>2. Mentions(Append(q, e), t) = Mentions(q, t)
  BY <1>1 DEF Mentions
<1>3. \A i \in Mentions(q, t) : Append(q, e)[i] = q[i]
  BY <1>1 DEF Mentions
<1>4. QED
  BY <1>2, <1>3 DEF LastSays

LEMMA AppendMentioning ==
  ASSUME NEW q \in Seq(Entries), NEW e \in Entries, NEW t, t \in e.frame.topics
  PROVE  /\ Mentions(Append(q, e), t) # {}
         /\ \A w : ((e.frame.op = "subscribe") <=> w) => LastSays(Append(q, e), t, w)
<1>1. /\ DOMAIN Append(q, e) = 1..(Len(q) + 1) /\ Len(q) \in Nat
      /\ Append(q, e)[Len(q) + 1] = e
  OBVIOUS
<1>2. /\ Len(q) + 1 \in Mentions(Append(q, e), t)
      /\ \A j \in Mentions(Append(q, e), t) : j <= Len(q) + 1
  BY <1>1 DEF Mentions
<1>3. QED
  BY <1>1, <1>2 DEF LastSays

\* The first frame leaves: what the others say of a topic stands.
LEMMA TailSays ==
  ASSUME NEW q \in Seq(Entries), q # <<>>, NEW t, NEW w, LastSays(q, t, w)
  PROVE  LastSays(Tail(q), t, w)
<1>1. /\ Len(q) \in Nat \ {0} /\ DOMAIN q = 1..Len(q)
      /\ DOMAIN Tail(q) = 1..(Len(q) - 1)
      /\ \A i \in 1..(Len(q) - 1) : Tail(q)[i] = q[i + 1]
  OBVIOUS
<1>2. \A i \in Mentions(Tail(q), t) : i + 1 \in Mentions(q, t)
  BY <1>1 DEF Mentions
<1>3. CASE Mentions(Tail(q), t) = {}
  BY <1>3 DEF LastSays
<1>4. CASE Mentions(Tail(q), t) # {}
  <2>1. PICK i \in Mentions(q, t) : /\ \A j \in Mentions(q, t) : j <= i
                                    /\ (q[i].frame.op = "subscribe") <=> w
    BY <1>2, <1>4 DEF LastSays
  <2>2. PICK j \in Mentions(Tail(q), t) : TRUE
    BY <1>4
  <2>3. i \in 1..Len(q) /\ j \in 1..(Len(q) - 1) /\ j + 1 <= i
    BY <1>1, <1>2, <2>1, <2>2 DEF Mentions
  <2>4. i - 1 \in Mentions(Tail(q), t) /\ Tail(q)[i - 1] = q[i]
    BY <1>1, <2>1, <2>3 DEF Mentions
  <2>5. \A k \in Mentions(Tail(q), t) : k <= i - 1
    BY <1>1, <1>2, <2>1, <2>3 DEF Mentions
  <2>6. QED
    BY <2>1, <2>4, <2>5 DEF LastSays
<1>5. QED
  BY <1>3, <1>4

\* The frame at the head is sent: the topics nobody mentions any more are served
\* as they are wanted, if they were before or the frame was the last to say so.
LEMMA SendSettles ==
  ASSUME NEW q \in Seq(Entries), q # <<>>, NEW t, NEW w, w \in BOOLEAN,
         LastSays(q, t, w), Mentions(q, t) = {} => (t \in wire <=> w),
         Mentions(Tail(q), t) = {}
  PROVE  t \in Applied(Head(q).frame) <=> w
<1>1. /\ Len(q) \in Nat \ {0} /\ DOMAIN q = 1..Len(q)
      /\ DOMAIN Tail(q) = 1..(Len(q) - 1)
      /\ \A i \in 1..(Len(q) - 1) : Tail(q)[i] = q[i + 1]
      /\ Head(q) = q[1]
  OBVIOUS
<1>2. \A i \in Mentions(q, t) : i = 1
  <2> SUFFICES ASSUME NEW i \in Mentions(q, t), i # 1 PROVE FALSE
    OBVIOUS
  <2>1. i - 1 \in 1..(Len(q) - 1) /\ t \in Tail(q)[i - 1].frame.topics
    BY <1>1 DEF Mentions
  <2>2. QED
    BY <1>1, <2>1 DEF Mentions
<1>3. CASE t \in Head(q).frame.topics
  <2>1. 1 \in Mentions(q, t)
    BY <1>1, <1>3 DEF Mentions
  <2>2. (Head(q).frame.op = "subscribe") <=> w
    BY <1>1, <1>2, <2>1 DEF LastSays
  <2>3. QED
    BY <1>3, <2>2 DEF Applied
<1>4. CASE t \notin Head(q).frame.topics
  <2>1. Mentions(q, t) = {}
    BY <1>1, <1>2, <1>4 DEF Mentions
  <2>2. QED
    BY <1>4, <2>1 DEF Applied
<1>5. QED
  BY <1>3, <1>4

\* A queue is its head before the rest; the first of several is not the last.
LEMMA HeadAndTail ==
  ASSUME NEW q \in Seq(Entries), q # <<>>
  PROVE  /\ Head(q) \in Entries /\ Tail(q) \in Seq(Entries)
         /\ <<Head(q)>> \o Tail(q) = q
         /\ Entry(Head(q).task, Head(q).frame) = Head(q)
<1>1. Head(q) \in Entries /\ Tail(q) \in Seq(Entries)
  OBVIOUS
<1>2. <<Head(q)>> \o Tail(q) = q
  OBVIOUS
<1>3. Entry(Head(q).task, Head(q).frame) = Head(q)
  BY <1>1 DEF Entry, Entries
<1>4. QED
  BY <1>1, <1>2, <1>3

\* The entry of one task in an empty queue.
LEMMA OneEntry ==
  ASSUME NEW e \in Entries
  PROVE  /\ <<e>> \in Seq(Entries) /\ <<e>> # <<>>
         /\ Head(<<e>>) = e /\ Tail(<<e>>) = <<>> /\ <<e>> \o <<>> = <<e>>
         /\ \A t : Mentions(<<>>, t) = {}
         /\ \A t : Mentions(<<e>>, t) = IF t \in e.frame.topics THEN {1} ELSE {}
         /\ \A t, w : LastSays(<<e>>, t, w) <=>
                        (t \in e.frame.topics => ((e.frame.op = "subscribe") <=> w))
<1>1. /\ <<e>> \in Seq(Entries) /\ <<e>> # <<>>
      /\ Head(<<e>>) = e /\ Tail(<<e>>) = <<>> /\ <<e>> \o <<>> = <<e>>
      /\ DOMAIN <<e>> = {1} /\ <<e>>[1] = e
  OBVIOUS
<1>2. \A t : Mentions(<<>>, t) = {}
  BY DEF Mentions
<1>3. \A t : Mentions(<<e>>, t) = IF t \in e.frame.topics THEN {1} ELSE {}
  BY <1>1 DEF Mentions
<1>4. ASSUME NEW t, NEW w
      PROVE  LastSays(<<e>>, t, w) <=>
               (t \in e.frame.topics => ((e.frame.op = "subscribe") <=> w))
  BY <1>1, <1>3 DEF LastSays
<1>5. QED
  BY <1>1, <1>2, <1>3, <1>4

-----------------------------------------------------------------------------
\* The loop ends only in a runner that is being unwound.
LEMMA UnwindingEndsKept ==
  ASSUME SocketInv, UnwindingEnds, [ClientNext]_clientVars
  PROVE  UnwindingEnds'
<1> USE DEF UnwindingEnds
<1>1. CASE UNCHANGED <<stop, cancel, exiting, runner>>
  BY <1>1
<1>2. ASSUME NEW k \in Callers,
             \/ \E t \in Topics : SubscribeTopic(k, t) \/ UnsubscribeTopic(k, t)
             \/ CallerStep(k)
      PROVE  UnwindingEnds'
  BY <1>1, <1>2 DEF SubscribeTopic, UnsubscribeTopic, SendJson, CallerStep, CallerLocked,
                    CallerSent, stopVars
<1>3. CASE Connected \/ WsLocked
  <2>1. UNCHANGED <<stop, cancel, exiting>> /\ ~exiting
    BY <1>3 DEF Connected, WsLocked, Running, stopVars
  <2>2. runner' # "done"
    BY <1>3, SetWsEffect DEF Connected, WsLocked
  <2>3. QED
    BY <2>1, <2>2
<1>4. CASE SubscribeAllLocked \/ SubscribeAllSent
  BY <1>4 DEF SubscribeAllLocked, SubscribeAllSent, RunnerSend, Running, stopVars
<1>5. CASE ConnectFailed \/ ReceiveEnds
  BY <1>5 DEF ConnectFailed, ReceiveEnds, EnterFinally, ClearWs, AfterFinally, Running, stopVars
<1>6. CASE ReceiveFatal
  BY <1>6 DEF ReceiveFatal, EnterFinally, ClearWs, AfterFinally, Running, stopVars
<1>7. CASE ClearLocked \/ SocketClosed \/ BackoffOver
  BY <1>7 DEF ClearLocked, SocketClosed, BackoffOver, ClearWs, AfterFinally, Running, stopVars
<1>8. CASE RunnerCancelled
  BY <1>8 DEF RunnerCancelled, EnterFinally, ClearWs, AfterFinally, stopVars
<1>9. CASE Stop
  BY <1>9 DEF Stop
<1>10. CASE StopStep \/ ConnectionLost
  BY <1>1, <1>10 DEF StopStep, StopJoined, StopLocked, StopClosed, ConnectionLost, stopVars
<1>11. CASE UNCHANGED clientVars
  BY <1>1, <1>11 DEF clientVars
<1>12. QED
  BY <1>2, <1>3, <1>4, <1>5, <1>6, <1>7, <1>8, <1>9, <1>10, <1>11 DEF ClientNext, RunnerStep

\* A call changes the demand and the queue in one step.
LEMMA CallKeepsQueueInv ==
  ASSUME ClientAssumption, Faulty = {}, QueueInv, NEW k \in Callers, NEW t \in Topics,
         NEW op \in {"subscribe", "unsubscribe"},
         topics' = IF op = "subscribe" THEN topics \cup {t} ELSE topics \ {t},
         SendJson(k, Frame(op, {t}))
  PROVE  QueueInv'
<1> USE DEF QueueInv
<1> DEFINE e == Entry(k, Frame(op, {t}))
<1>1. /\ e \in Entries /\ e.task = k
      /\ e.frame = Frame(op, {t}) /\ e.frame.op = op /\ e.frame.topics = {t}
  BY DEF Entry, Frame, Entries, Frames
<1>2. /\ topics' \subseteq Topics
      /\ t \in topics' <=> op = "subscribe"
      /\ \A u \in Topics : u # t => (u \in topics' <=> u \in topics)
  BY DEF LockTyped
<1>3. /\ UNCHANGED <<ws, sock, runner>> /\ WsIsOpen' = WsIsOpen
      /\ call[k] \in {"returned", "raised"}
  BY DEF SendJson, WsIsOpen
<1>4. CASE ws_lock = <<>> /\ CallerSend(k, Frame(op, {t}), <<>>)
  <2>1. in_send = FALSE /\ runner # "sub_send" /\ \A d \in Callers : call[d] # "send"
    BY <1>4 DEF SenderFirst, SendJson
  <2>2. CASE ~WsIsOpen /\ Skipped(<<>>) /\ Returns(k, "returned")
    <3>1. ws_lock' = <<>> /\ in_send' = FALSE /\ wire' = wire /\ ~WsIsOpen'
      BY <1>3, <2>2 DEF Skipped
    <3>2. QueueDecides'
      BY <3>1, OneEntry DEF QueueDecides, LastSays, Mentions
    <3>3. LockTyped' /\ SenderFirst' /\ UnsetIsUnserved' /\ RestInSync'
      BY <1>2, <1>3, <2>1, <2>2, <3>1
         DEF LockTyped, SenderFirst, UnsetIsUnserved, RestInSync, Returns
    <3>4. QED
      BY <3>2, <3>3
  <2>3. CASE WsIsOpen /\ Sent(Frame(op, {t}), <<>>) /\ Returns(k, "returned")
    <3>1. ws_lock' = <<>> /\ in_send' = FALSE /\ WsIsOpen'
      BY <1>3, <2>3 DEF Sent
    <3>2. wire' = IF op = "subscribe" THEN wire \cup {t} ELSE wire \ {t}
      BY <2>3 DEF Sent, Applied, Frame
    <3>3. QueueDecides'
      BY <3>1 DEF QueueDecides, LastSays, Mentions
    <3>4. RestInSync'
      <4>1. \A u \in Topics : Mentions(ws_lock, u) = {}
        BY <1>4 DEF Mentions
      <4>2. QED
        BY <1>2, <1>3, <3>1, <3>2, <4>1 DEF RestInSync
    <3>5. LockTyped' /\ SenderFirst' /\ UnsetIsUnserved'
      BY <1>2, <1>3, <2>1, <2>3, <3>1, <3>2
         DEF LockTyped, SenderFirst, UnsetIsUnserved, Returns
    <3>6. QED
      BY <3>3, <3>4, <3>5
  <2>4. CASE WsIsOpen /\ Suspended(k, Frame(op, {t}), <<>>) /\ Returns(k, "send")
    <3>1. ws_lock' = <<e>> /\ in_send' = TRUE /\ wire' = wire /\ WsIsOpen'
      BY <1>1, <1>3, <2>4, OneEntry DEF Suspended
    <3>2. QueueDecides'
      BY <1>1, <1>2, <3>1, OneEntry DEF QueueDecides
    <3>3. RestInSync'
      <4>1. \A u \in Topics : Mentions(ws_lock, u) = {}
        BY <1>4 DEF Mentions
      <4>2. \A u \in Topics : Mentions(ws_lock', u) = {} => u # t
        BY <1>1, <3>1, OneEntry
      <4>3. \A u : Mentions(ws_lock, u)' = Mentions(ws_lock', u)
        BY DEF Mentions
      <4>4. QED
        BY <1>2, <1>3, <3>1, <4>1, <4>2, <4>3 DEF RestInSync
    <3>4. SenderFirst'
      <4>1. Head(ws_lock') = e /\ ws_lock' # <<>> /\ ws' = "set"
        BY <1>1, <3>1, OneEntry DEF WsIsOpen
      <4>2. k # Runner /\ \A d \in Callers : d # k => call'[d] # "send"
        BY <2>1, <2>4 DEF Returns, SenderFirst, ClientAssumption
      <4>3. QED
        BY <1>1, <1>3, <2>1, <2>4, <3>1, <4>1, <4>2 DEF SenderFirst, Returns
    <3>5. LockTyped' /\ UnsetIsUnserved'
      BY <1>1, <1>2, <1>3, <3>1, OneEntry DEF LockTyped, UnsetIsUnserved
    <3>6. QED
      BY <3>2, <3>3, <3>4, <3>5
  <2>5. QED
    BY <1>4, <2>2, <2>3, <2>4 DEF CallerSend
<1>5. CASE /\ ws_lock # <<>> /\ ws_lock' = Append(ws_lock, e)
           /\ Returns(k, "wait") /\ UNCHANGED <<wire, in_send>>
  <2>1. /\ ws_lock \in Seq(Entries) /\ ws_lock' \in Seq(Entries)
        /\ Head(ws_lock') = Head(ws_lock) /\ ws_lock' # <<>>
    BY <1>1, <1>5 DEF LockTyped
  <2>2. QueueDecides'
    <3>1. \A u \in Topics : LastSays(ws_lock', u, u \in topics')
      <4> SUFFICES ASSUME NEW u \in Topics PROVE LastSays(ws_lock', u, u \in topics')
        OBVIOUS
      <4>1. CASE u = t
        BY <1>1, <1>2, <1>5, <2>1, <4>1, AppendMentioning
      <4>2. CASE u # t
        <5>1. (u \in topics') = (u \in topics)
          BY <1>2, <4>2
        <5>2. LastSays(ws_lock, u, u \in topics)
          BY DEF QueueDecides
        <5>3. QED
          BY <1>1, <1>5, <2>1, <4>2, <5>1, <5>2, AppendOther
      <4>3. QED
        BY <4>1, <4>2
    <3>2. QED
      BY <3>1 DEF QueueDecides, LastSays, Mentions
  <2>3. RestInSync'
    <3>1. \A u \in Topics : Mentions(ws_lock', u) = {} => u # t /\ Mentions(ws_lock, u) = {}
      BY <1>1, <1>5, <2>1, AppendMentioning, AppendOther
    <3>2. \A u : Mentions(ws_lock, u)' = Mentions(ws_lock', u)
      BY DEF Mentions
    <3>3. QED
      BY <1>2, <1>3, <1>5, <3>1, <3>2 DEF RestInSync
  <2>4. LockTyped' /\ UnsetIsUnserved' /\ SenderFirst'
    BY <1>2, <1>3, <1>5, <2>1 DEF LockTyped, UnsetIsUnserved, SenderFirst, Returns
  <2>5. QED
    BY <2>2, <2>3, <2>4
<1>6. QED
  BY <1>4, <1>5 DEF SendJson

\* What the steps of one task at the head of the queue have in common.
Subscribed(pc) == pc \in {"sub_wait", "sub_send", "receive"}

LEMMA HeadSentKeepsSync ==
  ASSUME QueueInv, ws_lock # <<>>, Sent(FirstFrame, Tail(ws_lock)),
         UNCHANGED <<topics, ws, sock>>, Subscribed(runner') => Subscribed(runner)
  PROVE  LockTyped' /\ QueueDecides' /\ RestInSync'
<1> USE DEF QueueInv
<1>1. ws_lock' = Tail(ws_lock) /\ wire' = Applied(Head(ws_lock).frame)
  BY DEF Sent, FirstFrame
<1>2. /\ ws_lock \in Seq(Entries) /\ Tail(ws_lock) \in Seq(Entries)
      /\ Head(ws_lock).frame.topics \subseteq Topics
  BY HeadAndTail DEF LockTyped, Entries, Frames
<1>3. LockTyped'
  BY <1>1, <1>2 DEF LockTyped, Applied
<1>4. ASSUME NEW t \in Topics
      PROVE  /\ LastSays(Tail(ws_lock), t, t \in topics)
             /\ /\ Subscribed(runner) /\ WsIsOpen
                /\ Mentions(Tail(ws_lock), t) = {}
                => (t \in wire' <=> t \in topics)
  <2>1. LastSays(ws_lock, t, t \in topics)
    BY DEF QueueDecides
  <2>2. Subscribed(runner) /\ WsIsOpen =>
          (Mentions(ws_lock, t) = {} => (t \in wire <=> t \in topics))
    BY DEF RestInSync, Subscribed
  <2>3. LastSays(Tail(ws_lock), t, t \in topics)
    BY <1>2, <2>1, TailSays
  <2>4. ASSUME Subscribed(runner), WsIsOpen, Mentions(Tail(ws_lock), t) = {}
        PROVE  t \in Applied(Head(ws_lock).frame) <=> t \in topics
    <3>1. (t \in topics) \in BOOLEAN
      OBVIOUS
    <3>2. Mentions(ws_lock, t) = {} => (t \in wire <=> t \in topics)
      BY <2>2, <2>4
    <3> DEFINE w == t \in topics
    <3> HIDE DEF w
    <3>3. t \in Applied(Head(ws_lock).frame) <=> w
      BY <1>2, <2>1, <2>4, <3>1, <3>2, SendSettles DEF w
    <3>4. QED
      BY <3>3 DEF w
  <2>5. QED
    BY <1>1, <2>3, <2>4
<1>5. QueueDecides'
  BY <1>1, <1>4 DEF QueueDecides, LastSays, Mentions
<1>6. RestInSync'
  BY <1>1, <1>4 DEF RestInSync, Mentions, Subscribed, WsIsOpen
<1>7. QED
  BY <1>3, <1>5, <1>6

LEMMA HeadSkippedKeepsSync ==
  ASSUME QueueInv, ws_lock # <<>>, ws_lock' = Tail(ws_lock),
         topics' = topics, wire' \subseteq Topics, ~(Subscribed(runner') /\ WsIsOpen')
  PROVE  LockTyped' /\ QueueDecides' /\ RestInSync'
<1> USE DEF QueueInv
<1>1. ws_lock \in Seq(Entries) /\ Tail(ws_lock) \in Seq(Entries)
  BY HeadAndTail DEF LockTyped
<1>2. \A t \in Topics : LastSays(Tail(ws_lock), t, t \in topics)
  BY <1>1, TailSays DEF QueueDecides
<1>3. QueueDecides'
  BY <1>2 DEF QueueDecides, LastSays, Mentions
<1>4. QED
  BY <1>1, <1>3 DEF LockTyped, RestInSync, Subscribed

\* The queue gets a task that only wants to set _ws.
LEMMA WaitingForWsKeepsSync ==
  ASSUME QueueInv, ws_lock' = Append(ws_lock, Entry(Runner, NoFrame)),
         UNCHANGED <<topics, wire>>, ~Subscribed(runner')
  PROVE  /\ LockTyped' /\ QueueDecides' /\ RestInSync'
         /\ ws_lock' # <<>> /\ (ws_lock # <<>> => Head(ws_lock') = Head(ws_lock))
<1> USE DEF QueueInv
<1> DEFINE e == Entry(Runner, NoFrame)
<1>1. e \in Entries /\ e.frame.topics = {}
  BY DEF Entry, Entries, Frames, NoFrame, Frame
<1>2. /\ ws_lock \in Seq(Entries) /\ ws_lock' \in Seq(Entries)
      /\ ws_lock' # <<>> /\ (ws_lock # <<>> => Head(ws_lock') = Head(ws_lock))
  BY <1>1 DEF LockTyped
<1>3. \A t \in Topics : LastSays(ws_lock', t, t \in topics)
  BY <1>1, <1>2, AppendOther DEF QueueDecides
<1>4. QueueDecides'
  BY <1>3 DEF QueueDecides, LastSays, Mentions
<1>5. QED
  BY <1>2, <1>4 DEF LockTyped, RestInSync, Subscribed

\* The frame of a suspended send stays at the head of the queue.
LEMMA HeadSuspended ==
  ASSUME QueueInv, ws_lock # <<>>, NEW x, Head(ws_lock).task = x,
         Suspended(x, FirstFrame, Tail(ws_lock))
  PROVE  ws_lock' = ws_lock
<1>1. Entry(x, FirstFrame) = Head(ws_lock) /\ <<Head(ws_lock)>> \o Tail(ws_lock) = ws_lock
  BY HeadAndTail DEF QueueInv, LockTyped, FirstFrame
<1>2. QED
  BY <1>1 DEF Suspended

-----------------------------------------------------------------------------
\* A waiting call gets the lock, or its send ends.
LEMMA CallerKeepsQueueInv ==
  ASSUME ClientAssumption, Faulty = {}, QueueInv, NEW k \in Callers, CallerStep(k)
  PROVE  QueueInv'
<1> USE DEF QueueInv
<1>1. /\ UNCHANGED <<topics, ws, sock, runner>> /\ WsIsOpen' = WsIsOpen
      /\ Subscribed(runner') => Subscribed(runner)
      /\ ws_lock # <<>> /\ Head(ws_lock).task = k
      /\ \A d \in Callers : d # k => call[d] # "send"
      /\ runner # "sub_send" /\ k # Runner
      /\ wire \subseteq Topics
  BY DEF CallerStep, CallerLocked, CallerSent, Granted, SenderFirst, WsIsOpen,
         ClientAssumption, LockTyped
<1>2. CASE Sent(FirstFrame, Tail(ws_lock)) /\ Returns(k, "returned") /\ WsIsOpen
  <2>1. LockTyped' /\ QueueDecides' /\ RestInSync'
    BY <1>1, <1>2, HeadSentKeepsSync
  <2>2. SenderFirst' /\ UnsetIsUnserved'
    BY <1>1, <1>2 DEF SenderFirst, UnsetIsUnserved, Sent, Returns
  <2>3. QED
    BY <2>1, <2>2
<1>3. CASE Skipped(Tail(ws_lock)) /\ Returns(k, "returned") /\ ~WsIsOpen
  <2>1. LockTyped' /\ QueueDecides' /\ RestInSync'
    BY <1>1, <1>3, HeadSkippedKeepsSync DEF Skipped
  <2>2. SenderFirst' /\ UnsetIsUnserved'
    BY <1>1, <1>3 DEF SenderFirst, UnsetIsUnserved, Skipped, Returns
  <2>3. QED
    BY <2>1, <2>2
<1>4. CASE WsIsOpen /\ Suspended(k, FirstFrame, Tail(ws_lock)) /\ Returns(k, "send")
  <2>1. ws_lock' = ws_lock /\ wire' = wire /\ in_send' = TRUE
    BY <1>1, <1>4, HeadSuspended DEF Suspended
  <2>2. LockTyped' /\ QueueDecides' /\ RestInSync'
    BY <1>1, <2>1 DEF LockTyped, QueueDecides, RestInSync, LastSays, Mentions
  <2>3. SenderFirst' /\ UnsetIsUnserved'
    BY <1>1, <1>4, <2>1 DEF SenderFirst, UnsetIsUnserved, Returns, WsIsOpen
  <2>4. QED
    BY <2>2, <2>3
<1>5. CASE CallerLocked(k)
  BY <1>2, <1>3, <1>4, <1>5 DEF CallerLocked, CallerSend
<1>6. CASE CallerSent(k)
  <2>1. ws = "set"
    BY <1>6 DEF CallerSent, SenderFirst
  <2>2. QED
    BY <1>2, <1>3, <1>6, <2>1 DEF CallerSent, WsIsOpen
<1>7. QED
  BY <1>5, <1>6 DEF CallerStep

\* A new socket goes into _ws, and all that is wanted is subscribed on it, at
\* once or by a frame behind those that wait.
LEMMA SetWsKeepsQueueInv ==
  ASSUME QueueInv, ws = "none", ~in_send, runner # "sub_send", runner' # "set_wait",
         NEW q \in Seq(Entries), \A t \in Topics : LastSays(q, t, t \in topics),
         NEW open \in BOOLEAN, open <=> sock' = "open",
         SetWsAndSubscribe(q, open), UNCHANGED callVars
  PROVE  QueueInv'
<1> USE DEF QueueInv
<1> DEFINE f == Frame("subscribe", topics)
           e == Entry(Runner, f)
<1>1. /\ e \in Entries /\ e.task = Runner
      /\ e.frame = f /\ f.op = "subscribe" /\ f.topics = topics
  BY DEF Entry, Frame, Entries, Frames, LockTyped
<1>2. /\ ws' = "set" /\ (WsIsOpen' <=> open)
      /\ topics' = topics /\ call' = call /\ topics \subseteq Topics
      /\ wire = {} /\ \A k \in Callers : call[k] # "send"
      /\ runner' \in {"sub_wait", "sub_send", "receive"}
  BY SetWsEffect DEF SetWsAndSubscribe, UnsetIsUnserved, WsIsOpen, SenderFirst, callVars, LockTyped
<1>3. CASE topics = {} /\ Skipped(q) /\ runner' = "receive"
  <2>1. ws_lock' = q /\ wire' = {} /\ in_send' = FALSE
    BY <1>2, <1>3 DEF Skipped
  <2>2. QueueDecides'
    BY <1>2, <2>1 DEF QueueDecides, LastSays, Mentions
  <2>3. QED
    BY <1>2, <1>3, <2>1, <2>2 DEF LockTyped, RestInSync, SenderFirst, UnsetIsUnserved
<1>4. CASE q = <<>> /\ ~open /\ Skipped(q) /\ runner' = "receive"
  <2>1. ws_lock' = q /\ wire' = {} /\ in_send' = FALSE
    BY <1>2, <1>4 DEF Skipped
  <2>2. QueueDecides'
    BY <1>2, <2>1 DEF QueueDecides, LastSays, Mentions
  <2>3. QED
    BY <1>2, <1>4, <2>1, <2>2 DEF LockTyped, RestInSync, SenderFirst, UnsetIsUnserved
<1>5. CASE q = <<>> /\ open /\ Sent(f, q) /\ runner' = "receive"
  <2>1. ws_lock' = q /\ wire' = topics /\ in_send' = FALSE
    BY <1>1, <1>2, <1>5 DEF Sent, Applied
  <2>2. QueueDecides'
    BY <1>2, <2>1 DEF QueueDecides, LastSays, Mentions
  <2>3. QED
    BY <1>2, <1>5, <2>1, <2>2 DEF LockTyped, RestInSync, SenderFirst, UnsetIsUnserved
<1>6. CASE q = <<>> /\ open /\ Suspended(Runner, f, q) /\ runner' = "sub_send"
  <2>1. ws_lock' = <<e>> /\ wire' = {} /\ in_send' = TRUE
    BY <1>1, <1>2, <1>6, OneEntry DEF Suspended
  <2>2. \A t : Mentions(ws_lock, t)' = Mentions(ws_lock', t)
    BY DEF Mentions
  <2>3. QueueDecides'
    BY <1>1, <1>2, <2>1, OneEntry DEF QueueDecides
  <2>4. RestInSync'
    BY <1>1, <1>2, <2>1, <2>2, OneEntry DEF RestInSync
  <2>5. /\ ws_lock' \in Seq(Entries) /\ ws_lock' # <<>>
        /\ Head(ws_lock') = e
    BY <1>1, <2>1, OneEntry
  <2>6. QED
    BY <1>1, <1>2, <1>6, <2>1, <2>3, <2>4, <2>5
       DEF LockTyped, SenderFirst, UnsetIsUnserved
<1>7. CASE /\ q # <<>> /\ ws_lock' = Append(q, e) /\ runner' = "sub_wait"
           /\ UNCHANGED <<wire, in_send>>
  <2>1. ws_lock' \in Seq(Entries)
    BY <1>1, <1>7
  <2>2. \A t : Mentions(ws_lock, t)' = Mentions(ws_lock', t)
    BY DEF Mentions
  <2>3. ASSUME NEW t \in Topics
        PROVE  /\ LastSays(ws_lock', t, t \in topics)
               /\ Mentions(ws_lock', t) = {} => t \notin topics
    <3>1. CASE t \in topics
      BY <1>1, <1>7, <3>1, AppendMentioning
    <3>2. CASE t \notin topics
      BY <1>1, <1>7, <3>2, AppendOther
    <3>3. QED
      BY <3>1, <3>2
  <2>4. QueueDecides' /\ RestInSync'
    BY <1>2, <1>7, <2>2, <2>3 DEF QueueDecides, RestInSync, LastSays, Mentions
  <2>5. QED
    BY <1>2, <1>7, <2>1, <2>4 DEF LockTyped, SenderFirst, UnsetIsUnserved
<1>8. QED
  BY <1>3, <1>4, <1>5, <1>6, <1>7 DEF SetWsAndSubscribe, RunnerSend

\* The runner, as long as nothing unwinds it.
LEMMA RunnerKeepsQueueInv ==
  ASSUME ClientAssumption, SocketInv, UnwindingEnds, QueueInv, ~exiting,
         RunnerStep, ~exiting'
  PROVE  QueueInv'
<1> USE DEF QueueInv
<1>1. CASE Connected
  <2>1. /\ runner = "connecting" /\ ws = "none" /\ sock' = "open"
        /\ UNCHANGED callVars /\ wire = {}
    BY <1>1 DEF Connected, Running, UnsetIsUnserved, WsIsOpen
  <2>2. CASE ws_lock = <<>> /\ SetWsAndSubscribe(<<>>, TRUE)
    <3>1. /\ ~in_send /\ <<>> \in Seq(Entries)
          /\ runner' \in {"sub_wait", "sub_send", "receive"}
      <4>1. ~in_send /\ <<>> \in Seq(Entries)
        BY <2>2 DEF SenderFirst
      <4>2. runner' \in {"sub_wait", "sub_send", "receive"}
        BY <2>2, SetWsEffect
      <4>3. QED
        BY <4>1, <4>2
    <3>2. \A t \in Topics : LastSays(<<>>, t, t \in topics)
      BY DEF LastSays, Mentions
    <3>3. QED
      BY <2>1, <2>2, <3>1, <3>2, SetWsKeepsQueueInv
  <2>3. CASE /\ ws_lock # <<>> /\ ws_lock' = Append(ws_lock, Entry(Runner, NoFrame))
             /\ runner' = "set_wait" /\ UNCHANGED <<ws, wire, in_send>>
    <3>1. /\ LockTyped' /\ QueueDecides' /\ RestInSync'
          /\ ws_lock' # <<>> /\ Head(ws_lock') = Head(ws_lock)
      BY <2>1, <2>3, WaitingForWsKeepsSync DEF Subscribed, callVars
    <3>2. QED
      BY <2>1, <2>3, <3>1 DEF SenderFirst, UnsetIsUnserved, WsIsOpen, callVars
  <2>4. QED
    BY <1>1, <2>2, <2>3 DEF Connected
<1>2. CASE WsLocked
  <2>1. /\ runner = "set_wait" /\ ws = "none" /\ ws_lock # <<>> /\ ~in_send
        /\ UNCHANGED callVars /\ sock' = sock
        /\ SetWsAndSubscribe(Tail(ws_lock), sock = "open")
    BY <1>2 DEF WsLocked, Running, Granted, UnsetIsUnserved
  <2>2. /\ ws_lock \in Seq(Entries) /\ Tail(ws_lock) \in Seq(Entries)
        /\ \A t \in Topics : LastSays(Tail(ws_lock), t, t \in topics)
    BY <2>1, HeadAndTail, TailSays DEF LockTyped, QueueDecides
  <2>3. runner' # "set_wait"
    BY <2>1, SetWsEffect
  <2>4. QED
    BY <2>1, <2>2, <2>3, SetWsKeepsQueueInv
<1>3. CASE SubscribeAllLocked \/ SubscribeAllSent
  <2>1. /\ runner \in {"sub_wait", "sub_send"} /\ runner' \in {"sub_send", "receive"}
        /\ UNCHANGED <<topics, call, ws, sock>>
        /\ ws_lock # <<>> /\ Head(ws_lock).task = Runner
        /\ \A k \in Callers : call[k] # "send"
        /\ wire \subseteq Topics
    BY <1>3 DEF SubscribeAllLocked, SubscribeAllSent, RunnerSend, Running, Granted,
                callVars, SenderFirst, LockTyped, ClientAssumption
  <2>2. sock = "open" => ws = "set"
    BY <2>1 DEF SocketInv, SocketHasOwner
  <2>3. CASE sock = "open" /\ Sent(FirstFrame, Tail(ws_lock)) /\ runner' = "receive"
    <3>1. LockTyped' /\ QueueDecides' /\ RestInSync'
      BY <2>1, <2>3, HeadSentKeepsSync DEF Subscribed
    <3>2. QED
      BY <2>1, <2>2, <2>3, <3>1 DEF SenderFirst, UnsetIsUnserved, Sent, WsIsOpen
  <2>4. CASE sock # "open" /\ Skipped(Tail(ws_lock)) /\ runner' = "receive"
    <3>1. LockTyped' /\ QueueDecides' /\ RestInSync'
      BY <2>1, <2>4, HeadSkippedKeepsSync DEF WsIsOpen, Skipped
    <3>2. QED
      BY <2>1, <2>4, <3>1 DEF SenderFirst, UnsetIsUnserved, Skipped, WsIsOpen
  <2>5. CASE /\ sock = "open" /\ Suspended(Runner, FirstFrame, Tail(ws_lock))
             /\ runner' = "sub_send"
    <3>1. ws_lock' = ws_lock /\ wire' = wire /\ in_send' = TRUE
      BY <2>1, <2>5, HeadSuspended DEF Suspended
    <3>2. QED
      BY <2>1, <2>2, <2>5, <3>1 DEF LockTyped, QueueDecides, RestInSync, LastSays,
         Mentions, SenderFirst, UnsetIsUnserved, WsIsOpen
  <2>6. QED
    BY <1>3, <2>3, <2>4, <2>5 DEF SubscribeAllLocked, SubscribeAllSent, RunnerSend
<1>4. CASE ConnectFailed \/ ReceiveEnds
  <2>1. /\ EnterFinally(ws_lock, exiting) /\ UNCHANGED <<topics, call, in_send>>
        /\ runner \in {"connecting", "receive"}
    BY <1>4 DEF ConnectFailed, ReceiveEnds, callVars, Running
  <2>2. CASE ws_lock = <<>> /\ ClearWs(<<>>, exiting)
    <3>1. /\ ws_lock' = ws_lock /\ wire' = {} /\ ws' = "none" /\ ~in_send
          /\ runner' \in {"closing", "backoff", "done"}
      BY <2>2 DEF ClearWs, AfterFinally, SenderFirst
    <3>2. QED
      BY <2>1, <2>2, <3>1 DEF LockTyped, QueueDecides, RestInSync, LastSays,
         Mentions, SenderFirst, UnsetIsUnserved, WsIsOpen
  <2>3. CASE /\ ws_lock # <<>> /\ ws_lock' = Append(ws_lock, Entry(Runner, NoFrame))
             /\ runner' = "clear_wait" /\ UNCHANGED <<ws, sock, wire>>
    <3>1. /\ LockTyped' /\ QueueDecides' /\ RestInSync'
          /\ ws_lock' # <<>> /\ Head(ws_lock') = Head(ws_lock)
      BY <2>1, <2>3, WaitingForWsKeepsSync DEF Subscribed
    <3>2. QED
      BY <2>1, <2>3, <3>1 DEF SenderFirst, UnsetIsUnserved, WsIsOpen
  <2>4. QED
    BY <2>1, <2>2, <2>3 DEF EnterFinally
<1>5. CASE ReceiveFatal \/ RunnerCancelled
  BY <1>5 DEF ReceiveFatal, RunnerCancelled
<1>6. CASE ClearLocked
  <2>1. /\ ws_lock # <<>> /\ ~in_send /\ ws_lock' = Tail(ws_lock) /\ wire' = {}
        /\ ws' = "none" /\ UNCHANGED <<topics, call, in_send>>
        /\ runner = "clear_wait" /\ runner' \in {"closing", "backoff", "done"}
    BY <1>6 DEF ClearLocked, ClearWs, AfterFinally, Granted, Running, callVars
  <2>2. LockTyped' /\ QueueDecides' /\ RestInSync'
    BY <2>1, HeadSkippedKeepsSync DEF Subscribed
  <2>3. QED
    BY <2>1, <2>2 DEF SenderFirst, UnsetIsUnserved, WsIsOpen
<1>7. CASE SocketClosed \/ BackoffOver
  BY <1>7 DEF SocketClosed, BackoffOver, AfterFinally, Running, callVars, LockTyped,
     QueueDecides, RestInSync, LastSays, Mentions, SenderFirst, UnsetIsUnserved, WsIsOpen
<1>8. QED
  BY <1>1, <1>2, <1>3, <1>4, <1>5, <1>6, <1>7 DEF RunnerStep

\* A stop and a lost connection touch neither demand nor queue.
LEMMA OthersKeepQueueInv ==
  ASSUME SocketInv, UnwindingEnds, QueueInv, ~exiting,
         Stop \/ StopStep \/ ConnectionLost \/ UNCHANGED clientVars
  PROVE  QueueInv'
<1> USE DEF QueueInv, LockTyped, SenderFirst, UnsetIsUnserved, QueueDecides, RestInSync,
            LastSays, Mentions, WsIsOpen
<1>1. CASE Stop
  BY <1>1 DEF Stop, callVars
<1>2. CASE StopStep
  BY <1>2 DEF StopStep, StopJoined, StopLocked, StopClosed, UnwindingEnds, SocketInv,
              StopFollowsRunner
<1>3. CASE ConnectionLost
  BY <1>3 DEF ConnectionLost, callVars
<1>4. CASE UNCHANGED clientVars
  BY <1>4 DEF clientVars
<1>5. QED
  BY <1>1, <1>2, <1>3, <1>4

-----------------------------------------------------------------------------
\* In every reachable state the frames still to be sent, in their order, make
\* up the difference between what the exchange serves and what the hub wants.
THEOREM SyncInvariant ==
  ASSUME Faulty = {}
  PROVE  ClientSpec => []SyncInv
<1>1. ClientInit => SyncInv
  BY DEF ClientInit, SyncInv, UnwindingEnds, QueueInv, LockTyped, SenderFirst,
         UnsetIsUnserved, QueueDecides, RestInSync, LastSays, Mentions, WsIsOpen
<1>2. SocketInv /\ SyncInv /\ [ClientNext]_clientVars => SyncInv'
  <2> SUFFICES ASSUME SocketInv, SyncInv, [ClientNext]_clientVars
               PROVE  SyncInv'
    OBVIOUS
  <2>1. UnwindingEnds'
    BY UnwindingEndsKept DEF SyncInv
  <2>2. ASSUME ~exiting' PROVE QueueInv'
    <3>1. ~exiting
      BY <2>2 DEF ClientNext, SubscribeTopic, UnsubscribeTopic, SendJson, CallerStep,
         CallerLocked, CallerSent, RunnerStep, Connected, ConnectFailed, WsLocked,
         SubscribeAllLocked, SubscribeAllSent, ReceiveEnds, ReceiveFatal, ClearLocked,
         SocketClosed, BackoffOver, RunnerCancelled, Stop, StopStep, StopJoined,
         StopLocked, StopClosed, ConnectionLost, clientVars
    <3>2. QueueInv /\ UnwindingEnds
      BY <3>1 DEF SyncInv
    <3>3. ASSUME NEW k \in Callers, NEW t \in Topics, SubscribeTopic(k, t)
          PROVE  QueueInv'
      BY <3>2, <3>3, CallKeepsQueueInv, ClientAssumption DEF SubscribeTopic
    <3>4. ASSUME NEW k \in Callers, NEW t \in Topics, UnsubscribeTopic(k, t)
          PROVE  QueueInv'
      BY <3>2, <3>4, CallKeepsQueueInv, ClientAssumption DEF UnsubscribeTopic
    <3>5. ASSUME NEW k \in Callers, CallerStep(k) PROVE QueueInv'
      BY <3>2, <3>5, CallerKeepsQueueInv, ClientAssumption
    <3>6. CASE RunnerStep
      BY <2>2, <3>1, <3>2, <3>6, RunnerKeepsQueueInv, ClientAssumption
    <3>7. CASE Stop \/ StopStep \/ ConnectionLost \/ UNCHANGED clientVars
      BY <3>1, <3>2, <3>7, OthersKeepQueueInv
    <3>8. QED
      BY <3>3, <3>4, <3>5, <3>6, <3>7 DEF ClientNext
  <2>3. QED
    BY <2>1, <2>2 DEF SyncInv
<1>3. QED
  BY <1>1, <1>2, SocketInvariant, PTL DEF ClientSpec

\* While the reader has an open socket, what the last queued frame says of a
\* topic, or the exchange if none does, is what the hub wants.
THEOREM QueuedFramesAlwaysLeadToDemand ==
  ASSUME Faulty = {}
  PROVE  ClientSpec => []QueuedFramesLeadToDemand
<1>1. SyncInv => QueuedFramesLeadToDemand
  <2> SUFFICES ASSUME SyncInv, runner \in {"sub_wait", "sub_send", "receive"}, WsIsOpen,
                      NEW t \in Topics
               PROVE  WillBeServed(t) <=> t \in topics
    BY DEF QueuedFramesLeadToDemand
  <2>1. QueueInv /\ Pending(t) = Mentions(ws_lock, t)
    BY DEF SyncInv, UnwindingEnds, Pending, Mentions
  <2>2. CASE Pending(t) = {}
    BY <2>1, <2>2 DEF QueueInv, RestInSync, WillBeServed
  <2>3. CASE Pending(t) # {}
    <3>1. PICK i \in Pending(t) : /\ \A j \in Pending(t) : j <= i
                                  /\ (ws_lock[i].frame.op = "subscribe") <=> t \in topics
      BY <2>1, <2>3 DEF QueueInv, QueueDecides, LastSays
    <3>2. \A j \in Pending(t) : j \in Nat
      BY <2>1 DEF QueueInv, LockTyped, Mentions
    <3>3. \A j \in Pending(t) : (\A l \in Pending(t) : l <= j) => j = i
      BY <3>1, <3>2
    <3>4. QED
      BY <2>3, <3>1, <3>3 DEF WillBeServed
  <2>4. QED
    BY <2>2, <2>3
<1>2. QED
  BY SyncInvariant, <1>1, PTL

\* Whenever the reader reads from an open socket and nobody has or wants the
\* send lock, the exchange serves exactly what the hub wants.
THEOREM WireAlwaysInSync ==
  ASSUME Faulty = {}
  PROVE  ClientSpec => []WireInSync
<1>1. SyncInv => WireInSync
  <2> SUFFICES ASSUME SyncInv, runner = "receive", WsIsOpen, ws_lock = <<>>
               PROVE  wire = topics
    BY DEF WireInSync
  <2>1. QueueInv /\ \A t : Mentions(ws_lock, t) = {}
    BY DEF SyncInv, UnwindingEnds, Mentions
  <2>2. QED
    BY <2>1 DEF QueueInv, RestInSync, LockTyped
<1>2. QED
  BY SyncInvariant, <1>1, PTL
=============================================================================
