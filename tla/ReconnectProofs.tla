-------------------------- MODULE ReconnectProofs --------------------------
(***************************************************************************)
(* The delays of Reconnect, for every base, cap and jitter, and for any    *)
(* number of retries and lost connections; and the client under them is    *)
(* that of CoinbaseClient, with all that is proved of it.                  *)
(***************************************************************************)
EXTENDS Reconnect, CoinbaseClientProofs

AttemptsBounded == attempt \in 0..MaxExponent

\* The delay drawn last is that of the retry it was drawn for.
DelayOfAttempt ==
  attempt # 0 => \E jitter \in Jitters : last_delay = Delay(attempt, jitter)

\* The retry counter is zero while there is a connection, and a runner that
\* closes its socket has cleared _ws before.
NoRetriesConnected ==
  /\ ws = "set" => attempt = 0
  /\ runner = "closing" => ws = "none"

DelayInv ==
  AttemptsBounded /\ DelayOfAttempt /\ NoRetriesConnected /\ DelayWithinBounds

\* The exponential before the jitter: at most the cap, at least the doubled base
\* unless the cap is below that.
LEMMA RawDelayBounds ==
  ASSUME NEW n \in 1..MaxExponent
  PROVE  /\ RawDelay(n) \in Nat
         /\ RawDelay(n) <= MaxBackoff
         /\ RawDelay(n) >= Smaller(2 * Base, MaxBackoff)
<1>1. Base \in Nat \ {0} /\ MaxBackoff \in Nat \ {0}
  BY ReconnectAssumption
<1>2. Power[n] \in {2, 4, 8, 16, 32, 64, 128, 256}
  BY DEF Power, MaxExponent
<1>3. Base * Power[n] \in Nat /\ Base * Power[n] >= 2 * Base
  BY <1>1, <1>2
<1>4. QED
  BY <1>1, <1>3 DEF RawDelay, Smaller

\* The jitter may shorten a delay by a fifth, and lengthens none over the cap.
LEMMA DelayBounds ==
  ASSUME NEW n \in 1..MaxExponent, NEW jitter \in Jitters
  PROVE  /\ Delay(n, jitter) <= 10 * MaxBackoff
         /\ Delay(n, jitter) >= 8 * Smaller(2 * Base, MaxBackoff)
<1>1. Base \in Nat /\ MaxBackoff \in Nat /\ jitter \in {8, 9, 10, 11, 12}
  BY ReconnectAssumption
<1>2. /\ RawDelay(n) \in Nat
      /\ RawDelay(n) >= Smaller(2 * Base, MaxBackoff)
  BY RawDelayBounds
<1>3. Smaller(2 * Base, MaxBackoff) \in Nat /\ Smaller(2 * Base, MaxBackoff) <= MaxBackoff
  BY <1>1 DEF Smaller
<1>4. RawDelay(n) * jitter \in Nat /\ RawDelay(n) * jitter >= 8 * RawDelay(n)
  BY <1>1, <1>2
<1>5. Delay(n, jitter) = IF RawDelay(n) * jitter <= 10 * MaxBackoff
                         THEN RawDelay(n) * jitter ELSE 10 * MaxBackoff
  BY DEF Delay, Smaller
<1>6. QED
  BY <1>1, <1>2, <1>3, <1>4, <1>5

\* Whatever the jitters, the delay after a retry is longer than the one before it
\* as long as the doubled exponential stays within the cap.
LEMMA DelaysGrow ==
  ASSUME NEW n \in 1..(MaxExponent - 1), NEW j \in Jitters, NEW k \in Jitters,
         2 * RawDelay(n) <= MaxBackoff
  PROVE  Delay(n + 1, k) > Delay(n, j)
<1>1. Base \in Nat \ {0} /\ MaxBackoff \in Nat \ {0}
  BY ReconnectAssumption
<1>2. j \in {8, 9, 10, 11, 12} /\ k \in {8, 9, 10, 11, 12}
  BY ReconnectAssumption
<1>3. Power[n] \in {2, 4, 8, 16, 32, 64, 128} /\ Power[n + 1] = 2 * Power[n]
  BY DEF Power, MaxExponent
<1>4. PICK r \in Nat \ {0} : r = Base * Power[n]
  BY <1>1, <1>3
<1>5. Base * Power[n + 1] = 2 * r
  BY <1>1, <1>3, <1>4
<1>6. RawDelay(n) = r /\ RawDelay(n + 1) = 2 * r /\ 2 * r <= MaxBackoff
  BY <1>1, <1>4, <1>5 DEF RawDelay, Smaller
<1>7. /\ r * j \in Nat /\ r * j <= 12 * r
      /\ 2 * r * k \in Nat /\ 2 * r * k >= 16 * r
  BY <1>2, <1>4
<1>8. Delay(n, j) \in Nat /\ Delay(n, j) <= 12 * r
  BY <1>1, <1>6, <1>7 DEF Delay, Smaller
<1>9. Delay(n + 1, k) \in Nat /\ Delay(n + 1, k) >= 16 * r
  BY <1>1, <1>6, <1>7 DEF Delay, Smaller
<1>10. QED
  BY <1>4, <1>8, <1>9

\* A step that leads a new socket into _ws is not one that begins a delay.
LEMMA ConnectedIsNoBackoff ==
  ASSUME ClientNext, ws # "set", ws' = "set"
  PROVE  runner' # "backoff"
<1>1. CASE RunnerStep /\ ~RunnerCancelled
  <2>1. CASE Connected
    BY <2>1, SetWsEffect DEF Connected
  <2>2. CASE WsLocked
    BY <2>2, SetWsEffect DEF WsLocked
  <2>3. CASE ConnectFailed \/ ReceiveEnds \/ ReceiveFatal
    BY <2>3, FinallyEffect DEF ConnectFailed, ReceiveEnds, ReceiveFatal
  <2>4. CASE SubscribeAllLocked \/ SubscribeAllSent \/ ClearLocked \/ SocketClosed \/ BackoffOver
    BY <2>4 DEF SubscribeAllLocked, SubscribeAllSent, ClearLocked, ClearWs,
                SocketClosed, BackoffOver
  <2>5. QED
    BY <1>1, <2>1, <2>2, <2>3, <2>4 DEF RunnerStep
<1>2. CASE RunnerCancelled
  BY <1>2 DEF RunnerCancelled, EnterFinally, ClearWs
<1>3. CASE Stop \/ StopStep
  BY <1>3 DEF Stop, StopStep, StopJoined, StopLocked, StopClosed, CloseWs
<1>4. CASE ConnectionLost
  BY <1>4 DEF ConnectionLost
<1>5. ASSUME NEW k \in Callers,
             \/ \E t \in Topics : SubscribeTopic(k, t) \/ UnsubscribeTopic(k, t)
             \/ CallerStep(k)
      PROVE  FALSE
  BY <1>5, CallsKeepSockets DEF socketVars
<1>6. QED
  BY <1>1, <1>2, <1>3, <1>4, <1>5 DEF ClientNext

\* A step that begins a delay leaves _ws clear; so does one that closes.
LEMMA BackoffIsDisconnected ==
  ASSUME ClientNext, NoRetriesConnected,
         runner' \in {"backoff", "closing"}, runner' # runner
  PROVE  ws' = "none"
<1> USE DEF NoRetriesConnected
<1>1. CASE Connected \/ WsLocked
  BY <1>1, SetWsEffect DEF Connected, WsLocked
<1>2. CASE ConnectFailed \/ ReceiveEnds \/ ReceiveFatal
  BY <1>2, FinallyEffect DEF ConnectFailed, ReceiveEnds, ReceiveFatal
<1>3. CASE SubscribeAllLocked \/ SubscribeAllSent \/ ClearLocked \/ SocketClosed \/ BackoffOver
  BY <1>3 DEF SubscribeAllLocked, SubscribeAllSent, RunnerSend, ClearLocked, ClearWs,
              SocketClosed, BackoffOver, Running
<1>4. CASE RunnerCancelled
  BY <1>4 DEF RunnerCancelled, EnterFinally, ClearWs
<1>5. CASE Stop \/ StopStep
  BY <1>5 DEF Stop, StopStep, StopJoined, StopLocked, StopClosed
<1>6. CASE ConnectionLost
  BY <1>6 DEF ConnectionLost
<1>7. ASSUME NEW k \in Callers,
             \/ \E t \in Topics : SubscribeTopic(k, t) \/ UnsubscribeTopic(k, t)
             \/ CallerStep(k)
      PROVE  FALSE
  BY <1>7, CallsKeepSockets DEF socketVars
<1>8. QED
  BY <1>1, <1>2, <1>3, <1>4, <1>5, <1>6, <1>7 DEF ClientNext, RunnerStep

\* A runner that is closing its socket gets no other one into _ws.
LEMMA ClosingStaysClear ==
  ASSUME ClientNext, runner = "closing", ws = "none", runner' = "closing"
  PROVE  ws' = "none"
<1>1. CASE RunnerStep /\ ~RunnerCancelled
  BY <1>1 DEF RunnerStep, Running, Connected, ConnectFailed, WsLocked,
              SubscribeAllLocked, SubscribeAllSent, ReceiveEnds, ReceiveFatal,
              ClearLocked, SocketClosed, BackoffOver
<1>2. CASE RunnerCancelled
  BY <1>2 DEF RunnerCancelled
<1>3. CASE Stop \/ StopStep
  BY <1>3 DEF Stop, StopStep, StopJoined, StopLocked, StopClosed, CloseWs
<1>4. CASE ConnectionLost
  BY <1>4 DEF ConnectionLost
<1>5. ASSUME NEW k \in Callers,
             \/ \E t \in Topics : SubscribeTopic(k, t) \/ UnsubscribeTopic(k, t)
             \/ CallerStep(k)
      PROVE  ws' = "none"
  BY <1>5, CallsKeepSockets DEF socketVars
<1>6. QED
  BY <1>1, <1>2, <1>3, <1>4, <1>5 DEF ClientNext

\* Every delay the runner waits for is one drawn in the step that began it,
\* for the number of retries since the last connection.
THEOREM DelayInvariant == ReconnectSpec => []DelayInv
<1>1. ReconnectInit => DelayInv
  BY DEF ReconnectInit, ClientInit, DelayInv, AttemptsBounded, DelayOfAttempt,
         NoRetriesConnected, DelayWithinBounds, MaxExponent
<1>2. DelayInv /\ [ReconnectNext]_reconnectVars => DelayInv'
  <2> SUFFICES ASSUME DelayInv, [ReconnectNext]_reconnectVars
               PROVE  DelayInv'
    OBVIOUS
  <2> USE DEF DelayInv
  <2>1. CASE ClientNext /\ RetriesReset
    <3>1. runner' # "backoff" /\ attempt' = 0
      BY <2>1, ConnectedIsNoBackoff DEF RetriesReset
    <3>2. NoRetriesConnected'
      BY <2>1, <3>1, BackoffIsDisconnected, ClosingStaysClear DEF NoRetriesConnected, RetriesReset
    <3>3. QED
      BY <3>1, <3>2 DEF AttemptsBounded, DelayOfAttempt, DelayWithinBounds, MaxExponent
  <2>2. CASE ClientNext /\ DelayDrawn
    <3>1. attempt' \in 1..MaxExponent
      BY <2>2 DEF DelayDrawn, AttemptsBounded, MaxExponent, Smaller
    <3>2. PICK jitter \in Jitters : last_delay' = Delay(attempt', jitter)
      BY <2>2 DEF DelayDrawn
    <3>3. /\ last_delay' <= 10 * MaxBackoff
          /\ last_delay' >= 8 * Smaller(2 * Base, MaxBackoff)
      BY <3>1, <3>2, DelayBounds
    <3>4. AttemptsBounded' /\ DelayOfAttempt' /\ DelayWithinBounds'
      BY <3>1, <3>2, <3>3 DEF AttemptsBounded, DelayOfAttempt, DelayWithinBounds, MaxExponent
    <3>5. NoRetriesConnected'
      BY <2>2, BackoffIsDisconnected DEF NoRetriesConnected, DelayDrawn
    <3>6. QED
      BY <3>4, <3>5
  <2>3. CASE ClientNext /\ Otherwise
    <3>1. AttemptsBounded' /\ DelayOfAttempt' /\ DelayWithinBounds'
      BY <2>3 DEF Otherwise, backoffVars, AttemptsBounded, DelayOfAttempt, DelayWithinBounds
    <3>2. ws' = "set" => attempt' = 0
      BY <2>3 DEF Otherwise, backoffVars, NoRetriesConnected
    <3>3. runner' = "closing" => ws' = "none"
      BY <2>3, BackoffIsDisconnected, ClosingStaysClear DEF NoRetriesConnected
    <3>4. QED
      BY <3>1, <3>2, <3>3 DEF NoRetriesConnected
  <2>4. CASE UNCHANGED reconnectVars
    BY <2>4 DEF reconnectVars, clientVars, backoffVars, AttemptsBounded,
                DelayOfAttempt, NoRetriesConnected, DelayWithinBounds
  <2>5. QED
    BY <2>1, <2>2, <2>3, <2>4 DEF ReconnectNext
<1>3. QED
  BY <1>1, <1>2, PTL DEF ReconnectSpec

\* For every base, cap and jitter: no delay exceeds the cap, and none is so
\* short that the reconnect loop runs hot.
THEOREM DelayAlwaysWithinBounds == ReconnectSpec => []DelayWithinBounds
<1>1. DelayInv => DelayWithinBounds
  BY DEF DelayInv
<1>2. QED
  BY DelayInvariant, <1>1, PTL

\* A step that begins a delay draws it, for one retry more.
LEMMA WaitingDraws ==
  ASSUME DelayInv, [ReconnectNext]_reconnectVars, Waits
  PROVE  /\ attempt' = Smaller(attempt + 1, MaxExponent)
         /\ \E jitter \in Jitters : last_delay' = Delay(attempt', jitter)
<1>1. ClientNext /\ (RetriesReset \/ DelayDrawn \/ Otherwise)
  BY DEF ReconnectNext, reconnectVars, clientVars, Waits
<1>2. ~RetriesReset
  BY <1>1, ConnectedIsNoBackoff DEF RetriesReset, Waits
<1>3. ~Otherwise
  BY DEF Otherwise, Waits
<1>4. QED
  BY <1>1, <1>2, <1>3 DEF DelayDrawn

\* A series of failed attempts slows down, whatever the jitter draws, for every
\* base and cap.
THEOREM RetriesAlwaysSlowDown == ReconnectSpec => RetriesSlowDown
<1>1. DelayInv /\ [ReconnectNext]_reconnectVars =>
        [Waits /\ attempt \in 1..(MaxExponent - 1) /\ 2 * RawDelay(attempt) <= MaxBackoff
           => last_delay' > last_delay]_reconnectVars
  <2> SUFFICES ASSUME DelayInv, [ReconnectNext]_reconnectVars, Waits,
                      attempt \in 1..(MaxExponent - 1), 2 * RawDelay(attempt) <= MaxBackoff
               PROVE  last_delay' > last_delay
    OBVIOUS
  <2>1. attempt' = attempt + 1
    BY WaitingDraws DEF Smaller, MaxExponent
  <2>2. PICK k \in Jitters : last_delay' = Delay(attempt + 1, k)
    BY <2>1, WaitingDraws
  <2>3. PICK j \in Jitters : last_delay = Delay(attempt, j)
    BY DEF DelayInv, DelayOfAttempt
  <2>4. QED
    BY <2>2, <2>3, DelaysGrow
<1>2. QED
  BY <1>1, DelayInvariant, PTL DEF ReconnectSpec, RetriesSlowDown

\* A connection that came up is followed by the shortest delays again, however
\* many attempts it took.
THEOREM ConnectionAlwaysForgives == ReconnectSpec => ConnectionForgives
<1>1. DelayInv /\ [ReconnectNext]_reconnectVars =>
        [Waits /\ ws = "set" => last_delay' <= 24 * Base]_reconnectVars
  <2> SUFFICES ASSUME DelayInv, [ReconnectNext]_reconnectVars, Waits, ws = "set"
               PROVE  last_delay' <= 24 * Base
    OBVIOUS
  <2>1. attempt' = 1
    BY WaitingDraws DEF DelayInv, NoRetriesConnected, Smaller, MaxExponent
  <2>2. PICK jitter \in Jitters : last_delay' = Delay(1, jitter)
    BY <2>1, WaitingDraws
  <2>3. Base \in Nat /\ MaxBackoff \in Nat /\ jitter \in {8, 9, 10, 11, 12}
    BY ReconnectAssumption
  <2>4. RawDelay(1) \in Nat /\ RawDelay(1) <= 2 * Base
    BY <2>3 DEF RawDelay, Smaller, Power
  <2>5. RawDelay(1) * jitter \in Nat /\ RawDelay(1) * jitter <= 24 * Base
    BY <2>3, <2>4
  <2>6. QED
    BY <2>2, <2>3, <2>5 DEF Delay, Smaller
<1>2. QED
  BY <1>1, DelayInvariant, PTL DEF ReconnectSpec, ConnectionForgives

-----------------------------------------------------------------------------
\* Counting retries and drawing delays changes nothing of the client: every
\* behaviour is one of CoinbaseClient, so that the safety proved there holds.
THEOREM ReconnectImplementsClient == ReconnectSpec => ClientSpec
<1>1. ReconnectInit => ClientInit
  BY DEF ReconnectInit
<1>2. [ReconnectNext]_reconnectVars => [ClientNext]_clientVars
  BY DEF ReconnectNext, reconnectVars
<1>3. QED
  BY <1>1, <1>2, PTL DEF ReconnectSpec, ClientSpec
=============================================================================
