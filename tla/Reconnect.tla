------------------------------ MODULE Reconnect ------------------------------
(***************************************************************************)
(* How long the runner of app/ingestion/coinbase_client.py waits between   *)
(* two connections: the retry counter and the delay of _run_loop, added to *)
(* the client of CoinbaseClient, whose steps they follow.                  *)
(*                                                                         *)
(* Times are in a unit of your choice, delays in tenths of it, so that the *)
(* jitter, which random.uniform draws between 0.8 and 1.2, is an integer.  *)
(***************************************************************************)
EXTENDS CoinbaseClient

CONSTANTS
  Base,         \* settings.reconnect_delay_seconds
  MaxBackoff,   \* _MAX_BACKOFF_SECONDS
  Jitters       \* factors the jitter may be, in tenths

ASSUME ReconnectAssumption ==
  /\ Base \in Nat \ {0} /\ MaxBackoff \in Nat \ {0}
  /\ Jitters \subseteq 8..12

VARIABLES
  attempt,      \* retries since the last connect; above MaxExponent all are alike
  last_delay    \* the delay drawn last

backoffVars == <<attempt, last_delay>>
reconnectVars == <<clientVars, backoffVars>>

MaxExponent == 8
Power == <<2, 4, 8, 16, 32, 64, 128, 256>>

Smaller(a, b) == IF a <= b THEN a ELSE b

\* Mutation: the base is multiplied by the retries.
RawDelayLinear(n) == Smaller(Base * 2 * n, MaxBackoff)

RawDelay(n) == Smaller(Base * Power[n], MaxBackoff)

\* Mutation: the jitter is applied to the capped delay, and that is that.
DelayOverCap(n, jitter) == RawDelay(n) * jitter

Delay(n, jitter) == Smaller(RawDelay(n) * jitter, 10 * MaxBackoff)

-----------------------------------------------------------------------------
\* Mutation: the counter survives a connection.
RetriesNotReset == ws # "set" /\ ws' = "set" /\ UNCHANGED backoffVars

\* _set_ws(ws) has returned, in the step that took the lock for it.
RetriesReset ==
  /\ ws # "set" /\ ws' = "set"
  /\ attempt' = 0 /\ UNCHANGED last_delay

\* The loop goes on to its delay: the counter is raised before it is used.
DelayDrawn ==
  /\ runner # "backoff" /\ runner' = "backoff"
  /\ attempt' = Smaller(attempt + 1, MaxExponent)
  /\ \E jitter \in Jitters : last_delay' = Delay(attempt', jitter)

Otherwise ==
  /\ ~(ws # "set" /\ ws' = "set") /\ ~(runner # "backoff" /\ runner' = "backoff")
  /\ UNCHANGED backoffVars

ReconnectInit == ClientInit /\ attempt = 0 /\ last_delay = 0

ReconnectNext == ClientNext /\ (RetriesReset \/ DelayDrawn \/ Otherwise)

ReconnectSpec == ReconnectInit /\ [][ReconnectNext]_reconnectVars

FairReconnectSpec == ReconnectSpec /\ ClientFairness

-----------------------------------------------------------------------------
\* The runner begins to wait.
Waits == runner # "backoff" /\ runner' = "backoff"

\* "Capped at 60 seconds between tries" (docs/SYSTEM_ARCHITECTURE.md 6.2), also
\* after the jitter; and never a hot loop: at least four fifths of the doubled
\* base, or of the cap.
DelayWithinBounds ==
  runner = "backoff" =>
    /\ last_delay <= 10 * MaxBackoff
    /\ last_delay >= 8 * Smaller(2 * Base, MaxBackoff)

\* "Doubling with each attempt": whatever the jitter, each delay of a series of
\* failed attempts is longer than the one before, until doubling it would
\* exceed the cap or the exponent is at its bound.
RetriesSlowDown ==
  [][Waits /\ attempt \in 1..(MaxExponent - 1) /\ 2 * RawDelay(attempt) <= MaxBackoff
       => last_delay' > last_delay]_reconnectVars

\* A connection that came up forgives the failures before it: when it is lost,
\* the first delay is the shortest again, however long the series was.
ConnectionForgives ==
  [][Waits /\ ws = "set" => last_delay' <= 24 * Base]_reconnectVars
=============================================================================
