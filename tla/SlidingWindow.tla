---------------------------- MODULE SlidingWindow ----------------------------
(***************************************************************************)
(* What the broker promises one connection: a stream that is read in the   *)
(* order it was offered and may skip messages, but only from the old end,  *)
(* and only when Size newer ones are waiting.                              *)
(*                                                                         *)
(* offered[c] is everything published to c since its stream opened;        *)
(* passed[c] counts the oldest messages of it that are no longer           *)
(* available, because they were read or overtaken.                         *)
(***************************************************************************)
EXTENDS Integers, Sequences

CONSTANTS Consumers, Messages, Size

VARIABLES
  open,       \* connections that have a stream
  offered,    \* consumer -> messages offered to it, in order
  received,   \* consumer -> messages it has read, in order
  passed      \* consumer -> how many of offered[c] lie behind the window

windowVars == <<open, offered, received, passed>>

WindowInit ==
  /\ open = {}
  /\ offered = [c \in Consumers |-> <<>>]
  /\ received = [c \in Consumers |-> <<>>]
  /\ passed = [c \in Consumers |-> 0]

Open(c) ==
  /\ c \notin open
  /\ open' = open \cup {c}
  /\ UNCHANGED <<offered, received, passed>>

\* One message reaches a set of streams; each window moves on by itself.
Offer(S, m) ==
  /\ S \subseteq open
  /\ offered' = [c \in Consumers |->
                   IF c \in S THEN Append(offered[c], m) ELSE offered[c]]
  /\ passed' = [c \in Consumers |->
                  IF c \in S /\ Len(offered[c]) - passed[c] = Size
                  THEN passed[c] + 1 ELSE passed[c]]
  /\ UNCHANGED <<open, received>>

Take(c) ==
  /\ c \in open
  /\ passed[c] < Len(offered[c])
  /\ received' = [received EXCEPT ![c] = Append(@, offered[c][passed[c] + 1])]
  /\ passed' = [passed EXCEPT ![c] = @ + 1]
  /\ UNCHANGED <<open, offered>>

Close(c) ==
  /\ c \in open
  /\ open' = open \ {c}
  /\ offered' = [offered EXCEPT ![c] = <<>>]
  /\ received' = [received EXCEPT ![c] = <<>>]
  /\ passed' = [passed EXCEPT ![c] = 0]

WindowNext ==
  \/ \E c \in Consumers : Open(c) \/ Take(c) \/ Close(c)
  \/ \E S \in SUBSET Consumers, m \in Messages : Offer(S, m)

WindowSpec == WindowInit /\ [][WindowNext]_windowVars
=============================================================================
