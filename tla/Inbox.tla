------------------------------- MODULE Inbox -------------------------------
(***************************************************************************)
(* What the inbound Telegram channel promises, without saying how: the     *)
(* operator's messages are numbered in the order they were sent, an agent  *)
(* turn is run for a message before it is answered, a message is first     *)
(* answered only after every earlier one has been, and Telegram is told to *)
(* forget a message only after it has been answered.  Nothing limits how   *)
(* often a message is worked on or answered (at least once, in order).     *)
(***************************************************************************)
EXTENDS Naturals

CONSTANT N                     \* the operator sends at most N messages

VARIABLES
  sent,                        \* how many messages the operator has sent
  worked,                      \* messages a turn has been run for
  answered,                    \* messages with at least one delivered answer
  forgotten                    \* messages 1 .. forgotten are gone from Telegram

inboxVars == <<sent, worked, answered, forgotten>>

Start ==
  /\ sent = 0
  /\ worked = {}
  /\ answered = {}
  /\ forgotten = 0

Arrive ==
  /\ sent < N
  /\ sent' = sent + 1
  /\ UNCHANGED <<worked, answered, forgotten>>

Work(u) ==
  /\ u \in 1..sent
  /\ \A v \in 1..(u - 1) : v \in answered
  /\ worked' = worked \cup {u}
  /\ UNCHANGED <<sent, answered, forgotten>>

Answer(u) ==
  /\ u \in worked
  /\ \A v \in 1..(u - 1) : v \in answered
  /\ answered' = answered \cup {u}
  /\ UNCHANGED <<sent, worked, forgotten>>

Forget(k) ==
  /\ k >= forgotten
  /\ \A v \in 1..k : v \in answered
  /\ forgotten' = k
  /\ UNCHANGED <<sent, worked, answered>>

Step ==
  \/ Arrive
  \/ \E u \in 1..N : Work(u) \/ Answer(u)
  \/ \E k \in 0..N : Forget(k)

Promise == Start /\ [][Step]_inboxVars
=============================================================================
