---------------------------- MODULE AtLeastOnce ----------------------------
(***************************************************************************)
(* What a durable session promises to its client, without saying how: a    *)
(* message of a subscribed topic waits for the client until the client has *)
(* acknowledged it, or has given the subscription up.  Nothing else takes  *)
(* a message away (a dropped connection, a crash and another subscription  *)
(* do not), and no message waits for ever.                                 *)
(***************************************************************************)
EXTENDS Naturals

CONSTANTS Topics, Times

VARIABLE waiting       \* messages owed to the client: <<topic, time>>

Messages == Topics \X Times

Init == waiting = {}

\* A message is published; or a subscription begins to hold, for what was
\* published by then.
Publish ==
    /\ waiting \subseteq waiting'
    /\ waiting' \subseteq Messages

Acknowledge(m) ==
    /\ m \in waiting
    /\ waiting' = waiting \ {m}

\* The client gives up a subscription and what was waiting for it.
Withdraw(t) == waiting' = {m \in waiting : m[1] # t}

Next ==
    \/ Publish
    \/ \E m \in Messages : Acknowledge(m)
    \/ \E t \in Topics : Withdraw(t)

\* A client that stays subscribed gets, sooner or later, every message.
Fairness == \A m \in Messages : WF_waiting(Acknowledge(m))

Spec == Init /\ [][Next]_waiting /\ Fairness
=============================================================================
