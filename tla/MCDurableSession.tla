------------------------- MODULE MCDurableSession -------------------------
(***************************************************************************)
(* The session for TLC: two topics, because a subscription to one rewrites *)
(* the entry of the other; a clock of four, for one or two subscriptions   *)
(* and two or three messages; two connections, so that one is resumed.     *)
(***************************************************************************)
EXTENDS DurableSession

CONSTANTS t1, t2

TwoTopics == {t1, t2}
=============================================================================
