------------------------------ MODULE MCBroker ------------------------------
(* Instances of the broker for TLC. *)
EXTENDS BrokerRefinement

CONSTANTS a1, a2, p1

OneAgent == {a1}
Pair == {a1, a2}
ToItself == {[from |-> a1, to |-> a1, body |-> 1]}
OneWay == {[from |-> a1, to |-> a2, body |-> 1]}

\* Two senders, so that an inbox holds two tasks although each may have one open.
ToOne == OneWay \cup {[from |-> a2, to |-> a2, body |-> 1]}

OneTask == {1}
ThreeTasks == {1, 2, 3}
OneReply == {p1}
=============================================================================
