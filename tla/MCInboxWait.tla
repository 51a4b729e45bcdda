---------------------------- MODULE MCInboxWait -----------------------------
(* Instances of the inbox waits for TLC: an agent that sends to itself, so *)
(* that every registration in the instance is one a wait may use.          *)
EXTENDS InboxWait, TLC

CONSTANTS a1, p1, w1, w2

OneAgent == {a1}
ToItself == {[from |-> a1, to |-> a1, body |-> 1]}
OneTask == {1}

WaitSymmetry == Permutations({w1, w2})
=============================================================================
