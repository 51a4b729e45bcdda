--------------------------- MODULE TaskLifecycle ---------------------------
(***************************************************************************)
(* What the broker promises about each task it has accepted, seen from the *)
(* durable record alone: a task is offered under one delivery id at a time,*)
(* at most one of those deliveries is acknowledged, after that it is never *)
(* offered again, it ends once, and its end is what everybody reads until  *)
(* it is forgotten.  Several tasks may move in one step, because one       *)
(* transaction may write several rows.                                     *)
(***************************************************************************)
EXTENDS Naturals

CONSTANTS TaskIds, Deliveries, NoDelivery, Offers, Replies, NoReply

VARIABLE task   \* task id -> [st, dlv, offers, reply]

Ended == {"Replied", "Failed", "Rejected", "Canceled", "Expired"}
Status == [st : {"Unknown", "Queued", "Leased", "Acknowledged"} \cup Ended,
           dlv : Deliveries \cup {NoDelivery}, offers : Offers,
           reply : Replies \cup {NoReply}]

Unknown == [st |-> "Unknown", dlv |-> NoDelivery, offers |-> 0,
            reply |-> NoReply]

Submit(old, new) ==
    old = Unknown /\ new = [Unknown EXCEPT !.st = "Queued"]

\* A first delivery, or another one once the lease of the last has lapsed.
Offer(old, new) ==
    /\ old.st \in {"Queued", "Leased"}
    /\ new.dlv \notin {old.dlv, NoDelivery}
    /\ new = [old EXCEPT !.st = "Leased", !.dlv = new.dlv,
                         !.offers = @ + 1]

Lapse(old, new) ==
    /\ old.st = "Leased"
    /\ new = [old EXCEPT !.st = "Queued", !.dlv = NoDelivery]

Acknowledge(old, new) ==
    /\ old.st = "Leased"
    /\ new = [old EXCEPT !.st = "Acknowledged"]

\* Any open task may end: a recipient may answer a task it never received.
End(old, new) ==
    /\ old.st \in {"Queued", "Leased", "Acknowledged"}
    /\ new.st \in Ended
    /\ (new.reply = NoReply) <=> new.st \in {"Canceled", "Expired"}
    /\ new = [Unknown EXCEPT !.st = new.st, !.reply = new.reply]

Forget(old, new) == old.st \in Ended /\ new = Unknown

Move(old, new) ==
    \/ Submit(old, new) \/ Offer(old, new) \/ Lapse(old, new)
    \/ Acknowledge(old, new) \/ End(old, new) \/ Forget(old, new)

Init == task = [t \in TaskIds |-> Unknown]

Next ==
    /\ task' \in [TaskIds -> Status]
    /\ \A t \in TaskIds : task'[t] = task[t] \/ Move(task[t], task'[t])

Spec == Init /\ [][Next]_task
=============================================================================
