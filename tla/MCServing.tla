----------------------------- MODULE MCServing ------------------------------
(***************************************************************************)
(* What the broker promises the calls that are open at it: the recipient's *)
(* wait for a delivery, the sender's wait for an outcome, and the sends    *)
(* and subscriptions of the A2A front end.  A behaviour exercises one of   *)
(* the three compositions; the variables of the others do not change.      *)
(***************************************************************************)
EXTENDS Integers, Sequences

CONSTANTS Settings, a1, p1, w1, s1, s2, u1, NoReply, None

VARIABLES
    setting,
    now, up, ledger, watermark, orphans, doubt, epoch, sequence, regs, inbox, byAgent, tasks,
    byDelivery, active, outbound, deadlines, grants, issued, acks, outcomes,
    wait, waiting, permit, posted,
    call, waiters, channel, unsent, told,
    task, lives, gates, made, send, pending, exec, stream, sub, failures

brokerVars == <<now, up, ledger, watermark, orphans, doubt, epoch, sequence, regs, inbox,
                byAgent, tasks, byDelivery, active, outbound, deadlines, grants, issued, acks,
                outcomes>>
inboxVars == <<wait, waiting, permit, posted>>
replyVars == <<call, waiters, channel, unsent, told>>
sendVars == <<task, lives, gates, made, send, pending, exec, stream, sub, failures>>
vars == <<setting, brokerVars, inboxVars, replyVars, sendVars>>

\* An agent that sends to itself, so that every registration is one a wait may use.
ToItself == {[from |-> a1, to |-> a1, body |-> 1]}

Inbox == INSTANCE InboxWait WITH
    Agents <- {a1}, Messages <- ToItself, TaskIds <- {1}, Replies <- {}, Waits <- {w1},
    DeliveryLease <- 1, DeliveryTtl <- 2, TerminalRetention <- 1, RegistrationTtl <- 2,
    MaxRetainedTasks <- 1, MaxOutbound <- 1, ClockBack <- 0, MaxTime <- 1, MaxEpoch <- 2,
    MaxSequence <- 2, MaxDeliveries <- 2, MaxOrphans <- 0
Outcome == INSTANCE ReplyWait WITH
    Agents <- {a1}, Messages <- ToItself, TaskIds <- {1}, Replies <- {p1}, Waits <- {w1},
    DeliveryLease <- 1, DeliveryTtl <- 1, TerminalRetention <- 3, RegistrationTtl <- 3,
    MaxRetainedTasks <- 1, MaxOutbound <- 1, ClockBack <- 0, MaxTime <- 1, MaxEpoch <- 1,
    MaxSequence <- 1, MaxDeliveries <- 1, MaxOrphans <- 1
Sends == INSTANCE SendWorkflow WITH
    Sends <- {s1, s2}, Subscribers <- {u1}, Streaming <- {s2}, Immediate <- {}, Other <- {},
    MaxLives <- 2, MaxFailures <- 1, Absent <- None

ASSUME ServingAssumption == Sends!WorkflowConstants

-----------------------------------------------------------------------------
Init ==
    /\ setting \in Settings
    /\ Inbox!InboxInit /\ Outcome!ReplyInit /\ Sends!SendInit

Next ==
    \/ setting = "inbox" /\ Inbox!InboxNext /\ UNCHANGED <<setting, replyVars, sendVars>>
    \/ setting = "outcome" /\ Outcome!ReplyNext /\ UNCHANGED <<setting, inboxVars, sendVars>>
    \/ setting = "sends" /\ Sends!SendNext
       /\ UNCHANGED <<setting, brokerVars, inboxVars, replyVars>>

Spec == Init /\ [][Next]_vars

-----------------------------------------------------------------------------
\* A recipient that waits gets a task that can be leased from its inbox.
WaitServed == setting = "inbox" /\ Inbox!InboxFairness => Inbox!WaitServed

\* A sender's wait ends at the latest when the delivery deadline passes.
WaitEnds == setting = "outcome" /\ Outcome!ReplyFairness => Outcome!WaitEnds

\* A send ends by the end of its task, whoever holds its gate meanwhile.
SendEnds == setting = "sends" /\ Sends!SendFairness => Sends!SendEnds

=============================================================================
