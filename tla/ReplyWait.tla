----------------------------- MODULE ReplyWait ------------------------------
(***************************************************************************)
(* The sender's wait for the outcome of a task (wait_for_reply_for_sender  *)
(* in broker.rs) composed with the broker: every step of Broker, with what *)
(* it does to reply_waiters, and the steps of the waits themselves.        *)
(*                                                                         *)
(* A wait registers a oneshot sender in its task's reply_waiters, looks at *)
(* the task again, and then sleeps until its channel holds a result or the *)
(* delivery deadline has come, when it runs the maintenance itself.  The   *)
(* operation that ends the task takes the waiters and sends to them after  *)
(* it has released the lock; maintenance and live reconciliation send      *)
(* under the lock.                                                         *)
(*                                                                         *)
(* A waiter whose receiver is gone stays in the vector until the next wait *)
(* prunes it, and sending to it does nothing; here it leaves at once.      *)
(***************************************************************************)
EXTENDS Broker

CONSTANT Waits                \* the waits in progress

VARIABLES
    call,     \* for each call: where it is, its task, its delivery deadline
    waiters,  \* task id -> the waits registered in reply_waiters
    channel,  \* the result in the oneshot channel of a wait
    unsent,   \* results taken from the table and still to be sent
    told      \* task id -> the outcomes returned by waits (history)

waitVars == <<call, waiters, channel, unsent, told>>
allVars == <<vars, waitVars>>

NoTask == -1
Idle == [pc |-> "idle", task |-> NoTask, due |-> 0]
Nothing == [st |-> "none", reply |-> NoReply]
NotFound == [st |-> "NotFound", reply |-> NoReply]

Through == ~doubt' /\ orphans' = orphans

\* reply_result_for_task: what a wait returns for a task that has ended.  The
\* payload of a failure or a rejection is not part of the error.
ResultOf(st, reply) ==
    [st |-> st, reply |-> IF st = "Replied" THEN reply ELSE NoReply]
TaskResult(task) == ResultOf(DurableTask(task).st, task.reply)

-----------------------------------------------------------------------------
(* The broker's steps and what they do to the waiters.                     *)

\* terminalize_task hands the waiters of t to its caller.
Taken(t) == waiters' = [waiters EXCEPT ![t] = {}]

Ends ==
    \E r \in DOMAIN regs, t \in TaskIds :
      \E st \in Answered \cup {"Canceled"}, p \in Replies \cup {NoReply} :
        /\ p = NoReply <=> st = "Canceled"
        /\ End(r, t, st, p)
        /\ IF Through /\ Open(tasks[t])
             THEN /\ Taken(t)
                  /\ unsent' = unsent \cup {<<w, ResultOf(st, p)>> : w \in waiters[t]}
             ELSE UNCHANGED <<waiters, unsent>>
        /\ UNCHANGED <<call, channel, told>>

Maintenance_Mutant ==              \* the waiters hear of it before the commit
    /\ Maintain
    /\ waiters' = [t \in TaskIds |-> IF t \in Due THEN {} ELSE waiters[t]]
    /\ channel' = [w \in Waits |->
                     IF \E t \in Due : w \in waiters[t]
                       THEN ResultOf("Expired", NoReply) ELSE channel[w]]

\* maintain_state: the waiters of the tasks it expires.
Maintenance ==
    /\ Maintain
    /\ IF Through
         THEN /\ waiters' = [t \in TaskIds |-> IF t \in Due THEN {} ELSE waiters[t]]
              /\ channel' = [w \in Waits |->
                               IF \E t \in Due : w \in waiters[t]
                                 THEN ResultOf("Expired", NoReply) ELSE channel[w]]
         ELSE UNCHANGED <<waiters, channel>>

\* reconcile_state_if_required: the retained waiters stay with a task that is
\* still open and learn the outcome of one that is not.
Retained_Mutant(t) == {}           \* the rebuilt records start without waiters
Retained(t) == IF t \in DOMAIN tasks' /\ Open(tasks'[t]) THEN waiters[t] ELSE {}
Reconciliation ==
    /\ Reconcile
    /\ IF Through
         THEN /\ waiters' = [t \in TaskIds |-> Retained(t)]
              /\ channel' =
                   [w \in Waits |->
                      IF \E t \in TaskIds : w \in waiters[t]
                        THEN LET t == CHOOSE u \in TaskIds : w \in waiters[u]
                             IN  IF t \notin DOMAIN tasks' THEN NotFound
                                 ELSE IF Open(tasks'[t]) THEN channel[w]
                                 ELSE TaskResult(tasks'[t])
                        ELSE channel[w]]
         ELSE UNCHANGED <<waiters, channel>>

Prepare == (Maintenance \/ Reconciliation) /\ UNCHANGED <<unsent, told>>

Quiet ==
    \/ \E a \in Agents : Register(a)
    \/ \E r \in DOMAIN regs :
         \/ Renew(r)
         \/ RemoveRegistration(r)
         \/ \E t \in TaskIds, m \in Messages : Enqueue(r, t, m)
         \/ PollDelivery(r)
         \/ \E d \in 1 .. issued : AckDelivery(r, d) \/ AckAgain(r, d)
    \/ OrphanLands
    \/ Recover

BrokerStep ==
    \/ Ends
    \/ Prepare /\ UNCHANGED call
    \/ Quiet /\ UNCHANGED waitVars

TimePasses == Tick /\ UNCHANGED waitVars

\* The loop over the waiters after drop(state).
Send(w, result) ==
    /\ <<w, result>> \in unsent
    /\ unsent' = unsent \ {<<w, result>>}
    /\ channel' = [channel EXCEPT ![w] = IF call[w] = Idle THEN @ ELSE result]
    /\ UNCHANGED <<vars, call, waiters, told>>

ProcessLost ==
    /\ Crash
    /\ call' = [w \in Waits |-> Idle]
    /\ waiters' = [t \in TaskIds |-> {}]
    /\ channel' = [w \in Waits |-> Nothing]
    /\ unsent' = {}
    /\ UNCHANGED told

-----------------------------------------------------------------------------
(* The waits.                                                              *)

\* The wait's future is gone: its receiver is closed.
Ended(w) ==
    /\ call' = [call EXCEPT ![w] = Idle]
    /\ waiters' = [t \in TaskIds |-> waiters[t] \ {w}]
    /\ channel' = [channel EXCEPT ![w] = Nothing]
    /\ unsent' = {u \in unsent : u[1] # w}

Return(w, t, result) ==
    /\ Ended(w)
    /\ told' = [told EXCEPT ![t] = @ \cup {result}]

\* The first lock: refuse, answer at once, or register.
StartWait(w, t) ==
    /\ Settled
    /\ call[w] = Idle
    /\ t \in DOMAIN tasks
    /\ IF Open(tasks[t])
         THEN /\ call' = [call EXCEPT ![w] = [pc |-> "check", task |-> t, due |-> 0]]
              /\ waiters' = [waiters EXCEPT ![t] = @ \cup {w}]
              /\ UNCHANGED <<channel, unsent, told>>
         ELSE Return(w, t, TaskResult(tasks[t]))
    /\ UNCHANGED vars

\* The lock at the head of the loop: no maintenance, only a look.
Check(w) ==
    LET t == call[w].task
    IN  /\ call[w].pc = "check"
        /\ \/ t \notin DOMAIN tasks /\ Return(w, t, NotFound)
           \/ t \in DOMAIN tasks /\ ~Open(tasks[t]) /\ Return(w, t, TaskResult(tasks[t]))
           \/ /\ t \in DOMAIN tasks /\ Open(tasks[t])
              /\ call' = [call EXCEPT ![w].pc = "sleep",
                                      ![w].due = tasks[t].created + DeliveryTtl]
              /\ UNCHANGED <<waiters, channel, unsent, told>>
        /\ UNCHANGED vars

Receive(w) ==
    /\ call[w].pc = "sleep"
    /\ channel[w] # Nothing
    /\ Return(w, call[w].task, channel[w])
    /\ UNCHANGED vars

Timer_Mutant(w) ==                 \* the deadline leads back to the look
    /\ call[w].pc = "sleep"
    /\ call[w].due <= now
    /\ call' = [call EXCEPT ![w].pc = "check"]
    /\ UNCHANGED <<vars, waiters, channel, unsent, told>>

Timer(w) ==
    /\ call[w].pc = "sleep"
    /\ call[w].due <= now
    /\ call' = [call EXCEPT ![w].pc = "maintain"]
    /\ UNCHANGED <<vars, waiters, channel, unsent, told>>

\* The maintenance of the sleep_until branch; its failure ends the wait.
MaintainTask(w) ==
    /\ call[w].pc = "maintain"
    /\ \/ /\ Maintain \/ Reconcile
          /\ ~Through
          /\ Ended(w) /\ UNCHANGED told
       \/ Prepare /\ Through /\ UNCHANGED call
       \/ /\ Settled
          /\ call' = [call EXCEPT ![w].pc = "check"]
          /\ UNCHANGED <<vars, waiters, channel, unsent, told>>

\* A client that disconnects, or maintenance that failed without writing.
Leave(w) ==
    /\ call[w] # Idle
    /\ Ended(w)
    /\ UNCHANGED <<vars, told>>

-----------------------------------------------------------------------------
ReplyInit ==
    /\ Init
    /\ call = [w \in Waits |-> Idle]
    /\ waiters = [t \in TaskIds |-> {}]
    /\ channel = [w \in Waits |-> Nothing]
    /\ unsent = {}
    /\ told = [t \in TaskIds |-> {}]

WaitStep(w) == Check(w) \/ Receive(w) \/ Timer(w) \/ MaintainTask(w)

ReplyNext ==
    \/ BrokerStep
    \/ TimePasses
    \/ ProcessLost
    \/ \E u \in unsent : Send(u[1], u[2])
    \/ \E w \in Waits :
         \/ \E t \in TaskIds : StartWait(w, t)
         \/ WaitStep(w)
         \/ Leave(w)

\* The runtime runs every task that can run, and time passes.
ReplyFairness ==
    /\ \A w \in Waits : WF_allVars(WaitStep(w))
    /\ WF_allVars(TimePasses)

ReplySpec == ReplyInit /\ [][ReplyNext]_allVars /\ ReplyFairness

-----------------------------------------------------------------------------
(* Properties.                                                             *)

\* No waiter is forgotten: a wait that sleeps is registered with its task,
\* which is open, or its result is in its channel or about to be sent.  So a
\* oneshot sender is never dropped unused and resolve_reply_wait never has to
\* guess.
NoWaiterForgotten ==
    \A w \in Waits : call[w].pc # "idle" =>
        LET t == call[w].task
        IN  \/ w \in waiters[t] /\ t \in DOMAIN tasks /\ Open(tasks[t])
            \/ channel[w] # Nothing
            \/ \E u \in unsent : u[1] = w

\* Everybody hears the same: the outcomes returned by all waits for a task,
\* before and after crashes and reconciliations, are one outcome, the one the
\* ledger keeps, and never TaskNotFound for a task that is retained.
WaitersAgree ==
    \A t \in TaskIds : \A result \in told[t] :
        t \in DOMAIN ledger => result = ResultOf(ledger[t].st, ledger[t].reply)

DueInTime(w) == /\ call[w].task \in DOMAIN tasks
                /\ tasks[call[w].task].created + DeliveryTtl <= MaxTime

\* Every wait ends: with the outcome of its task at the latest when the
\* delivery deadline of the task passes, even if the recipient never shows up
\* and nobody else uses the broker.
WaitEnds == \A w \in Waits : DueInTime(w) ~> call[w] = Idle
=============================================================================
