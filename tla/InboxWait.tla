----------------------------- MODULE InboxWait ------------------------------
(***************************************************************************)
(* The recipient's wait for a delivery (begin_wait and wait_next in        *)
(* broker.rs) composed with the broker: every step of Broker, with the     *)
(* notifications it sends, and the steps of the waits themselves.          *)
(*                                                                         *)
(* A wait takes its registration's wait_active flag, polls under the lock, *)
(* and sleeps until its Notify has a permit or the earliest deadline the   *)
(* poll saw has come; then it polls again.  It ends with a delivery, with  *)
(* an error, by its own timeout, or because its client disconnects and the *)
(* future is dropped; the guard's destructor clears the flag in all cases. *)
(* tokio's Notify is external: notify_one leaves at most one permit, which *)
(* the next notified() takes.                                              *)
(***************************************************************************)
EXTENDS Broker

CONSTANT Waits                \* the wait_next calls in progress

VARIABLES
    wait,     \* for each call: where it is, its registration, when it wakes
    waiting,  \* registration ids whose wait_active is set
    permit,   \* registration ids whose Notify holds a permit
    posted    \* notify_one calls still to be made, after drop(state)

waitVars == <<wait, waiting, permit, posted>>
allVars == <<vars, waitVars>>

Idle == [pc |-> "idle", reg |-> NoRegistration, wake |-> 0]

\* The request got through: its future was not dropped inside a commit and
\* no commit of it left the ledger in doubt.
Through == ~doubt' /\ orphans' = orphans

-----------------------------------------------------------------------------
(* The broker's steps and what they notify.  maintain_state and live       *)
(* reconciliation notify under the lock, the others after releasing it.    *)

Notify(now_, later) ==
    /\ permit' = IF Through THEN permit \cup now_ ELSE permit
    /\ posted' = IF Through THEN posted \cup later ELSE posted

Refilled_Mutant == {}              \* reconciliation wakes nobody
Refilled == {r \in DOMAIN regs : inbox'[r] # <<>>}

\* The first part of every request.
Prepare == \/ Maintain /\ Notify(Expired, {})
           \/ Reconcile /\ Notify(Refilled, {})

Current(a) == IF a \in DOMAIN byAgent THEN {byAgent[a]} ELSE {}

Quiet ==
    \/ \E r \in DOMAIN regs :
         \/ Renew(r)
         \/ \E d \in 1 .. issued : AckDelivery(r, d) \/ AckAgain(r, d)
         \/ \E t \in TaskIds, p \in Replies :
              Reply(r, t, p) \/ FailTask(r, t, p) \/ RejectTask(r, t, p)
         \/ \E t \in TaskIds : CancelTask(r, t)
    \/ Tick
    \/ OrphanLands
    \/ Recover

BrokerStep ==
    /\ \/ Prepare
       \/ \E a \in Agents : Register(a) /\ Notify({}, Current(a))
       \/ \E r \in DOMAIN regs :
            \/ RemoveRegistration(r) /\ Notify({}, {r})
            \/ \E t \in TaskIds, m \in Messages :
                 Enqueue(r, t, m) /\ Notify({}, Current(m.to))
       \/ Quiet /\ UNCHANGED <<permit, posted>>
    /\ UNCHANGED <<wait, waiting>>

\* The notify_one after drop(state).
Post(r) ==
    /\ r \in posted
    /\ posted' = posted \ {r}
    /\ permit' = permit \cup {r}
    /\ UNCHANGED <<vars, wait, waiting>>

ProcessLost ==
    /\ Crash
    /\ wait' = [w \in Waits |-> Idle]
    /\ waiting' = {} /\ permit' = {} /\ posted' = {}

-----------------------------------------------------------------------------
(* The waits.                                                              *)

BeginWait_Mutant(w, r) ==          \* the flag is set, but not compared first
    /\ Settled
    /\ ActiveRegistration(r)
    /\ wait[w] = Idle
    /\ waiting' = waiting \cup {r}
    /\ wait' = [wait EXCEPT ![w] = [pc |-> "begun", reg |-> r, wake |-> 0]]
    /\ UNCHANGED <<vars, permit, posted>>

BeginWait(w, r) ==
    /\ Settled
    /\ ActiveRegistration(r)
    /\ wait[w] = Idle
    /\ r \notin waiting
    /\ waiting' = waiting \cup {r}
    /\ wait' = [wait EXCEPT ![w] = [pc |-> "begun", reg |-> r, wake |-> 0]]
    /\ UNCHANGED <<vars, permit, posted>>

\* The wait's future is gone and its guard with it.
Ended(w) ==
    /\ wait' = [wait EXCEPT ![w] = Idle]
    /\ waiting' = waiting \ {wait[w].reg}

\* The second lock, which only fetches the Notify.
FetchNotify(w) ==
    /\ wait[w].pc = "begun"
    /\ IF wait[w].reg \in DOMAIN regs
         THEN wait' = [wait EXCEPT ![w].pc = "poll"] /\ UNCHANGED waiting
         ELSE Ended(w)
    /\ UNCHANGED <<vars, permit, posted>>

\* The deadlines poll_delivery takes the minimum of, when nothing is leasable.
PollDeadlines_Mutant(r) ==         \* a delivery under lease is forgotten
    {regs[r].expires}
      \cup {tasks[t].created + DeliveryTtl :
              t \in {u \in DOMAIN tasks : \E i \in DOMAIN inbox[r] : inbox[r][i] = u}}
PollDeadlines(r) ==
    LET seen == {t \in DOMAIN tasks : /\ \E i \in DOMAIN inbox[r] : inbox[r][i] = t
                                      /\ Deliverable(tasks[t])}
    IN  {regs[r].expires}
          \cup {tasks[t].created + DeliveryTtl : t \in seen}
          \cup {tasks[t].until : t \in {u \in seen : tasks[u].dlv # NoDelivery}}

HasLeasable(r) == \E i \in DOMAIN inbox[r] : Leasable(inbox[r][i])

PollPending(w) ==
    LET r == wait[w].reg
        D == PollDeadlines(r)
    IN  /\ Settled
        /\ ActiveRegistration(r)
        /\ ~HasLeasable(r)
        /\ wait' = [wait EXCEPT ![w].pc = "sleep",
                                ![w].wake = CHOOSE d \in D : \A e \in D : d <= e]
        /\ UNCHANGED <<vars, waiting, permit, posted>>

\* One poll_delivery: maintenance, which ends the wait if it fails, and then
\* an error, a delivery (or the failure to commit its lease), or a sleep.
Poll(w) ==
    /\ wait[w].pc = "poll"
    /\ \/ /\ Prepare
          /\ IF Through THEN UNCHANGED <<wait, waiting>> ELSE Ended(w)
       \/ /\ Settled /\ ~ActiveRegistration(wait[w].reg)
          /\ Ended(w)
          /\ UNCHANGED <<vars, permit, posted>>
       \/ /\ wait[w].reg \in DOMAIN regs
          /\ PollDelivery(wait[w].reg)
          /\ Ended(w)
          /\ UNCHANGED <<permit, posted>>
       \/ PollPending(w)

\* The select! at the end of the loop: a notification or the deadline.
Wake(w) ==
    /\ wait[w].pc = "sleep"
    /\ \/ wait[w].reg \in permit /\ permit' = permit \ {wait[w].reg}
       \/ wait[w].wake <= now /\ UNCHANGED permit
    /\ wait' = [wait EXCEPT ![w].pc = "poll"]
    /\ UNCHANGED <<vars, waiting, posted>>

\* The timeout of the wait, a commit that failed without writing, or a
\* client that disconnects.
Leave(w) ==
    /\ wait[w].pc # "idle"
    /\ Ended(w)
    /\ UNCHANGED <<vars, permit, posted>>

-----------------------------------------------------------------------------
InboxInit ==
    /\ Init
    /\ wait = [w \in Waits |-> Idle]
    /\ waiting = {} /\ permit = {} /\ posted = {}

WaitStep(w) == FetchNotify(w) \/ Poll(w) \/ Wake(w)

InboxNext ==
    \/ BrokerStep
    \/ ProcessLost
    \/ \E r \in posted : Post(r)
    \/ \E w \in Waits :
         \/ \E r \in DOMAIN regs : BeginWait(w, r)
         \/ WaitStep(w)
         \/ Leave(w)

\* The runtime runs every task that can run; requests, time and failures are
\* nobody's duty.
InboxFairness ==
    /\ \A w \in Waits : WF_allVars(WaitStep(w))
    /\ \A r \in 1 .. MaxEpoch : WF_allVars(Post(r))

InboxSpec == InboxInit /\ [][InboxNext]_allVars /\ InboxFairness

-----------------------------------------------------------------------------
(* Properties.                                                             *)

\* wait_active is set for a registration exactly while one wait holds its
\* guard: no second wait steals the notifications of the first, and no way of
\* ending a wait leaves the flag behind, which would refuse all later ones.
OneWait ==
    /\ waiting = {wait[w].reg : w \in {v \in Waits : wait[v] # Idle}}
    /\ \A v, w \in Waits : v # w /\ wait[v] # Idle => wait[v].reg # wait[w].reg

\* No wake-up is lost: a wait sleeps only while its registration is current
\* and its inbox has nothing to lease, or else a notification is on its way or
\* its deadline has come.  This covers what arrives between a poll and the
\* sleep, leases that run out, rebuilt inboxes and replaced registrations.
SleepJustified ==
    \A w \in Waits : wait[w].pc = "sleep" =>
        LET r == wait[w].reg
        IN  \/ r \in permit \cup posted
            \/ wait[w].wake <= now
            \/ r \in DOMAIN regs /\ ~HasLeasable(r)

\* A task can be leased for the registration of the wait.  (When the supply of
\* delivery ids of the model is used up, no lease is possible.)
Servable(w) ==
    /\ wait[w].reg \in DOMAIN regs
    /\ HasLeasable(wait[w].reg)
    /\ issued < MaxDeliveries

\* A recipient that waits is served: a task that stays leasable from the inbox of
\* its registration is leased, or the wait has ended.
WaitServed == \A w \in Waits : Servable(w) ~> ~Servable(w)
=============================================================================
