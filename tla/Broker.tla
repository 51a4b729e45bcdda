------------------------------- MODULE Broker -------------------------------
(***************************************************************************)
(* The delivery broker (BrokerState in broker.rs): the in-memory scheduler *)
(* behind one async mutex, the SQLite ledger it writes through, and the    *)
(* ways the two can drift apart.                                           *)
(*                                                                         *)
(* Every entry point takes the lock, samples the clock, validates the      *)
(* caller, reconciles with the ledger if an earlier commit left them in    *)
(* doubt, runs maintenance and only then does its own work, all at the one *)
(* clock sample.  Reconcile, Maintain and the bodies are separate actions  *)
(* here, because each commits to the ledger on its own and may fail on its *)
(* own; the guard Settled makes a body wait for the other two, exactly as  *)
(* the early returns do.  An entry point refused after maintenance is the  *)
(* Maintain action alone.                                                  *)
(*                                                                         *)
(* The future of a request to the private API is dropped when its client   *)
(* disconnects.  Dropping it inside commit().await releases the lock with  *)
(* the memory unchanged and the flag unset, while the SQLite transaction   *)
(* goes on in its blocking thread: such a batch is put in orphans and      *)
(* lands, or fails, at any later moment.  Sends run in a spawned task and  *)
(* are not dropped.                                                        *)
(*                                                                         *)
(* Left to other modules: reply waiters, inbox notification and wait       *)
(* guards; the A2A projection of a row.  Left out: the status event and    *)
(* the retired registration ids, which only choose an error code, and the  *)
(* heap of delivery deadlines, tasks_by_sender and tasks_by_recipient,     *)
(* which no decision reads.                                                *)
(*                                                                         *)
(* An operator whose name ends in _Mutant is a plausible bug in the one    *)
(* that follows it; no specification uses it.                              *)
(***************************************************************************)
EXTENDS DurableRows, Listing

CONSTANTS RegistrationTtl,    \* REGISTRATION_TTL_MS
          MaxOutbound,        \* MAX_ACTIVE_OUTBOUND_TASKS
          ClockBack,          \* how far the wall clock may step back at once
          MaxTime, MaxEpoch, MaxSequence, MaxDeliveries,
          MaxOrphans          \* the bounds of a model

ASSUME BrokerAssumption ==
    /\ RegistrationTtl \in Nat \ {0}
    /\ MaxOutbound \in Nat \ {0}
    /\ ClockBack \in Nat
    /\ MaxTime \in Nat /\ MaxEpoch \in Nat
    /\ MaxSequence \in Nat /\ MaxDeliveries \in Nat /\ MaxOrphans \in Nat

VARIABLES
    now,         \* the wall clock
    up,          \* the broker process runs and has recovered
    \* the ledger, which survives a crash
    ledger,      \* delivery_tasks: task id -> Row
    watermark,   \* broker_meta.last_registration_epoch
    orphans,     \* batches whose caller has gone
    \* the State behind the mutex
    doubt,       \* reconciliation_required
    epoch,       \* next_registration_epoch
    sequence,    \* next_task_sequence
    regs,        \* registrations: id -> [agent, epoch, expires]
    inbox,       \* RegistrationState.inbox: id -> sequence of task ids
    byAgent,     \* registrations_by_agent
    tasks,       \* task id -> TaskRecord
    byDelivery,  \* tasks_by_delivery
    active,      \* active_tasks_by_agent
    outbound,    \* outbound_tasks_by_agent
    deadlines,   \* terminal_deadlines
    \* uuid supply and history
    grants,      \* epoch of every registration ever returned, by id
    issued,      \* number of delivery ids drawn
    acks,        \* task id -> delivery ids whose ack returned Ok
    outcomes     \* task id -> terminal outcomes reported Ok to a caller

store == <<ledger, watermark>>
index == <<byDelivery, active, outbound, deadlines>>
members == <<regs, inbox, byAgent, epoch>>
memory == <<sequence, tasks, index, members>>
history == <<grants, issued, acks, outcomes>>
vars == <<now, up, store, orphans, doubt, memory, history>>

NoRegistration == 0
NoAttempt == -1
Marks == {"none", "failed", "rejected", "canceled", "expired"}

TaskRecord == [seq : Nat, ver : Nat \ {0}, msg : Messages, created : Nat,
               dlv : Nat, owner : Nat, until : Nat \cup {NoTime},
               last : Nat \cup {NoAttempt}, acked : BOOLEAN,
               ackAt : Nat \cup {NoTime}, reply : Replies \cup {NoReply},
               mark : Marks, term : Nat \cup {NoTime}]
Registration == [agent : Agents, epoch : Nat, expires : Nat]
Outcome == [st : Terminal, reply : Replies \cup {NoReply}]

-----------------------------------------------------------------------------
(* The task table.                                                         *)

NewTask(m, at, n) ==
    [seq |-> n, ver |-> 1, msg |-> m, created |-> at, dlv |-> NoDelivery,
     owner |-> NoRegistration, until |-> NoTime, last |-> NoAttempt,
     acked |-> FALSE, ackAt |-> NoTime, reply |-> NoReply, mark |-> "none",
     term |-> NoTime]

AttemptOf(task) == IF task.last = NoAttempt THEN 0 ELSE task.last

\* durable_task: the row that says what the record says.
DurableTask(task) ==
    [ver |-> task.ver,
     st |-> CASE task.mark = "failed" -> "Failed"
              [] task.mark = "rejected" -> "Rejected"
              [] task.reply # NoReply /\ task.mark = "none" -> "Replied"
              [] task.mark = "canceled" -> "Canceled"
              [] task.mark = "expired" -> "Expired"
              [] OTHER -> IF task.acked THEN "Acknowledged"
                          ELSE IF task.dlv # NoDelivery THEN "Leased"
                          ELSE "Queued",
     msg |-> task.msg, created |-> task.created, dlv |-> task.dlv,
     until |-> task.until,
     attempt |-> AttemptOf(task),
     ack |-> task.ackAt, reply |-> task.reply, term |-> task.term]

\* restore_task, with the lease owner the caller binds.
RestoreTask(row, n, owner) ==
    [seq |-> n, ver |-> row.ver, msg |-> row.msg, created |-> row.created,
     dlv |-> row.dlv,
     owner |-> IF row.dlv = NoDelivery THEN NoRegistration ELSE owner,
     until |-> row.until,
     last |-> IF row.ver > 1 THEN row.attempt ELSE NoAttempt,
     acked |-> row.st = "Acknowledged", ackAt |-> row.ack,
     reply |-> row.reply,
     mark |-> CASE row.st = "Failed" -> "failed"
                [] row.st = "Rejected" -> "rejected"
                [] row.st = "Canceled" -> "canceled"
                [] row.st = "Expired" -> "expired"
                [] OTHER -> "none",
     term |-> row.term]

Open(task) == task.term = NoTime
Deliverable(task) == Open(task) /\ ~task.acked
LeasedBy(task, R) == ~task.acked /\ task.dlv # NoDelivery /\ task.owner \in R

\* bump_requeued_versions_for_credentials and the lease.take() of
\* detach_registration: an unacknowledged lease of a lost registration ends.
ReleaseLease(task) ==
    [task EXCEPT !.ver = @ + 1, !.dlv = NoDelivery,
                 !.owner = NoRegistration, !.until = NoTime]

\* A fresh lease, and the acknowledgement of one.
LeaseTask(task, d, r, attempt) ==
    [task EXCEPT !.ver = @ + 1, !.dlv = d, !.owner = r, !.last = attempt,
                 !.until = now + DeliveryLease]
AcknowledgeTask(task) ==
    [task EXCEPT !.ver = @ + 1, !.acked = TRUE, !.ackAt = now]

MarkOf(st) ==
    CASE st = "Replied" -> "none" [] st = "Failed" -> "failed"
      [] st = "Rejected" -> "rejected" [] st = "Canceled" -> "canceled"
      [] st = "Expired" -> "expired"

\* terminalize_task, the record's part.
TerminalizeTask(task, st, reply) ==
    [task EXCEPT !.ver = @ + 1, !.dlv = NoDelivery,
                 !.owner = NoRegistration, !.until = NoTime,
                 !.acked = FALSE, !.ackAt = NoTime, !.reply = reply,
                 !.mark = MarkOf(st), !.term = now]

BySequence == {p \in (DOMAIN tasks) \X (DOMAIN tasks) :
                 tasks[p[1]].seq < tasks[p[2]].seq}

WithoutTasks_Mutant(ix, T) == ix
WithoutTasks(ix, T) == [a \in DOMAIN ix |-> ix[a] \ T]
WithoutLeases_Mutant(T) == byDelivery
\* The delivery index once the leases of the tasks T are gone.
WithoutLeases(T) ==
    Without(byDelivery, {d \in DOMAIN byDelivery :
                           \E t \in T : tasks[t].dlv = d /\ byDelivery[d] = t})

\* terminalize_task, the indexes' part, for the tasks T.
TerminalizeIndexes(T) ==
    /\ byDelivery' = WithoutLeases(T)
    /\ active' = WithoutTasks(active, T)
    /\ outbound' = WithoutTasks(outbound, T)

-----------------------------------------------------------------------------
(* SqliteTaskStore::commit.                                                *)

Storable(b) ==
    /\ \A t \in DOMAIN b.put : ValidForStore(b.put[t])
    /\ Cardinality((DOMAIN ledger \ b.del) \cup DOMAIN b.put)
         <= MaxRetainedTasks

Suppressed_Mutant(b) == FALSE      \* no version guard on the upsert
\* An upsert whose version is not newer than the stored one changes nothing;
\* when the stored row also differs, the whole transaction is given up.
Suppressed(b) ==
    \E t \in (DOMAIN b.put \cap DOMAIN ledger) \ b.del :
        ledger[t].ver >= b.put[t].ver /\ ledger[t] # b.put[t]

\* State versions order the writes of a row.  A deletion and a first insertion
\* carry none, and the connection mutex is not fair; what keeps them in order
\* with a queued transaction of the same task is time: such a transaction waits
\* for the connection, seconds at most, while a row is deleted a retention
\* period after its last write and a task id is new.
InOrder(b, queued) ==
    \A o \in queued :
        /\ b.del \cap DOMAIN o.put = {}
        /\ (DOMAIN b.put \ DOMAIN ledger) \cap o.del = {}

Write(b) ==
    /\ Storable(b)
    /\ ~Suppressed(b)
    /\ InOrder(b, orphans \ {b})
    /\ ledger' = Upsert(Without(ledger, b.del), b.put)
    /\ watermark' = IF b.mark > watermark THEN b.mark ELSE watermark

OneRow(t, row) == [mark |-> 0, put |-> [u \in {t} |-> row], del |-> {}]

\* commit_transition when it does not return Ok: the ledger has moved but
\* the projections have not; or the batch was suppressed; or the future was
\* dropped while the transaction was queued.  (An error that wrote nothing
\* changes nothing; nor does a second copy of a queued transaction.)
Interrupted(b, droppable) ==
    /\ ~EmptyBatch(b)
    /\ \/ Write(b) /\ doubt' = TRUE /\ UNCHANGED orphans
       \/ Suppressed(b) /\ doubt' = TRUE /\ UNCHANGED <<store, orphans>>
       \/ /\ droppable
          /\ b \notin orphans /\ Cardinality(orphans) < MaxOrphans
          /\ orphans' = orphans \cup {b}
          /\ UNCHANGED <<store, doubt>>
    /\ UNCHANGED <<now, up, memory, grants, acks, outcomes>>

Completed(b) == Write(b) /\ UNCHANGED <<now, up, doubt, orphans>>

-----------------------------------------------------------------------------
(* maintain_state.                                                         *)

Due == {t \in DOMAIN tasks :
          Open(tasks[t]) /\ tasks[t].created + DeliveryTtl <= now}
Overdue == {t \in DOMAIN tasks :
              ~Open(tasks[t]) /\ tasks[t].term + TerminalRetention <= now}
Expired == {r \in DOMAIN regs : regs[r].expires <= now}
Stranded == {t \in DOMAIN tasks \ Due : LeasedBy(tasks[t], Expired)}

Settled == up /\ ~doubt /\ Due = {} /\ Overdue = {} /\ Expired = {}

MaintainBatch ==
    [mark |-> 0,
     put |-> [t \in Due \cup Stranded |->
                IF t \in Due
                  THEN TerminalRow(DurableTask(tasks[t]), now, "Expired", NoReply)
                  ELSE RequeuedRow(DurableTask(tasks[t]))],
     del |-> Overdue]

\* prune_terminal_tasks: the tasks whose deadline the heap holds and has
\* reached.
Pruned == {t \in DOMAIN tasks :
             \E e \in deadlines : e[1] <= now /\ e[2] = t /\ ~Open(tasks[t])
                                  /\ tasks[t].term + TerminalRetention = e[1]}

Maintain ==
    /\ up /\ ~doubt
    /\ Due \cup Overdue \cup Expired # {}
    /\ \/ /\ Completed(MaintainBatch)
          /\ tasks' = [t \in DOMAIN tasks \ Pruned |->
                         IF t \in Due
                           THEN TerminalizeTask(tasks[t], "Expired", NoReply)
                           ELSE IF t \in Stranded THEN ReleaseLease(tasks[t])
                           ELSE tasks[t]]
          /\ byDelivery' = WithoutLeases(Due \cup Stranded)
          /\ active' = WithoutTasks(active, Due)
          /\ outbound' = WithoutTasks(outbound, Due)
          /\ deadlines' = {e \in deadlines : e[1] > now}
                            \cup {<<now + TerminalRetention, t>> : t \in Due}
          /\ regs' = Without(regs, Expired)
          /\ inbox' = [r \in DOMAIN regs \ Expired |->
                         WithoutEntries(inbox[r], Due)]
          /\ byAgent' = Without(byAgent, {a \in DOMAIN byAgent :
                                            byAgent[a] \in Expired})
          /\ acks' = [t \in TaskIds |-> IF t \in Pruned THEN {} ELSE acks[t]]
          /\ outcomes' = [t \in TaskIds |->
                            IF t \in Pruned THEN {} ELSE outcomes[t]]
          /\ UNCHANGED <<epoch, sequence, grants, issued>>
       \/ Interrupted(MaintainBatch, TRUE) /\ UNCHANGED issued

-----------------------------------------------------------------------------
(* Rebuilding the task table from the ledger: reconcile_state_if_required  *)
(* and recover.  Tasks are sequenced by (created, task id).                *)

Before(rows, t, u) ==
    \/ rows[t].created < rows[u].created
    \/ rows[t].created = rows[u].created /\ t < u

ByAge(rows) == {p \in (DOMAIN rows) \X (DOMAIN rows) :
                   Before(rows, p[1], p[2])}

\* active_credentials: the live registration of an agent.
LiveRegistration(a) ==
    IF a \in DOMAIN byAgent /\ regs[byAgent[a]].expires > now
      THEN byAgent[a] ELSE NoRegistration

RestoredTasks(rows) ==
    [t \in DOMAIN rows |->
       RestoreTask(rows[t],
                   Cardinality({u \in DOMAIN rows : Before(rows, u, t)}) + 1,
                   LiveRegistration(rows[t].msg.to))]

OpenRows(rows) == {t \in DOMAIN rows : rows[t].st \in Active}
WithLease(rows) == {t \in OpenRows(rows) : rows[t].dlv # NoDelivery}

Rebuild(rows) ==
    /\ sequence' = Cardinality(DOMAIN rows)
    /\ tasks' = RestoredTasks(rows)
    /\ byDelivery' = [d \in {rows[t].dlv : t \in WithLease(rows)} |->
                        CHOOSE t \in WithLease(rows) : rows[t].dlv = d]
    /\ active' = [a \in Agents |-> {t \in OpenRows(rows) :
                                      a \in {rows[t].msg.from, rows[t].msg.to}}]
    /\ outbound' = [a \in Agents |-> {t \in OpenRows(rows) :
                                        rows[t].msg.from = a}]
    /\ deadlines' = {<<RetentionDeadline(rows[t]), t>> :
                       t \in DOMAIN rows \ OpenRows(rows)}
    /\ acks' = [t \in TaskIds |-> IF t \in DOMAIN rows THEN acks[t] ELSE {}]
    /\ outcomes' = [t \in TaskIds |->
                      IF t \in DOMAIN rows THEN outcomes[t] ELSE {}]

\* Repair the projections, load and repair the rows, replace every task; the
\* registrations stay and the inboxes of the live ones are filled again.
Reconcile ==
    LET batch == ReconcileBatch(ledger, now)
        rows == ReconciledRows(ledger, now)
        queued(r) == {t \in DOMAIN rows : rows[t].st = "Queued"
                        /\ LiveRegistration(rows[t].msg.to) = r}
    IN  /\ up /\ doubt
        /\ SnapshotValid(ledger)
        /\ \/ /\ Write(batch)
              /\ Rebuild(rows)
              /\ doubt' = FALSE
              /\ epoch' = IF watermark > epoch THEN watermark ELSE epoch
              /\ inbox' = [r \in DOMAIN regs |-> Ordered(queued(r), ByAge(rows))]
              /\ UNCHANGED <<now, up, orphans, regs, byAgent, grants, issued>>
           \/ Interrupted(batch, TRUE) /\ UNCHANGED issued

-----------------------------------------------------------------------------
(* Registrations.  Requests carry credentials; id and epoch are issued     *)
(* together, so the id stands for both.                                    *)

\* validate_active_registration
ActiveRegistration(r) ==
    /\ r \in DOMAIN regs
    /\ regs[r].expires > now
    /\ regs[r].agent \in DOMAIN byAgent
    /\ byAgent[regs[r].agent] = r

Held(R) == {t \in DOMAIN tasks : LeasedBy(tasks[t], R)}
ReleaseBatch_Mutant(mark, R) ==    \* the new epoch is not made durable
    [mark |-> 0,
     put |-> [t \in Held(R) |-> RequeuedRow(DurableTask(tasks[t]))],
     del |-> {}]
ReleaseBatch(mark, R) ==
    [mark |-> mark,
     put |-> [t \in Held(R) |-> RequeuedRow(DurableTask(tasks[t]))],
     del |-> {}]
Released_Mutant(R) == tasks        \* the lease outlives its registration
Released(R) == [t \in DOMAIN tasks |-> IF t \in Held(R)
                                         THEN ReleaseLease(tasks[t])
                                         ELSE tasks[t]]

Register(a) ==
    LET id == Len(grants) + 1
        old == IF a \in DOMAIN byAgent THEN {byAgent[a]} ELSE {}
        batch == ReleaseBatch(epoch + 1, old)
        queued == {t \in active[a] :
                     tasks[t].msg.to = a /\ Deliverable(tasks[t])}
    IN  /\ Settled
        /\ epoch < MaxEpoch
        /\ \/ /\ Completed(batch)
              /\ epoch' = epoch + 1
              /\ tasks' = Released(old)
              /\ byDelivery' = WithoutLeases(Held(old))
              /\ regs' = Insert(Without(regs, old), id,
                             [agent |-> a, epoch |-> epoch + 1,
                              expires |-> now + RegistrationTtl])
              /\ inbox' = Insert(Without(inbox, old), id,
                              Ordered(queued, BySequence))
              /\ byAgent' = Insert(byAgent, a, id)
              /\ grants' = Append(grants, epoch + 1)
              /\ UNCHANGED <<sequence, active, outbound, deadlines, issued,
                             acks, outcomes>>
           \/ Interrupted(batch, TRUE) /\ UNCHANGED issued

Renewed(reg) == [reg EXCEPT !.expires = now + RegistrationTtl]
Renew(r) ==
    /\ Settled
    /\ ActiveRegistration(r)
    /\ regs' = [regs EXCEPT ![r] = Renewed(@)]
    /\ UNCHANGED <<now, up, store, orphans, doubt, sequence, tasks, index,
                   inbox, byAgent, epoch, history>>

RemoveRegistration(r) ==
    LET batch == ReleaseBatch(0, {r})
    IN  /\ Settled
        /\ ActiveRegistration(r)
        /\ \/ /\ Completed(batch)
              /\ tasks' = Released({r})
              /\ byDelivery' = WithoutLeases(Held({r}))
              /\ regs' = Without(regs, {r})
              /\ inbox' = Without(inbox, {r})
              /\ byAgent' = Without(byAgent, {regs[r].agent})
              /\ UNCHANGED <<epoch, sequence, active, outbound, deadlines,
                             history>>
           \/ Interrupted(batch, TRUE) /\ UNCHANGED issued

-----------------------------------------------------------------------------
(* Sending and delivering.                                                 *)

QuotaLeft(a) == Cardinality(outbound[a]) < MaxOutbound

Enqueue(r, t, m) ==
    LET batch == OneRow(t, QueuedRow(m, now))
    IN  /\ Settled
        /\ ActiveRegistration(r)
        /\ sequence < MaxSequence
        /\ t \notin DOMAIN tasks
        /\ Cardinality(DOMAIN tasks) < MaxRetainedTasks
        /\ m.from = regs[r].agent
        /\ QuotaLeft(m.from)
        /\ LiveRegistration(m.to) # NoRegistration
        /\ \/ /\ Completed(batch)
              /\ sequence' = sequence + 1
              /\ inbox' = [inbox EXCEPT ![byAgent[m.to]] = Append(@, t)]
              /\ active' = [a \in Agents |-> IF a \in {m.from, m.to}
                                               THEN active[a] \cup {t}
                                               ELSE active[a]]
              /\ outbound' = [outbound EXCEPT ![m.from] = @ \cup {t}]
              /\ tasks' = Insert(tasks, t, NewTask(m, now, sequence + 1))
              /\ UNCHANGED <<regs, byAgent, epoch, byDelivery, deadlines,
                             history>>
           \/ Interrupted(batch, FALSE) /\ UNCHANGED issued

\* poll_delivery skips an entry that is closed, acknowledged or under a live
\* lease, and leases the first other one.
Leasable(t) == /\ t \in DOMAIN tasks
               /\ Deliverable(tasks[t])
               /\ tasks[t].dlv = NoDelivery \/ tasks[t].until <= now

PollDelivery(r) ==
    \E i \in DOMAIN inbox[r] :
      LET t == inbox[r][i]
          task == tasks[t]
          d == issued + 1
          attempt == task.last + 1
          batch == OneRow(t, LeasedRow(DurableTask(task), d, now, attempt))
      IN  /\ Settled
          /\ ActiveRegistration(r)
          /\ Leasable(t)
          /\ \A j \in 1 .. (i - 1) : ~Leasable(inbox[r][j])
          /\ d <= MaxDeliveries
          /\ issued' = d
          /\ \/ /\ Completed(batch)
                /\ tasks' = [tasks EXCEPT ![t] = LeaseTask(@, d, r, attempt)]
                /\ byDelivery' = Insert(WithoutLeases({t}), d, t)
                /\ UNCHANGED <<sequence, members, active, outbound, deadlines,
                               grants, acks, outcomes>>
             \/ Interrupted(batch, TRUE)

AckDelivery(r, d) ==
    LET t == byDelivery[d]
        batch == OneRow(t, AcknowledgedRow(DurableTask(tasks[t]), now))
    IN  /\ Settled
        /\ ActiveRegistration(r)
        /\ d \in DOMAIN byDelivery
        /\ tasks[t].dlv = d
        /\ Deliverable(tasks[t])
        /\ tasks[t].until > now
        /\ tasks[t].owner = r
        /\ UNCHANGED issued
        /\ \/ /\ Completed(batch)
              /\ tasks' = [tasks EXCEPT ![t] = AcknowledgeTask(@)]
              /\ inbox' = [inbox EXCEPT ![r] = WithoutEntries(@, {t})]
              /\ acks' = [acks EXCEPT ![t] = @ \cup {d}]
              /\ UNCHANGED <<sequence, index, regs, byAgent, epoch, grants,
                             outcomes>>
           \/ Interrupted(batch, TRUE)

\* ack_delivery repeated by any registration of the recipient: Ok again.
AckAgain(r, d) ==
    LET t == byDelivery[d]
    IN  /\ Settled
        /\ ActiveRegistration(r)
        /\ d \in DOMAIN byDelivery
        /\ tasks[t].dlv = d
        /\ Open(tasks[t]) /\ tasks[t].acked
        /\ tasks[t].msg.to = regs[r].agent
        /\ acks' = [acks EXCEPT ![t] = @ \cup {d}]
        /\ UNCHANGED <<now, up, store, orphans, doubt, memory, grants, issued,
                       outcomes>>

-----------------------------------------------------------------------------
(* Ending a task.                                                          *)

Report(t, st, p) ==
    outcomes' = [outcomes EXCEPT ![t] = @ \cup {[st |-> st, reply |-> p]}]

\* The common end of reply, recipient_terminal and cancel_task.
Terminalize(t, st, p) ==
    LET batch == OneRow(t, TerminalRow(DurableTask(tasks[t]), now, st, p))
    IN  /\ Open(tasks[t])
        /\ UNCHANGED issued
        /\ \/ /\ Completed(batch)
              /\ tasks' = [tasks EXCEPT ![t] = TerminalizeTask(@, st, p)]
              /\ TerminalizeIndexes({t})
              /\ deadlines' = deadlines \cup {<<now + TerminalRetention, t>>}
              /\ LET r == tasks[t].msg.to
                 IN  inbox' = IF r \in DOMAIN byAgent
                                THEN [inbox EXCEPT ![byAgent[r]] =
                                                     WithoutEntries(@, {t})]
                                ELSE inbox
              /\ Report(t, st, p)
              /\ UNCHANGED <<sequence, regs, byAgent, epoch, grants, acks>>
           \/ Interrupted(batch, TRUE)

Repeated_Mutant(t, st, p) ==       \* the stored outcome is not compared
    /\ ~Open(tasks[t])
    /\ Report(t, st, p)
    /\ UNCHANGED <<now, up, store, orphans, doubt, memory, grants, issued, acks>>

\* The same request again, once the task has ended that way: Ok, no change.
Repeated(t, st, p) ==
    /\ DurableTask(tasks[t]).st = st
    /\ tasks[t].reply = p
    /\ Report(t, st, p)
    /\ UNCHANGED <<now, up, store, orphans, doubt, memory, grants, issued, acks>>

End(r, t, st, p) ==
    /\ Settled
    /\ ActiveRegistration(r)
    /\ t \in DOMAIN tasks
    /\ regs[r].agent = IF st = "Canceled" THEN tasks[t].msg.from
                                          ELSE tasks[t].msg.to
    /\ Terminalize(t, st, p) \/ Repeated(t, st, p)

Reply(r, t, p) == End(r, t, "Replied", p)
FailTask(r, t, p) == End(r, t, "Failed", p)
RejectTask(r, t, p) == End(r, t, "Rejected", p)
CancelTask(r, t) == End(r, t, "Canceled", NoReply)

-----------------------------------------------------------------------------
(* The environment: time, orphaned transactions, crash and restart.        *)

Tick ==
    /\ \E t \in (now - ClockBack) .. MaxTime :
         /\ t >= 0 /\ t # now
         /\ now' = t
    /\ UNCHANGED <<up, store, orphans, doubt, memory, history>>

\* The blocking thread of a dropped request gets the connection and either
\* commits its transaction or gives it up.
OrphanLands ==
    \E o \in orphans :
      /\ Write(o) \/ UNCHANGED store
      /\ orphans' = orphans \ {o}
      /\ UNCHANGED <<now, up, doubt, memory, history>>

NoMemory ==
    /\ doubt' = FALSE
    /\ epoch' = 0
    /\ sequence' = 0
    /\ regs' = <<>> /\ inbox' = <<>> /\ byAgent' = <<>>
    /\ tasks' = <<>> /\ byDelivery' = <<>>
    /\ active' = [a \in Agents |-> {}]
    /\ outbound' = [a \in Agents |-> {}]
    /\ deadlines' = {}

Crash ==
    /\ up
    /\ up' = FALSE
    /\ orphans' = {}
    /\ NoMemory
    /\ UNCHANGED <<now, store, history>>

\* recover: the same repair as Reconcile, with nobody registered yet.
Recover ==
    LET batch == ReconcileBatch(ledger, now)
    IN  /\ ~up
        /\ SnapshotValid(ledger)
        /\ Write(batch)
        /\ \/ /\ up' = TRUE
              /\ epoch' = watermark
              /\ Rebuild(ReconciledRows(ledger, now))
              /\ UNCHANGED <<now, orphans, doubt, regs, inbox, byAgent, grants,
                             issued>>
           \/ /\ ~EmptyBatch(batch)
              /\ UNCHANGED <<now, up, orphans, doubt, memory, history>>

-----------------------------------------------------------------------------
Init ==
    /\ now = 0
    /\ up = TRUE
    /\ ledger = <<>> /\ watermark = 0 /\ orphans = {}
    /\ doubt = FALSE /\ epoch = 0 /\ sequence = 0
    /\ regs = <<>> /\ inbox = <<>> /\ byAgent = <<>>
    /\ tasks = <<>> /\ byDelivery = <<>> /\ deadlines = {}
    /\ active = [a \in Agents |-> {}]
    /\ outbound = [a \in Agents |-> {}]
    /\ grants = <<>> /\ issued = 0
    /\ acks = [t \in TaskIds |-> {}]
    /\ outcomes = [t \in TaskIds |-> {}]

Next ==
    \/ Maintain
    \/ Reconcile
    \/ \E a \in Agents : Register(a)
    \/ \E r \in DOMAIN regs :
         \/ Renew(r)
         \/ RemoveRegistration(r)
         \/ \E t \in TaskIds, m \in Messages : Enqueue(r, t, m)
         \/ PollDelivery(r)
         \/ \E d \in 1 .. issued : AckDelivery(r, d) \/ AckAgain(r, d)
         \/ \E t \in TaskIds, p \in Replies :
              Reply(r, t, p) \/ FailTask(r, t, p) \/ RejectTask(r, t, p)
         \/ \E t \in TaskIds : CancelTask(r, t)
    \/ Tick
    \/ OrphanLands
    \/ Crash
    \/ Recover

Spec == Init /\ [][Next]_vars

-----------------------------------------------------------------------------
(* Properties.                                                             *)

\* Every variable has its type, and the maps keyed by registration agree on
\* their domain (the HashMaps of State, the columns of delivery_tasks).
TypeOK ==
    /\ now \in Nat /\ up \in BOOLEAN /\ doubt \in BOOLEAN
    /\ Partial(ledger, TaskIds, Row) /\ watermark \in Nat
    /\ \A o \in orphans : IsBatch(o)
    /\ epoch \in Nat /\ sequence \in Nat
    /\ Partial(regs, Nat \ {0}, Registration)
    /\ DOMAIN inbox = DOMAIN regs
    /\ Partial(byAgent, Agents, Nat \ {0})
    /\ Partial(tasks, TaskIds, TaskRecord)
    /\ Partial(byDelivery, Nat \ {0}, TaskIds)
    /\ active \in [Agents -> SUBSET TaskIds]
    /\ outbound \in [Agents -> SUBSET TaskIds]
    /\ deadlines \subseteq Nat \X TaskIds
    /\ grants \in Seq(Nat) /\ issued \in Nat
    /\ acks \in [TaskIds -> SUBSET Nat]
    /\ outcomes \in [TaskIds -> SUBSET Outcome]

\* Unless reconciliation_required is set, the memory and the ledger tell the
\* same story up to one write per task: the stored row is what durable_task
\* would write, or the one successor of it that a commit wrote without the
\* broker learning of it; only a task whose retention has ended is missing
\* from the ledger, and none is missing from the memory.  In doubt or not, the
\* ledger is never behind, and equal versions mean equal rows.
LedgerAgreement ==
    up => /\ \A t \in DOMAIN tasks \cap DOMAIN ledger :
               \/ ledger[t] = DurableTask(tasks[t])
               \/ ledger[t].ver = tasks[t].ver + 1
               \/ doubt /\ ledger[t].ver > tasks[t].ver
          /\ ~doubt => /\ DOMAIN ledger \subseteq DOMAIN tasks
                       /\ \A t \in DOMAIN tasks \ DOMAIN ledger :
                            tasks[t].term # NoTime
                            /\ tasks[t].term + TerminalRetention <= now

\* Exactly one delivery of a task is ever acknowledged: once ack_delivery has
\* returned Ok for a delivery id, no crash, dropped request or reconciliation
\* puts the task back in the queue or makes another delivery id acknowledgeable.
AckedOnce ==
    \A t \in TaskIds :
        /\ Cardinality(acks[t]) <= 1
        /\ acks[t] # {} /\ t \in DOMAIN ledger =>
             \/ ledger[t].st \in Terminal
             \/ ledger[t].st = "Acknowledged" /\ ledger[t].dlv \in acks[t]

\* A terminal outcome that reply, fail_task, reject_task or cancel_task has
\* reported Ok is the outcome the ledger keeps, to the payload, until the
\* retention deadline; so two callers are never told different outcomes.
OutcomeKept ==
    \A t \in TaskIds : \A o \in outcomes[t] :
        t \in DOMAIN ledger => /\ ledger[t].st = o.st
                               /\ ledger[t].reply = o.reply

\* Epochs fence registrations: each registration ever returned has a larger
\* epoch than all the earlier ones, restarts included, because none is
\* returned before its epoch is in broker_meta.
EpochFence ==
    /\ \A i, j \in DOMAIN grants : i < j => grants[i] < grants[j]
    /\ \A i \in DOMAIN grants : grants[i] <= watermark
    /\ up => epoch <= watermark

\* An unacknowledged lease belongs to the registration that is current for
\* the recipient: no expired or replaced registration holds a delivery that
\* ack_delivery would accept from it.
LeaseFence ==
    \A t \in DOMAIN tasks :
        Deliverable(tasks[t]) /\ tasks[t].dlv # NoDelivery =>
          /\ tasks[t].msg.to \in DOMAIN byAgent
          /\ tasks[t].owner = byAgent[tasks[t].msg.to]

\* tasks_by_delivery is the inverse of the leases in the task table.
DeliveryIndexExact ==
    /\ \A d \in DOMAIN byDelivery :
         byDelivery[d] \in DOMAIN tasks /\ tasks[byDelivery[d]].dlv = d
    /\ \A t \in DOMAIN tasks : tasks[t].dlv # NoDelivery =>
         tasks[t].dlv \in DOMAIN byDelivery /\ byDelivery[tasks[t].dlv] = t

\* The inbox of every live registration holds exactly the open,
\* unacknowledged tasks sent to its agent, once each, in enqueue order: none
\* is lost when the agent registers again or the table is rebuilt.
InboxExact ==
    \A r \in DOMAIN regs : regs[r].expires > now =>
        /\ byAgent[regs[r].agent] = r
        /\ inbox[r] \in Seq(DOMAIN tasks)
        /\ \A t \in DOMAIN tasks :
             (\E i \in DOMAIN inbox[r] : inbox[r][i] = t)
               <=> Deliverable(tasks[t]) /\ tasks[t].msg.to = regs[r].agent
        /\ \A i, j \in DOMAIN inbox[r] :
             i < j => tasks[inbox[r][i]].seq < tasks[inbox[r][j]].seq

\* The indexes by agent and the heap of retention deadlines say what the task
\* table says.
IndexesExact ==
    /\ \A a \in Agents :
         /\ active[a] = {t \in DOMAIN tasks : Open(tasks[t]) /\
                           a \in {tasks[t].msg.from, tasks[t].msg.to}}
         /\ outbound[a] = {t \in DOMAIN tasks : Open(tasks[t]) /\
                             tasks[t].msg.from = a}
    /\ \A t \in DOMAIN tasks : ~Open(tasks[t]) =>
         <<tasks[t].term + TerminalRetention, t>> \in deadlines

\* The indexes agree with the task table through expiry, release, pruning and
\* rebuild: a delivery id finds its task as long as the lease stands and nothing
\* afterwards, so that the expect() of ack_delivery on the lookup cannot fail;
\* the outbound quota counts the open tasks of a sender, registration finds
\* every open task of an agent, and every ended task has the heap entry that
\* will prune it.
IndexesAgree == DeliveryIndexExact /\ IndexesExact

\* Whatever the broker writes, validate_durable_task accepts when it is read
\* back: a restart or a live reconciliation is never refused for good.
AlwaysRecoverable == SnapshotValid(ledger)

=============================================================================
