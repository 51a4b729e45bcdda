---------------------------- MODULE BrokerQueues ----------------------------
(***************************************************************************)
(* The in-memory tables of the broker: registrations, inboxes, secondary   *)
(* indexes and the owners of leases.  Every step keeps them exact, for any *)
(* number of agents, tasks and registrations.                              *)
(***************************************************************************)
EXTENDS BrokerSteps

-----------------------------------------------------------------------------
(* The inductive invariant of the tables.                                  *)

\* The open, unacknowledged tasks of the table that are sent to agent a.
Addressed(table, a) ==
    {t \in DOMAIN table : Deliverable(table[t]) /\ table[t].msg.to = a}

\* The queue q holds tasks of T only, once each, in the order of their
\* sequence numbers; and it holds all of T.
Lists(q, T, table) ==
    /\ q \in Seq(T)
    /\ \A i, j \in DOMAIN q : i < j => table[q[i]].seq < table[q[j]].seq
Covers(q, T) == \A t \in T : \E i \in DOMAIN q : q[i] = t

\* A stopped broker remembers nobody; registrations_by_agent is the inverse of
\* registrations, whose ids have all been granted.
MembersExact ==
    /\ ~up => DOMAIN regs = {} /\ DOMAIN tasks = {}
    /\ \A r \in DOMAIN regs : /\ r <= Len(grants)
                              /\ regs[r].agent \in DOMAIN byAgent
                              /\ byAgent[regs[r].agent] = r
    /\ \A a \in DOMAIN byAgent : /\ byAgent[a] \in DOMAIN regs
                                 /\ regs[byAgent[a]].agent = a

\* Sequence numbers order the tasks and come from next_task_sequence.
SequenceFresh ==
    /\ \A t \in DOMAIN tasks : tasks[t].seq <= sequence
    /\ \A t, u \in DOMAIN tasks : t # u => tasks[t].seq # tasks[u].seq

\* An inbox never holds a task that is not to be delivered to its owner.
InboxSound ==
    \A r \in DOMAIN regs :
        Lists(inbox[r], Addressed(tasks, regs[r].agent), tasks)

\* While the clock never steps back, the inbox of a live registration misses
\* no task.
InboxComplete ==
    ClockBack = 0 =>
        \A r \in DOMAIN regs : regs[r].expires > now =>
            Covers(inbox[r], Addressed(tasks, regs[r].agent))

QueueInv == /\ MembersExact /\ IndexesExact /\ SequenceFresh
            /\ InboxSound /\ InboxComplete /\ LeaseFence

-----------------------------------------------------------------------------
(* What the transitions of a record and the operations on a queue leave.   *)

\* Nothing a broker does to a task changes its place or its message.
Same(old, new) == /\ new.seq = old.seq /\ new.msg = old.msg
                  /\ new.created = old.created

\* The fields the tables look at, after each transition of a TaskRecord.
LEMMA TaskTransitionFields ==
    ASSUME NEW task \in TaskRecord
    PROVE  /\ /\ Same(task, ReleaseLease(task))
              /\ ReleaseLease(task).acked = task.acked
              /\ ReleaseLease(task).term = task.term
              /\ ReleaseLease(task).dlv = NoDelivery
           /\ /\ Same(task, AcknowledgeTask(task))
              /\ AcknowledgeTask(task).acked = TRUE
              /\ AcknowledgeTask(task).term = task.term
           /\ \A d, r, n : /\ Same(task, LeaseTask(task, d, r, n))
                           /\ LeaseTask(task, d, r, n).acked = task.acked
                           /\ LeaseTask(task, d, r, n).term = task.term
                           /\ LeaseTask(task, d, r, n).owner = r
           /\ \A st, p : /\ Same(task, TerminalizeTask(task, st, p))
                         /\ TerminalizeTask(task, st, p).term = now
<1>1. /\ Same(task, ReleaseLease(task))
      /\ ReleaseLease(task).acked = task.acked
      /\ ReleaseLease(task).term = task.term
      /\ ReleaseLease(task).dlv = NoDelivery
  BY Zenon DEF ReleaseLease, TaskRecord, Same
<1>2. /\ Same(task, AcknowledgeTask(task))
      /\ AcknowledgeTask(task).acked = TRUE
      /\ AcknowledgeTask(task).term = task.term
  BY Zenon DEF AcknowledgeTask, TaskRecord, Same
<1>3. ASSUME NEW d, NEW r, NEW n
      PROVE  /\ Same(task, LeaseTask(task, d, r, n))
             /\ LeaseTask(task, d, r, n).acked = task.acked
             /\ LeaseTask(task, d, r, n).term = task.term
             /\ LeaseTask(task, d, r, n).owner = r
  BY Zenon DEF LeaseTask, TaskRecord, Same
<1>4. ASSUME NEW st, NEW p
      PROVE  /\ Same(task, TerminalizeTask(task, st, p))
             /\ TerminalizeTask(task, st, p).term = now
  BY Zenon DEF TerminalizeTask, TaskRecord, Same
<1>5. QED
  BY <1>1, <1>2, <1>3, <1>4, Zenon

\* A queue that loses the tasks T lists, and covers, what is left.
LEMMA QueueShrinks ==
    ASSUME ListLaws, NEW q, NEW S, NEW f, NEW T, NEW g, NEW U,
           Lists(q, S, f), U = S \ T,
           \A t \in U : g[t].seq = f[t].seq
    PROVE  /\ Lists(WithoutEntries(q, T), U, g)
           /\ Covers(q, S) => Covers(WithoutEntries(q, T), U)
<1> DEFINE p == WithoutEntries(q, T)
<1>1. /\ p \in Seq(U)
      /\ \A i \in DOMAIN q : q[i] \notin T => \E k \in DOMAIN p : p[k] = q[i]
      /\ \A k, l \in DOMAIN p : k < l =>
           \E i, j \in DOMAIN q : i < j /\ q[i] = p[k] /\ q[j] = p[l]
  <2>1. q \in Seq(S)
    BY Zenon DEF Lists
  <2>2. LeftOf(p, q, S, T)
    BY <2>1, Zenon DEF ListLaws, FiltersLists
  <2>3. QED
    BY <2>2, Zenon DEF LeftOf
<1> HIDE DEF p
<1>2. \A k \in DOMAIN p : p[k] \in U
  BY <1>1
<1>3. ASSUME NEW k \in DOMAIN p, NEW l \in DOMAIN p, k < l
      PROVE  g[p[k]].seq < g[p[l]].seq
  <2>1. PICK i, j \in DOMAIN q : i < j /\ q[i] = p[k] /\ q[j] = p[l]
    BY <1>1, <1>3, Zenon
  <2>2. f[p[k]].seq < f[p[l]].seq
    BY <2>1, Zenon DEF Lists
  <2>3. g[p[k]].seq = f[p[k]].seq /\ g[p[l]].seq = f[p[l]].seq
    BY <1>2, Zenon
  <2>4. QED
    BY <2>2, <2>3, Zenon
<1>4. ASSUME Covers(q, S)  PROVE  Covers(p, U)
  BY <1>1, <1>4 DEF Covers
<1>5. QED
  BY <1>1, <1>3, <1>4, Zenon DEF Lists, p

\* A queue nobody touches lists what it listed.
LEMMA QueueKept ==
    ASSUME NEW q, NEW S, NEW f, NEW g, Lists(q, S, f),
           \A t \in S : g[t].seq = f[t].seq
    PROVE  Lists(q, S, g)
<1>1. \A i \in DOMAIN q : q[i] \in S
  BY DEF Lists
<1>2. QED
  BY <1>1, Zenon DEF Lists

\* Ending the tasks E keeps the secondary indexes exact: the ended ones leave
\* active_tasks_by_agent and outbound_tasks_by_agent and get a deadline, and
\* only ended tasks leave the table.
LEMMA IndexesKept ==
    ASSUME Inv, Inv', IndexesExact, NEW E, 
           DOMAIN tasks' \subseteq DOMAIN tasks,
           \A t \in DOMAIN tasks \ DOMAIN tasks' : ~Open(tasks[t]),
           \A t \in E : t \in DOMAIN tasks /\ Open(tasks[t]),
           \A t \in DOMAIN tasks' :
             /\ Same(tasks[t], tasks'[t])
             /\ tasks'[t].term = IF t \in E THEN now ELSE tasks[t].term,
           \A a \in Agents : /\ active'[a] = active[a] \ E
                             /\ outbound'[a] = outbound[a] \ E,
           \A t \in E : <<now + TerminalRetention, t>> \in deadlines',
           \A t \in DOMAIN tasks' \ E : ~Open(tasks[t]) =>
             <<tasks[t].term + TerminalRetention, t>> \in deadlines'
    PROVE  IndexesExact'
<1>1. now # NoTime
  BY DEF Inv, TypeOK, NoTime
<1>2. \A t \in DOMAIN tasks' : Open(tasks'[t]) <=> Open(tasks[t]) /\ t \notin E
  BY <1>1, Zenon DEF Open
<1>3. ASSUME NEW a \in Agents
      PROVE  /\ active'[a] = {t \in DOMAIN tasks' : Open(tasks'[t]) /\
                                a \in {tasks'[t].msg.from, tasks'[t].msg.to}}
             /\ outbound'[a] = {t \in DOMAIN tasks' : Open(tasks'[t]) /\
                                  tasks'[t].msg.from = a}
  BY <1>2 DEF IndexesExact, Same
<1>4. ASSUME NEW t \in DOMAIN tasks', ~Open(tasks'[t])
      PROVE  <<tasks'[t].term + TerminalRetention, t>> \in deadlines'
  BY <1>2, <1>4, Zenon
<1>5. QED
  BY <1>3, <1>4, Zenon DEF IndexesExact

\* Taking the tasks T out of the inboxes that hold them, when they are the ones
\* that stop being deliverable, keeps the inboxes exact; so does leaving an
\* inbox alone when none of its tasks is among them.
LEMMA InboxesKept ==
    ASSUME ListLaws, InboxSound, InboxComplete, NEW T,
           DOMAIN regs' \subseteq DOMAIN regs,
           \A t \in DOMAIN tasks' :
             t \in DOMAIN tasks /\ tasks'[t].seq = tasks[t].seq,
           \A r \in DOMAIN regs' :
             /\ regs'[r].agent = regs[r].agent
             /\ ClockBack = 0 /\ regs'[r].expires > now' => regs[r].expires > now
             /\ \/ /\ inbox'[r] = inbox[r]
                   /\ Addressed(tasks', regs[r].agent) = Addressed(tasks, regs[r].agent)
                \/ /\ inbox'[r] = WithoutEntries(inbox[r], T)
                   /\ Addressed(tasks', regs[r].agent)
                        = Addressed(tasks, regs[r].agent) \ T
    PROVE  InboxSound' /\ InboxComplete'
<1>1. ASSUME NEW r \in DOMAIN regs'
      PROVE  /\ Lists(inbox'[r], Addressed(tasks', regs'[r].agent), tasks')
             /\ ClockBack = 0 /\ regs'[r].expires > now' =>
                  Covers(inbox'[r], Addressed(tasks', regs'[r].agent))
  <2> DEFINE S == Addressed(tasks, regs[r].agent)
             U == Addressed(tasks', regs[r].agent)
  <2>1. /\ Lists(inbox[r], S, tasks)
        /\ ClockBack = 0 /\ regs[r].expires > now => Covers(inbox[r], S)
    BY Zenon DEF InboxSound, InboxComplete
  <2>2. \A t \in U : tasks'[t].seq = tasks[t].seq
    BY Zenon DEF Addressed
  <2> HIDE DEF S, U
  <2>3. CASE inbox'[r] = inbox[r] /\ U = S
    BY <2>1, <2>2, <2>3, QueueKept DEF U
  <2>4. CASE inbox'[r] = WithoutEntries(inbox[r], T) /\ U = S \ T
    <3>1. /\ Lists(inbox'[r], U, tasks')
          /\ Covers(inbox[r], S) => Covers(inbox'[r], U)
      BY <2>1, <2>2, <2>4, QueueShrinks
    <3>2. QED
      BY <2>1, <3>1, Zenon DEF U
  <2>5. QED
    BY <2>3, <2>4, Zenon DEF S, U
<1>2. QED
  BY <1>1, Zenon DEF InboxSound, InboxComplete

-----------------------------------------------------------------------------
(* Each action preserves the invariant of the tables.                      *)

\* So does a step that leaves the memory alone: a commit that fails, a request
\* that is only repeated, a transaction that lands late.
LEMMA StillKeepsQueues ==
    ASSUME QueueInv, UNCHANGED <<up, tasks, regs, inbox, byAgent, sequence, active,
                                 outbound, deadlines, grants>>,
           ClockBack = 0 => \A r \in DOMAIN regs : regs[r].expires > now'
                                                    => regs[r].expires > now
    PROVE  QueueInv'
<1>1. MembersExact' /\ IndexesExact' /\ SequenceFresh' /\ LeaseFence'
  BY Zenon DEF QueueInv, MembersExact, IndexesExact, SequenceFresh, LeaseFence, Open,
         Deliverable
<1>2. InboxSound' /\ InboxComplete'
  BY Zenon DEF QueueInv, InboxSound, InboxComplete, Lists, Covers, Addressed, Deliverable,
         Open
<1>3. QED
  BY <1>1, <1>2, Zenon DEF QueueInv

\* commit_transition when it does not return Ok.
LEMMA InterruptedKeepsQueues ==
    ASSUME QueueInv, NEW b, Interrupted(b, TRUE) \/ Interrupted(b, FALSE)
    PROVE  QueueInv'
<1>1. UNCHANGED <<now, up, tasks, regs, inbox, byAgent, sequence, active,
                  outbound, deadlines, grants>>
  BY Zenon DEF Interrupted, memory, index, members
<1>2. QED
  BY <1>1, StillKeepsQueues, Zenon

\* Time passes: a registration that is live afterwards was live before.
LEMMA TickKeepsQueues ==
    ASSUME Inv, QueueInv, Tick
    PROVE  QueueInv'
<1>1. /\ UNCHANGED <<up, tasks, regs, inbox, byAgent, sequence, active, outbound,
                     deadlines, grants>>
      /\ now' \in Nat /\ now' >= now - ClockBack
  BY BrokerAssumption DEF Tick, memory, index, members, history, Inv, TypeOK,
                          BrokerAssumption
<1>2. \A r \in DOMAIN regs : regs[r].expires \in Nat
  BY Zenon DEF Inv, TypeOK, Partial, Registration
<1>3. now \in Nat
  BY Zenon DEF Inv, TypeOK
<1>4. QED
  BY <1>1, <1>2, <1>3, StillKeepsQueues

\* A crash forgets everything, which is exact.
LEMMA CrashKeepsQueues ==
    ASSUME Crash
    PROVE  QueueInv'
<1>1. /\ DOMAIN regs' = {} /\ DOMAIN tasks' = {} /\ DOMAIN byAgent' = {}
      /\ \A a \in Agents : active'[a] = {} /\ outbound'[a] = {}
  BY EmptyPartial, Zenon DEF Crash, NoMemory
<1>2. QED
  BY <1>1, Zenon DEF QueueInv, MembersExact, IndexesExact, SequenceFresh, LeaseFence,
              InboxSound, InboxComplete

\* When maintenance is done, every registration is live.
LEMMA SettledLive ==
    ASSUME Inv, Settled, NEW r \in DOMAIN regs
    PROVE  regs[r].expires > now
<1>1. r \notin Expired /\ regs[r].expires \in Nat /\ now \in Nat
  BY Zenon DEF Settled, Inv, TypeOK, Partial, Registration
<1>2. QED
  BY <1>1 DEF Expired

\* renew moves the expiry of a registration that is live already.
LEMMA RenewKeepsQueues ==
    ASSUME Inv, QueueInv, NEW r \in DOMAIN regs, Renew(r)
    PROVE  QueueInv'
<1>1. /\ UNCHANGED <<up, now, tasks, inbox, byAgent, sequence, active, outbound,
                     deadlines, grants>>
      /\ regs' = [regs EXCEPT ![r] = Renewed(regs[r])]
      /\ Settled
  BY Zenon DEF Renew, store, index, history
<1>2. Renewed(regs[r]).agent = regs[r].agent
  BY Zenon DEF Renewed, Inv, TypeOK, Partial, Registration
<1>3. DOMAIN regs' = DOMAIN regs /\ \A s \in DOMAIN regs : regs'[s].agent = regs[s].agent
  BY <1>1, <1>2, Zenon
<1>4. \A s \in DOMAIN regs : regs[s].expires > now
  BY <1>1, SettledLive, Zenon
<1>5. IndexesExact' /\ SequenceFresh' /\ LeaseFence'
  BY <1>1, Zenon DEF QueueInv, IndexesExact, SequenceFresh, LeaseFence, Open, Deliverable
<1>6. InboxSound' /\ InboxComplete'
  <2>1. \A a : Addressed(tasks', a) = Addressed(tasks, a)
    BY <1>1, Zenon
  <2>2. QED
    BY <1>1, <1>3, <1>4, <2>1, Zenon DEF QueueInv, InboxSound, InboxComplete
<1>7. MembersExact'
  BY <1>1, <1>3 DEF QueueInv, MembersExact
<1>8. QED
  BY <1>5, <1>6, <1>7, Zenon DEF QueueInv

\* Requeueing the leases of lost registrations leaves every task as
\* deliverable as it was.
LEMMA ReleasedFields ==
    ASSUME Inv, NEW R
    PROVE  /\ DOMAIN Released(R) = DOMAIN tasks
           /\ \A t \in DOMAIN tasks :
                /\ Same(tasks[t], Released(R)[t])
                /\ Released(R)[t].acked = tasks[t].acked
                /\ Released(R)[t].term = tasks[t].term
                /\ IF t \in Held(R) THEN Released(R)[t].dlv = NoDelivery
                                    ELSE Released(R)[t] = tasks[t]
           /\ \A a : Addressed(Released(R), a) = Addressed(tasks, a)
<1>1. DOMAIN Released(R) = DOMAIN tasks
  BY Zenon DEF Released
<1>2. ASSUME NEW t \in DOMAIN tasks
      PROVE  /\ Same(tasks[t], Released(R)[t])
             /\ Released(R)[t].acked = tasks[t].acked
             /\ Released(R)[t].term = tasks[t].term
             /\ IF t \in Held(R) THEN Released(R)[t].dlv = NoDelivery
                                 ELSE Released(R)[t] = tasks[t]
  <2>1. tasks[t] \in TaskRecord
    BY Zenon DEF Inv, TypeOK, Partial
  <2>2. Released(R)[t] = IF t \in Held(R) THEN ReleaseLease(tasks[t]) ELSE tasks[t]
    BY Zenon DEF Released
  <2>3. /\ Same(tasks[t], ReleaseLease(tasks[t]))
        /\ ReleaseLease(tasks[t]).acked = tasks[t].acked
        /\ ReleaseLease(tasks[t]).term = tasks[t].term
        /\ ReleaseLease(tasks[t]).dlv = NoDelivery
    BY <2>1, TaskTransitionFields, Zenon
  <2>4. Same(tasks[t], tasks[t])
    BY Zenon DEF Same
  <2>5. QED
    BY <2>2, <2>3, <2>4, Zenon
<1>3. ASSUME NEW a  PROVE  Addressed(Released(R), a) = Addressed(tasks, a)
  BY <1>1, <1>2, Zenon DEF Addressed, Deliverable, Open, Same
<1>4. QED
  BY <1>1, <1>2, <1>3, Zenon

\* What register and remove_registration share: the leases of R end, and
\* neither the order nor the indexes of the tasks change.
LEMMA ReleaseKeepsTables ==
    ASSUME Inv, Inv', QueueInv, NEW R, tasks' = Released(R),
           UNCHANGED <<sequence, active, outbound, deadlines>>
    PROVE  IndexesExact' /\ SequenceFresh'
<1>1. /\ DOMAIN tasks' = DOMAIN tasks
      /\ \A t \in DOMAIN tasks : Same(tasks[t], tasks'[t]) /\ tasks'[t].term = tasks[t].term
  BY ReleasedFields, Zenon
<1>2. SequenceFresh'
  BY <1>1 DEF QueueInv, SequenceFresh, Same
<1>3. IndexesExact'
  BY <1>1 DEF QueueInv, IndexesExact, Open, Same
<1>4. QED
  BY <1>2, <1>3, Zenon

\* remove_registration takes the registration, its inbox and its leases away.
LEMMA RemoveRegistrationKeepsQueues ==
    ASSUME ListLaws, Inv, Inv', QueueInv, NEW r, RemoveRegistration(r)
    PROVE  QueueInv'
<1>1. CASE Interrupted(ReleaseBatch(0, {r}), TRUE) /\ UNCHANGED issued
  BY <1>1, InterruptedKeepsQueues, Zenon
<1>2. CASE /\ Completed(ReleaseBatch(0, {r}))
           /\ tasks' = Released({r})
           /\ regs' = Without(regs, {r})
           /\ inbox' = Without(inbox, {r})
           /\ byAgent' = Without(byAgent, {regs[r].agent})
           /\ UNCHANGED <<sequence, active, outbound, deadlines, grants>>
           /\ ActiveRegistration(r)
  <2>1. IndexesExact' /\ SequenceFresh'
    BY <1>2, ReleaseKeepsTables, Zenon
  <2>2. /\ DOMAIN tasks' = DOMAIN tasks
        /\ \A t \in DOMAIN tasks :
             /\ Same(tasks[t], tasks'[t])
             /\ tasks'[t].acked = tasks[t].acked
             /\ tasks'[t].term = tasks[t].term
             /\ IF t \in Held({r}) THEN tasks'[t].dlv = NoDelivery
                                   ELSE tasks'[t] = tasks[t]
        /\ \A a : Addressed(tasks', a) = Addressed(tasks, a)
    BY <1>2, ReleasedFields, Zenon
  <2>3. UNCHANGED <<up, now>>
    BY <1>2, Zenon DEF Completed
  <2>4. /\ DOMAIN regs' = DOMAIN regs \ {r} /\ DOMAIN inbox = DOMAIN regs
        /\ \A s \in DOMAIN regs' : regs'[s] = regs[s] /\ inbox'[s] = inbox[s]
        /\ DOMAIN byAgent' = DOMAIN byAgent \ {regs[r].agent}
        /\ \A a \in DOMAIN byAgent' : byAgent'[a] = byAgent[a]
    BY <1>2, Zenon DEF Without, Inv, TypeOK
  <2>5. MembersExact'
    <3>1. MembersExact /\ r \in DOMAIN regs
      BY <1>2, Zenon DEF QueueInv, ActiveRegistration
    <3>2. ASSUME NEW s \in DOMAIN regs'
          PROVE  /\ s <= Len(grants') /\ regs'[s].agent \in DOMAIN byAgent'
                 /\ byAgent'[regs'[s].agent] = s
      <4>1. s \in DOMAIN regs /\ s # r /\ regs'[s] = regs[s]
        BY <2>4, Zenon
      <4>2. /\ s <= Len(grants) /\ regs[s].agent \in DOMAIN byAgent
            /\ byAgent[regs[s].agent] = s /\ byAgent[regs[r].agent] = r
        BY <3>1, <4>1, Zenon DEF MembersExact
      <4>3. regs[s].agent # regs[r].agent /\ grants' = grants
        BY <1>2, <4>1, <4>2, Zenon
      <4>4. QED
        BY <2>4, <4>1, <4>2, <4>3, Zenon
    <3>3. ASSUME NEW a \in DOMAIN byAgent'
          PROVE  byAgent'[a] \in DOMAIN regs' /\ regs'[byAgent'[a]].agent = a
      BY <2>4, <3>1 DEF MembersExact
    <3>4. ~up' => DOMAIN regs' = {} /\ DOMAIN tasks' = {}
      BY <2>2, <2>3, <2>4, <3>1, Zenon DEF MembersExact
    <3>5. QED
      BY <3>2, <3>3, <3>4, Zenon DEF MembersExact
  <2>6. InboxSound' /\ InboxComplete'
    <3>1. /\ InboxSound /\ InboxComplete
          /\ DOMAIN regs' \subseteq DOMAIN regs
          /\ \A t \in DOMAIN tasks' :
               t \in DOMAIN tasks /\ tasks'[t].seq = tasks[t].seq
          /\ \A s \in DOMAIN regs' :
               /\ regs'[s].agent = regs[s].agent /\ inbox'[s] = inbox[s]
               /\ Addressed(tasks', regs[s].agent) = Addressed(tasks, regs[s].agent)
               /\ regs'[s].expires > now' => regs[s].expires > now
      BY <2>2, <2>3, <2>4, Zenon DEF QueueInv, Same
    <3>2. QED
      BY <3>1, InboxesKept, Zenon
  <2>7. LeaseFence'
    <3>1. ASSUME NEW t \in DOMAIN tasks', Deliverable(tasks'[t]),
                 tasks'[t].dlv # NoDelivery
          PROVE  /\ tasks'[t].msg.to \in DOMAIN byAgent'
                 /\ tasks'[t].owner = byAgent'[tasks'[t].msg.to]
      <4>1. t \notin Held({r}) /\ tasks'[t] = tasks[t] /\ t \in DOMAIN tasks
        BY <2>2, <3>1, Zenon
      <4>2. /\ tasks[t].msg.to \in DOMAIN byAgent
            /\ tasks[t].owner = byAgent[tasks[t].msg.to]
            /\ tasks[t].owner # r
        BY <3>1, <4>1, Zenon DEF QueueInv, LeaseFence, Held, LeasedBy, Deliverable
      <4>3. byAgent[regs[r].agent] = r
        BY <1>2, Zenon DEF ActiveRegistration
      <4>4. tasks[t].msg.to \in DOMAIN byAgent'
        BY <2>4, <4>2, <4>3, Zenon
      <4>5. QED
        BY <2>4, <4>1, <4>2, <4>4, Zenon
    <3>2. QED
      BY <3>1, Zenon DEF LeaseFence
  <2>8. QED
    BY <2>1, <2>5, <2>6, <2>7, Zenon DEF QueueInv
<1>3. QED
  BY <1>1, <1>2, Zenon DEF RemoveRegistration, history

\* Sorting tasks by their sequence numbers gives a queue of exactly them.
LEMMA SortedTasks ==
    ASSUME ListLaws, Inv, SequenceFresh, NEW T \in SUBSET DOMAIN tasks
    PROVE  /\ Lists(Ordered(T, BySequence), T, tasks)
           /\ Covers(Ordered(T, BySequence), T)
<1>1. T \subseteq TaskIds /\ \A t \in T : tasks[t].seq \in Nat
  BY Zenon DEF Inv, TypeOK, Partial, TaskRecord
<1>2. IsFiniteSet(T)
  BY <1>1, TasksCount, Zenon DEF CountsTasks
<1>3. \A t, u \in T : <<t, u>> \in BySequence <=> tasks[t].seq < tasks[u].seq
  BY Zenon DEF BySequence
<1>4. Orders(BySequence, T)
  <2>1. \A t, u \in T : t # u => tasks[t].seq # tasks[u].seq
    BY Zenon DEF SequenceFresh
  <2>2. QED
    BY <1>1, <1>2, <1>3, <2>1 DEF Orders
<1> DEFINE q == Ordered(T, BySequence)
<1>5. /\ q \in Seq(T)
      /\ \A x \in T : \E i \in DOMAIN q : q[i] = x
      /\ \A i, j \in DOMAIN q : i < j => <<q[i], q[j]>> \in BySequence
  BY <1>4, Zenon DEF ListLaws, SortsSets, ListedBy
<1> HIDE DEF q
<1>6. \A i \in DOMAIN q : q[i] \in T
  BY <1>5
<1>7. \A i, j \in DOMAIN q : i < j => tasks[q[i]].seq < tasks[q[j]].seq
  BY <1>3, <1>5, <1>6, Zenon
<1>8. Lists(q, T, tasks) /\ Covers(q, T)
  BY <1>5, <1>7, Zenon DEF Lists, Covers
<1>9. QED
  BY <1>8, Zenon DEF q

\* register replaces the registration of the agent; the inbox of the new one
\* is filled from active_tasks_by_agent.
LEMMA RegisterKeepsQueues ==
    ASSUME ListLaws, Inv, Inv', QueueInv, NEW a \in Agents, Register(a)
    PROVE  QueueInv'
<1> DEFINE id == Len(grants) + 1
           old == IF a \in DOMAIN byAgent THEN {byAgent[a]} ELSE {}
           batch == ReleaseBatch(epoch + 1, old)
           queued == {t \in active[a] :
                        tasks[t].msg.to = a /\ Deliverable(tasks[t])}
           new == [agent |-> a, epoch |-> epoch + 1,
                   expires |-> now + RegistrationTtl]
<1>1. CASE Interrupted(batch, TRUE) /\ UNCHANGED issued
  BY <1>1, InterruptedKeepsQueues, Zenon
<1>2. CASE /\ Completed(batch)
           /\ tasks' = Released(old)
           /\ regs' = Insert(Without(regs, old), id, new)
           /\ inbox' = Insert(Without(inbox, old), id, Ordered(queued, BySequence))
           /\ byAgent' = Insert(byAgent, a, id)
           /\ grants' = Append(grants, epoch + 1)
           /\ UNCHANGED <<sequence, active, outbound, deadlines>>
           /\ Settled
  <2>1. IndexesExact' /\ SequenceFresh'
    BY <1>2, ReleaseKeepsTables, Zenon
  <2>2. /\ DOMAIN tasks' = DOMAIN tasks
        /\ \A t \in DOMAIN tasks :
             /\ Same(tasks[t], tasks'[t])
             /\ tasks'[t].acked = tasks[t].acked
             /\ tasks'[t].term = tasks[t].term
             /\ IF t \in Held(old) THEN tasks'[t].dlv = NoDelivery
                                   ELSE tasks'[t] = tasks[t]
        /\ \A b : Addressed(tasks', b) = Addressed(tasks, b)
    BY <1>2, ReleasedFields, Zenon
  <2>3. UNCHANGED <<up, now>> /\ up
    BY <1>2, Zenon DEF Completed, Settled
  <2>4. queued = Addressed(tasks, a)
    BY Zenon DEF QueueInv, IndexesExact, Addressed, Deliverable
  <2>5. id \in Nat /\ Len(grants) \in Nat /\ Len(grants') = id
    BY <1>2 DEF Inv, TypeOK
  <2> HIDE DEF id, queued, old
  <2>6. /\ DOMAIN regs' = (DOMAIN regs \ old) \cup {id} /\ DOMAIN inbox = DOMAIN regs
        /\ \A s \in DOMAIN regs' : s # id => regs'[s] = regs[s] /\ inbox'[s] = inbox[s]
        /\ regs'[id] = new /\ inbox'[id] = Ordered(queued, BySequence)
        /\ DOMAIN byAgent' = DOMAIN byAgent \cup {a}
        /\ byAgent'[a] = id
        /\ \A b \in DOMAIN byAgent : b # a => byAgent'[b] = byAgent[b]
    BY <1>2, Zenon DEF Insert, Without, Inv, TypeOK
  <2>7. \A s \in DOMAIN regs : s \in old <=> regs[s].agent = a
    BY Zenon DEF old, QueueInv, MembersExact
  <2>8. MembersExact'
    <3>1. MembersExact /\ \A s \in DOMAIN regs : s \in Nat
      BY Zenon DEF QueueInv, Inv, TypeOK, Partial
    <3>2. ASSUME NEW s \in DOMAIN regs'
          PROVE  /\ s <= Len(grants') /\ regs'[s].agent \in DOMAIN byAgent'
                 /\ byAgent'[regs'[s].agent] = s
      <4>1. CASE s = id
        BY <2>5, <2>6, <4>1
      <4>2. CASE s # id
        <5>1. s \in DOMAIN regs /\ regs'[s] = regs[s] /\ regs[s].agent # a
          BY <2>6, <2>7, <4>2, Zenon
        <5>2. /\ s <= Len(grants) /\ regs[s].agent \in DOMAIN byAgent
              /\ byAgent[regs[s].agent] = s
          BY <3>1, <5>1, Zenon DEF MembersExact
        <5>3. s <= Len(grants')
          BY <2>5, <3>1, <5>1, <5>2 DEF id
        <5>4. QED
          BY <2>6, <5>1, <5>2, <5>3, Zenon
      <4>3. QED
        BY <4>1, <4>2, Zenon
    <3>3. ASSUME NEW b \in DOMAIN byAgent'
          PROVE  byAgent'[b] \in DOMAIN regs' /\ regs'[byAgent'[b]].agent = b
      <4>1. CASE b = a
        BY <2>6, <4>1
      <4>2. CASE b # a
        <5>1. /\ byAgent'[b] = byAgent[b] /\ byAgent[b] \in DOMAIN regs
              /\ regs[byAgent[b]].agent = b
          BY <2>6, <3>1, <4>2, Zenon DEF MembersExact
        <5>2. byAgent[b] <= Len(grants)
          BY <3>1, <5>1, Zenon DEF MembersExact
        <5>3. byAgent[b] # id
          BY <2>5, <3>1, <5>1, <5>2 DEF id
        <5>4. QED
          BY <2>6, <2>7, <4>2, <5>1, <5>3
      <4>3. QED
        BY <4>1, <4>2, Zenon
    <3>4. QED
      BY <2>3, <3>2, <3>3, Zenon DEF MembersExact
  <2>9. InboxSound' /\ InboxComplete'
    <3>1. ASSUME NEW s \in DOMAIN regs'
          PROVE  /\ Lists(inbox'[s], Addressed(tasks', regs'[s].agent), tasks')
                 /\ ClockBack = 0 /\ regs'[s].expires > now' =>
                      Covers(inbox'[s], Addressed(tasks', regs'[s].agent))
      <4>1. \A b : \A t \in Addressed(tasks, b) : tasks'[t].seq = tasks[t].seq
        BY <2>2, Zenon DEF Addressed, Same
      <4>2. CASE s = id
        <5>1. Addressed(tasks, a) \in SUBSET DOMAIN tasks
          BY Zenon DEF Addressed
        <5>2. /\ Lists(inbox'[s], Addressed(tasks, a), tasks)
              /\ Covers(inbox'[s], Addressed(tasks, a))
          BY <2>4, <2>6, <4>2, <5>1, SortedTasks, Zenon DEF QueueInv
        <5>3. QED
          BY <2>2, <2>6, <4>1, <4>2, <5>2, QueueKept
      <4>3. CASE s # id
        <5>1. s \in DOMAIN regs /\ regs'[s] = regs[s] /\ inbox'[s] = inbox[s]
          BY <2>6, <4>3, Zenon
        <5>2. /\ Lists(inbox[s], Addressed(tasks, regs[s].agent), tasks)
              /\ ClockBack = 0 /\ regs[s].expires > now =>
                   Covers(inbox[s], Addressed(tasks, regs[s].agent))
          BY <5>1, Zenon DEF QueueInv, InboxSound, InboxComplete
        <5>3. QED
          BY <2>2, <2>3, <4>1, <5>1, <5>2, QueueKept
      <4>4. QED
        BY <4>2, <4>3, Zenon
    <3>2. QED
      BY <3>1, Zenon DEF InboxSound, InboxComplete
  <2>10. LeaseFence'
    <3>1. ASSUME NEW t \in DOMAIN tasks', Deliverable(tasks'[t]),
                 tasks'[t].dlv # NoDelivery
          PROVE  /\ tasks'[t].msg.to \in DOMAIN byAgent'
                 /\ tasks'[t].owner = byAgent'[tasks'[t].msg.to]
      <4>1. t \notin Held(old) /\ tasks'[t] = tasks[t] /\ t \in DOMAIN tasks
        BY <2>2, <3>1, Zenon
      <4>2. /\ tasks[t].msg.to \in DOMAIN byAgent
            /\ tasks[t].owner = byAgent[tasks[t].msg.to]
            /\ tasks[t].owner \notin old
        BY <3>1, <4>1, Zenon DEF QueueInv, LeaseFence, Held, LeasedBy, Deliverable
      <4>3. tasks[t].msg.to # a
        BY <4>2, Zenon DEF old
      <4>4. QED
        BY <2>6, <4>1, <4>2, <4>3, Zenon
    <3>2. QED
      BY <3>1, Zenon DEF LeaseFence
  <2>11. QED
    BY <2>1, <2>8, <2>9, <2>10, Zenon DEF QueueInv
<1>3. QED
  BY <1>1, <1>2, Zenon DEF Register

\* enqueue puts the new task at the end of the inbox of the recipient's
\* registration and into the indexes of both agents.
LEMMA EnqueueKeepsQueues ==
    ASSUME Inv, Inv', QueueInv, NEW r, NEW t \in TaskIds, NEW m \in Messages,
           Enqueue(r, t, m)
    PROVE  QueueInv'
<1> DEFINE batch == OneRow(t, QueuedRow(m, now))
           fresh == NewTask(m, now, sequence + 1)
<1>1. CASE Interrupted(batch, FALSE) /\ UNCHANGED issued
  BY <1>1, InterruptedKeepsQueues, Zenon
<1>2. CASE /\ Completed(batch)
           /\ sequence' = sequence + 1
           /\ inbox' = [inbox EXCEPT ![byAgent[m.to]] = Append(inbox[byAgent[m.to]], t)]
           /\ active' = [a \in Agents |-> IF a \in {m.from, m.to}
                                            THEN active[a] \cup {t}
                                            ELSE active[a]]
           /\ outbound' = [outbound EXCEPT ![m.from] = outbound[m.from] \cup {t}]
           /\ tasks' = Insert(tasks, t, fresh)
           /\ UNCHANGED <<regs, byAgent, deadlines, grants>>
           /\ LiveRegistration(m.to) # NoRegistration
           /\ Settled
           /\ t \notin DOMAIN tasks
  <2>1. UNCHANGED <<up, now>> /\ up
    BY <1>2, Zenon DEF Completed, Settled
  <2>2. /\ fresh.seq = sequence + 1 /\ fresh.msg = m /\ Open(fresh)
        /\ Deliverable(fresh) /\ fresh.dlv = NoDelivery
    BY Zenon DEF NewTask, Open, Deliverable
  <2> HIDE DEF fresh
  <2>3. /\ DOMAIN tasks' = DOMAIN tasks \cup {t} /\ tasks'[t] = fresh
        /\ \A u \in DOMAIN tasks : tasks'[u] = tasks[u] /\ u # t
    BY <1>2, Zenon DEF Insert
  <2>4. sequence \in Nat /\ \A u \in DOMAIN tasks : tasks[u].seq \in Nat
    BY Zenon DEF Inv, TypeOK, Partial, TaskRecord
  <2>5. /\ m.to \in DOMAIN byAgent /\ byAgent[m.to] \in DOMAIN regs
        /\ \A s \in DOMAIN regs : regs[s].agent = m.to <=> s = byAgent[m.to]
    BY <1>2, Zenon DEF LiveRegistration, QueueInv, MembersExact
  <2>6. MembersExact'
    BY <1>2, <2>1, Zenon DEF QueueInv, MembersExact
  <2>7. SequenceFresh'
    BY <1>2, <2>2, <2>3, <2>4 DEF QueueInv, SequenceFresh
  <2>8. IndexesExact'
    <3>1. ASSUME NEW a \in Agents
          PROVE  /\ active'[a] = {u \in DOMAIN tasks' : Open(tasks'[u]) /\
                                    a \in {tasks'[u].msg.from, tasks'[u].msg.to}}
                 /\ outbound'[a] = {u \in DOMAIN tasks' : Open(tasks'[u]) /\
                                      tasks'[u].msg.from = a}
      <4>1. active[a] = {u \in DOMAIN tasks : Open(tasks[u]) /\
                           a \in {tasks[u].msg.from, tasks[u].msg.to}}
        BY Zenon DEF QueueInv, IndexesExact
      <4>2. outbound[a] = {u \in DOMAIN tasks : Open(tasks[u]) /\
                             tasks[u].msg.from = a}
        BY Zenon DEF QueueInv, IndexesExact
      <4>3. active'[a] = IF a \in {m.from, m.to} THEN active[a] \cup {t} ELSE active[a]
        BY <1>2, Zenon
      <4>4. outbound'[a] = IF a = m.from THEN outbound[a] \cup {t} ELSE outbound[a]
        BY <1>2, Zenon DEF Inv, TypeOK
      <4>5. QED
        BY <2>2, <2>3, <4>1, <4>2, <4>3, <4>4
    <3>2. \A u \in DOMAIN tasks' : ~Open(tasks'[u]) =>
            <<tasks'[u].term + TerminalRetention, u>> \in deadlines'
      BY <1>2, <2>2, <2>3, Zenon DEF QueueInv, IndexesExact
    <3>3. QED
      BY <3>1, <3>2, Zenon DEF IndexesExact
  <2>9. LeaseFence'
    BY <1>2, <2>2, <2>3, Zenon DEF QueueInv, LeaseFence
  <2>10. \A a : Addressed(tasks', a) = IF a = m.to THEN Addressed(tasks, a) \cup {t}
                                                   ELSE Addressed(tasks, a)
    BY <2>2, <2>3, Zenon DEF Addressed
  <2>11. InboxSound' /\ InboxComplete'
    <3>1. ASSUME NEW s \in DOMAIN regs
          PROVE  /\ Lists(inbox'[s], Addressed(tasks', regs[s].agent), tasks')
                 /\ ClockBack = 0 /\ regs[s].expires > now =>
                      Covers(inbox'[s], Addressed(tasks', regs[s].agent))
      <4> DEFINE q == inbox[s]
                 S == Addressed(tasks, regs[s].agent)
      <4>1. /\ Lists(q, S, tasks)
            /\ ClockBack = 0 /\ regs[s].expires > now => Covers(q, S)
        BY Zenon DEF QueueInv, InboxSound, InboxComplete
      <4>2. \A u \in S : u \in DOMAIN tasks /\ tasks'[u] = tasks[u]
        BY <2>3, Zenon DEF Addressed
      <4>3. DOMAIN inbox = DOMAIN regs
        BY Zenon DEF Inv, TypeOK
      <4> HIDE DEF S
      <4>4. CASE s # byAgent[m.to]
        <5>1. inbox'[s] = q /\ Addressed(tasks', regs[s].agent) = S
          BY <1>2, <2>5, <2>10, <4>4 DEF S
        <5>2. QED
          BY <4>1, <4>2, <5>1, QueueKept, Zenon
      <4>5. CASE s = byAgent[m.to]
        <5>1. inbox'[s] = Append(q, t)
          BY <1>2, <4>3, <4>5, Zenon
        <5>2. Addressed(tasks', regs[s].agent) = S \cup {t}
          BY <2>5, <2>10, <4>5, Zenon DEF S
        <5> HIDE DEF q
        <5> DEFINE p == Append(q, t)
        <5>3. /\ q \in Seq(S) /\ Len(q) \in Nat /\ DOMAIN q = 1 .. Len(q)
              /\ \A i \in DOMAIN q : q[i] \in S
          BY <4>1 DEF Lists
        <5>4. /\ p \in Seq(S \cup {t}) /\ DOMAIN p = 1 .. (Len(q) + 1)
              /\ \A i \in DOMAIN q : p[i] = q[i]
              /\ p[Len(q) + 1] = t
          BY <5>3
        <5> HIDE DEF p
        <5>5. ASSUME NEW i \in DOMAIN p, NEW j \in DOMAIN p, i < j
              PROVE  tasks'[p[i]].seq < tasks'[p[j]].seq
          <6>1. i \in DOMAIN q /\ p[i] = q[i] /\ q[i] \in S
            BY <5>3, <5>4, <5>5
          <6>2. CASE j \in DOMAIN q
            <7>1. p[j] = q[j] /\ q[j] \in S
              BY <5>3, <5>4, <6>2, Zenon
            <7>2. tasks[q[i]].seq < tasks[q[j]].seq
              BY <4>1, <5>5, <6>1, <6>2, Zenon DEF Lists
            <7>3. QED
              BY <4>2, <6>1, <7>1, <7>2, Zenon
          <6>3. CASE j = Len(q) + 1
            <7>1. p[j] = t /\ tasks'[t].seq = sequence + 1
              BY <2>2, <2>3, <5>4, <6>3, Zenon
            <7>2. tasks[q[i]].seq <= sequence /\ tasks[q[i]].seq \in Nat
              BY <2>4, <4>2, <6>1, Zenon DEF QueueInv, SequenceFresh
            <7>3. QED
              BY <2>4, <4>2, <6>1, <7>1, <7>2
          <6>4. QED
            BY <5>3, <5>4, <6>2, <6>3
        <5>6. Lists(p, S \cup {t}, tasks')
          BY <5>4, <5>5, Zenon DEF Lists
        <5>7. Covers(q, S) => Covers(p, S \cup {t})
          BY <5>3, <5>4 DEF Covers
        <5>8. QED
          BY <4>1, <5>1, <5>2, <5>6, <5>7, Zenon DEF p
      <4>6. QED
        BY <4>4, <4>5, Zenon
    <3>2. QED
      BY <1>2, <2>1, <3>1, Zenon DEF InboxSound, InboxComplete
  <2>12. QED
    BY <2>6, <2>7, <2>8, <2>9, <2>11, Zenon DEF QueueInv
<1>3. QED
  BY <1>1, <1>2, Zenon DEF Enqueue, history

\* A step that replaces one record without moving or ending it, and keeps the
\* registrations and the indexes, keeps their agreement with the table.
LEMMA OneRecordKept ==
    ASSUME QueueInv, NEW t \in DOMAIN tasks, NEW task,
           tasks' = [tasks EXCEPT ![t] = task],
           Same(tasks[t], task), task.term = tasks[t].term,
           UNCHANGED <<up, regs, byAgent, sequence, active, outbound, deadlines,
                       grants>>
    PROVE  /\ MembersExact' /\ SequenceFresh' /\ IndexesExact'
           /\ DOMAIN tasks' = DOMAIN tasks /\ tasks'[t] = task
           /\ \A u \in DOMAIN tasks : /\ Same(tasks[u], tasks'[u])
                                      /\ tasks'[u].term = tasks[u].term
                                      /\ u # t => tasks'[u] = tasks[u]
<1>1. /\ DOMAIN tasks' = DOMAIN tasks /\ tasks'[t] = task
      /\ \A u \in DOMAIN tasks : /\ Same(tasks[u], tasks'[u])
                                 /\ tasks'[u].term = tasks[u].term
                                 /\ u # t => tasks'[u] = tasks[u]
  BY Zenon DEF Same
<1>2. MembersExact'
  BY <1>1, Zenon DEF QueueInv, MembersExact
<1>3. SequenceFresh'
  BY <1>1 DEF QueueInv, SequenceFresh, Same
<1>4. IndexesExact'
  BY <1>1 DEF QueueInv, IndexesExact, Open, Same
<1>5. QED
  BY <1>1, <1>2, <1>3, <1>4, Zenon

\* poll_delivery leases a task of the registration's own inbox, so the lease
\* belongs to the current registration of the recipient.
LEMMA PollDeliveryKeepsQueues ==
    ASSUME ListLaws, Inv, Inv', QueueInv, NEW r \in DOMAIN regs, PollDelivery(r)
    PROVE  QueueInv'
<1>1. PICK i \in DOMAIN inbox[r] :
        LET t == inbox[r][i]
            task == tasks[t]
            d == issued + 1
            attempt == task.last + 1
            batch == OneRow(t, LeasedRow(DurableTask(task), d, now, attempt))
        IN  /\ Leasable(t)
            /\ \/ /\ Completed(batch)
                  /\ tasks' = [tasks EXCEPT ![t] = LeaseTask(tasks[t], d, r, attempt)]
                  /\ UNCHANGED <<sequence, members, active, outbound, deadlines,
                                 grants>>
               \/ Interrupted(batch, TRUE)
  BY Zenon DEF PollDelivery
<1> DEFINE t == inbox[r][i]
           d == issued + 1
           attempt == tasks[t].last + 1
           batch == OneRow(t, LeasedRow(DurableTask(tasks[t]), d, now, attempt))
           task == LeaseTask(tasks[t], d, r, attempt)
<1>2. CASE Interrupted(batch, TRUE)
  BY <1>2, InterruptedKeepsQueues, Zenon
<1>3. CASE /\ Completed(batch)
           /\ tasks' = [tasks EXCEPT ![t] = task]
           /\ UNCHANGED <<sequence, members, active, outbound, deadlines, grants>>
  <2>1. UNCHANGED <<up, now, regs, inbox, byAgent>>
    BY <1>3, Zenon DEF Completed, members
  <2>2. t \in DOMAIN tasks /\ tasks[t] \in TaskRecord
    BY <1>1, Zenon DEF Leasable, Inv, TypeOK, Partial
  <2>3. tasks[t].msg.to = regs[r].agent
    <3>1. inbox[r] \in Seq(Addressed(tasks, regs[r].agent))
      BY Zenon DEF QueueInv, InboxSound, Lists
    <3>2. t \in Addressed(tasks, regs[r].agent)
      BY <3>1
    <3>3. QED
      BY <3>2, Zenon DEF Addressed
  <2>4. regs[r].agent \in DOMAIN byAgent /\ byAgent[regs[r].agent] = r
    BY Zenon DEF QueueInv, MembersExact
  <2>5. /\ Same(tasks[t], task) /\ task.acked = tasks[t].acked
        /\ task.term = tasks[t].term /\ task.owner = r
    <3> HIDE DEF t, d, attempt
    <3>1. \A x, y, n : /\ Same(tasks[t], LeaseTask(tasks[t], x, y, n))
                       /\ LeaseTask(tasks[t], x, y, n).acked = tasks[t].acked
                       /\ LeaseTask(tasks[t], x, y, n).term = tasks[t].term
                       /\ LeaseTask(tasks[t], x, y, n).owner = y
      BY <2>2, TaskTransitionFields, Zenon
    <3>2. QED
      BY <3>1, ZenonT(30)
  <2> HIDE DEF t, task
  <2>6. /\ MembersExact' /\ SequenceFresh' /\ IndexesExact'
        /\ DOMAIN tasks' = DOMAIN tasks /\ tasks'[t] = task
        /\ \A u \in DOMAIN tasks : /\ Same(tasks[u], tasks'[u])
                                   /\ tasks'[u].term = tasks[u].term
                                   /\ u # t => tasks'[u] = tasks[u]
    BY <1>3, <2>1, <2>2, <2>5, OneRecordKept, Zenon
  <2>7. LeaseFence'
    <3>1. ASSUME NEW u \in DOMAIN tasks', Deliverable(tasks'[u]),
                 tasks'[u].dlv # NoDelivery
          PROVE  /\ tasks'[u].msg.to \in DOMAIN byAgent'
                 /\ tasks'[u].owner = byAgent'[tasks'[u].msg.to]
      <4>1. CASE u = t
        BY <2>1, <2>3, <2>4, <2>5, <2>6, <4>1, Zenon DEF Same
      <4>2. CASE u # t
        BY <2>1, <2>6, <3>1, <4>2, Zenon DEF QueueInv, LeaseFence
      <4>3. QED
        BY <4>1, <4>2, Zenon
    <3>2. QED
      BY <3>1, Zenon DEF LeaseFence
  <2>8. \A a : Addressed(tasks', a) = Addressed(tasks, a)
    <3>1. \A u \in DOMAIN tasks : /\ Deliverable(tasks'[u]) <=> Deliverable(tasks[u])
                                 /\ tasks'[u].msg = tasks[u].msg
      BY <2>5, <2>6, Zenon DEF Deliverable, Open, Same
    <3>2. QED
      BY <2>6, <3>1, Zenon DEF Addressed
  <2>9. InboxSound' /\ InboxComplete'
    <3>1. /\ InboxSound /\ InboxComplete
          /\ DOMAIN regs' \subseteq DOMAIN regs
          /\ \A u \in DOMAIN tasks' :
               u \in DOMAIN tasks /\ tasks'[u].seq = tasks[u].seq
          /\ \A s \in DOMAIN regs' :
               /\ regs'[s].agent = regs[s].agent /\ inbox'[s] = inbox[s]
               /\ Addressed(tasks', regs[s].agent) = Addressed(tasks, regs[s].agent)
               /\ regs'[s].expires > now' => regs[s].expires > now
      BY <2>1, <2>6, <2>8, Zenon DEF QueueInv, Same
    <3>2. QED
      BY <3>1, InboxesKept, Zenon
  <2>10. QED
    BY <2>6, <2>7, <2>9, Zenon DEF QueueInv
<1>4. QED
  BY <1>1, <1>2, <1>3, Zenon

\* ack_delivery takes the task out of the inbox of the registration that holds
\* the lease, which is the only one that lists it.
LEMMA AckDeliveryKeepsQueues ==
    ASSUME ListLaws, Inv, Inv', QueueInv, NEW r, NEW d, AckDelivery(r, d)
    PROVE  QueueInv'
<1> DEFINE t == byDelivery[d]
           batch == OneRow(t, AcknowledgedRow(DurableTask(tasks[t]), now))
           task == AcknowledgeTask(tasks[t])
<1>1. CASE Interrupted(batch, TRUE)
  BY <1>1, InterruptedKeepsQueues, Zenon
<1>2. CASE /\ Completed(batch)
           /\ tasks' = [tasks EXCEPT ![t] = task]
           /\ inbox' = [inbox EXCEPT ![r] = WithoutEntries(inbox[r], {t})]
           /\ UNCHANGED <<sequence, index, regs, byAgent, grants>>
           /\ ActiveRegistration(r)
           /\ d \in DOMAIN byDelivery
           /\ tasks[t].dlv = d
           /\ Deliverable(tasks[t])
           /\ tasks[t].owner = r
  <2>1. UNCHANGED <<up, now, active, outbound, deadlines>>
    BY <1>2, Zenon DEF Completed, index
  <2>2. /\ t \in DOMAIN tasks /\ tasks[t] \in TaskRecord /\ d # NoDelivery
        /\ DOMAIN inbox = DOMAIN regs /\ r \in DOMAIN regs
    BY <1>2, Zenon DEF Inv, DeliveryIndexExact, TypeOK, Partial, NoDelivery,
                ActiveRegistration
  <2>3. \A s \in DOMAIN regs : regs[s].agent = tasks[t].msg.to <=> s = r
    BY <1>2, <2>2 DEF QueueInv, LeaseFence, MembersExact
  <2>4. Same(tasks[t], task) /\ task.acked /\ task.term = tasks[t].term
    BY <2>2, TaskTransitionFields, Zenon
  <2> HIDE DEF t, task
  <2>5. /\ MembersExact' /\ SequenceFresh' /\ IndexesExact'
        /\ DOMAIN tasks' = DOMAIN tasks /\ tasks'[t] = task
        /\ \A u \in DOMAIN tasks : /\ Same(tasks[u], tasks'[u])
                                   /\ tasks'[u].term = tasks[u].term
                                   /\ u # t => tasks'[u] = tasks[u]
    BY <1>2, <2>1, <2>2, <2>4, OneRecordKept, Zenon
  <2>6. LeaseFence'
    BY <1>2, <2>4, <2>5, Zenon DEF QueueInv, LeaseFence, Deliverable
  <2>7. \A a : Addressed(tasks', a) = Addressed(tasks, a) \ {t}
    <3>1. ASSUME NEW u \in DOMAIN tasks
          PROVE  /\ Deliverable(tasks'[u]) <=> Deliverable(tasks[u]) /\ u # t
                 /\ tasks'[u].msg = tasks[u].msg
      BY <2>4, <2>5, Zenon DEF Deliverable, Same
    <3>2. QED
      BY <2>5, <3>1 DEF Addressed
  <2>8. InboxSound' /\ InboxComplete'
    <3>1. ASSUME NEW s \in DOMAIN regs, s # r
          PROVE  Addressed(tasks', regs[s].agent) = Addressed(tasks, regs[s].agent)
      BY <2>3, <2>7, <3>1, Zenon DEF Addressed
    <3>2. /\ InboxSound /\ InboxComplete
          /\ DOMAIN regs' \subseteq DOMAIN regs
          /\ \A u \in DOMAIN tasks' :
               u \in DOMAIN tasks /\ tasks'[u].seq = tasks[u].seq
          /\ \A s \in DOMAIN regs' :
               /\ regs'[s].agent = regs[s].agent
               /\ regs'[s].expires > now' => regs[s].expires > now
               /\ \/ /\ inbox'[s] = inbox[s]
                     /\ Addressed(tasks', regs[s].agent)
                          = Addressed(tasks, regs[s].agent)
                  \/ /\ inbox'[s] = WithoutEntries(inbox[s], {t})
                     /\ Addressed(tasks', regs[s].agent)
                          = Addressed(tasks, regs[s].agent) \ {t}
      BY <1>2, <2>1, <2>2, <2>5, <2>7, <3>1, Zenon DEF QueueInv, Same
    <3>3. QED
      BY <3>2, InboxesKept, Zenon
  <2>9. QED
    BY <2>5, <2>6, <2>8, Zenon DEF QueueInv
<1>3. QED
  BY <1>1, <1>2, Zenon DEF AckDelivery

\* reply, recipient_terminal and cancel_task take the task out of its
\* recipient's inbox and out of the indexes.
LEMMA EndKeepsQueues ==
    ASSUME ListLaws, Inv, Inv', QueueInv, NEW r, NEW t, NEW st, NEW p, End(r, t, st, p)
    PROVE  QueueInv'
<1> DEFINE batch == OneRow(t, TerminalRow(DurableTask(tasks[t]), now, st, p))
           task == TerminalizeTask(tasks[t], st, p)
           to == tasks[t].msg.to
<1>1. t \in DOMAIN tasks /\ tasks[t] \in TaskRecord
  BY Zenon DEF End, Inv, TypeOK, Partial
<1>2. CASE Repeated(t, st, p)
  <2>1. UNCHANGED <<now, up, tasks, regs, inbox, byAgent, sequence, active,
                    outbound, deadlines, grants>>
    BY <1>2, Zenon DEF Repeated, memory, index, members
  <2>2. QED
    BY <2>1, StillKeepsQueues, Zenon
<1>3. CASE Interrupted(batch, TRUE)
  BY <1>3, InterruptedKeepsQueues, Zenon
<1>4. CASE /\ Completed(batch)
           /\ Open(tasks[t])
           /\ tasks' = [tasks EXCEPT ![t] = task]
           /\ TerminalizeIndexes({t})
           /\ deadlines' = deadlines \cup {<<now + TerminalRetention, t>>}
           /\ inbox' = IF to \in DOMAIN byAgent
                         THEN [inbox EXCEPT ![byAgent[to]] =
                                 WithoutEntries(inbox[byAgent[to]], {t})]
                         ELSE inbox
           /\ UNCHANGED <<sequence, regs, byAgent, grants>>
  <2>1. UNCHANGED <<up, now>> /\ DOMAIN inbox = DOMAIN regs
    BY <1>4, Zenon DEF Completed, Inv, TypeOK
  <2>2. Same(tasks[t], task) /\ task.term = now
    <3>1. \A x, y : /\ Same(tasks[t], TerminalizeTask(tasks[t], x, y))
                    /\ TerminalizeTask(tasks[t], x, y).term = now
      BY <1>1, TaskTransitionFields, Zenon
    <3>2. QED
      BY <3>1, Zenon
  <2> HIDE DEF task
  <2>3. /\ DOMAIN tasks' = DOMAIN tasks
        /\ \A u \in DOMAIN tasks :
             /\ Same(tasks[u], tasks'[u])
             /\ tasks'[u].term = IF u \in {t} THEN now ELSE tasks[u].term
             /\ u # t => tasks'[u] = tasks[u]
    BY <1>1, <1>4, <2>2, Zenon DEF Same
  <2>4. MembersExact'
    BY <1>4, <2>1, <2>3, Zenon DEF QueueInv, MembersExact
  <2>5. SequenceFresh'
    BY <1>4, <2>3 DEF QueueInv, SequenceFresh, Same
  <2>6. IndexesExact'
    <3>1. \A a \in Agents : /\ active'[a] = active[a] \ {t}
                            /\ outbound'[a] = outbound[a] \ {t}
      BY <1>4, Zenon DEF TerminalizeIndexes, WithoutTasks, Inv, TypeOK
    <3>2. \A u \in DOMAIN tasks' \ {t} : ~Open(tasks[u]) =>
             <<tasks[u].term + TerminalRetention, u>> \in deadlines'
      BY <1>4, <2>3, Zenon DEF QueueInv, IndexesExact
    <3>3. <<now + TerminalRetention, t>> \in deadlines'
      BY <1>4, Zenon
    <3>4. QED
      BY <1>1, <1>4, <2>3, <3>1, <3>2, <3>3, IndexesKept DEF QueueInv
  <2>7. ~Open(tasks'[t]) /\ \A u \in DOMAIN tasks : u # t => tasks'[u] = tasks[u]
    BY <1>1, <2>3 DEF Open, NoTime, Inv, TypeOK
  <2>8. LeaseFence'
    BY <1>4, <2>3, <2>7, Zenon DEF QueueInv, LeaseFence, Deliverable
  <2>9. \A a : Addressed(tasks', a) = Addressed(tasks, a) \ {t}
    BY <2>3, <2>7, Zenon DEF Addressed, Deliverable
  <2>10. InboxSound' /\ InboxComplete'
    <3>1. ASSUME NEW s \in DOMAIN regs
          PROVE  \/ /\ inbox'[s] = inbox[s]
                    /\ Addressed(tasks', regs[s].agent)
                         = Addressed(tasks, regs[s].agent)
                 \/ /\ inbox'[s] = WithoutEntries(inbox[s], {t})
                    /\ Addressed(tasks', regs[s].agent)
                         = Addressed(tasks, regs[s].agent) \ {t}
      <4>1. CASE regs[s].agent = to
        <5>1. to \in DOMAIN byAgent /\ byAgent[to] = s
          BY <4>1, Zenon DEF QueueInv, MembersExact
        <5>2. QED
          BY <1>4, <2>1, <2>9, <5>1, Zenon
      <4>2. CASE regs[s].agent # to
        <5>1. t \notin Addressed(tasks, regs[s].agent)
          BY <4>2, Zenon DEF Addressed
        <5>2. Addressed(tasks', regs[s].agent) = Addressed(tasks, regs[s].agent)
          BY <2>9, <5>1, Zenon
        <5>3. to \in DOMAIN byAgent => byAgent[to] # s
          BY <4>2, Zenon DEF QueueInv, MembersExact
        <5>4. QED
          BY <1>4, <5>2, <5>3
      <4>3. QED
        BY <4>1, <4>2, Zenon
    <3>2. /\ InboxSound /\ InboxComplete
          /\ DOMAIN regs' \subseteq DOMAIN regs
          /\ \A u \in DOMAIN tasks' :
               u \in DOMAIN tasks /\ tasks'[u].seq = tasks[u].seq
          /\ \A s \in DOMAIN regs' :
               /\ s \in DOMAIN regs
               /\ regs'[s].agent = regs[s].agent
               /\ regs'[s].expires > now' => regs[s].expires > now
      BY <1>4, <2>1, <2>3, Zenon DEF QueueInv, Same
    <3>3. QED
      BY <3>1, <3>2, InboxesKept, Zenon
  <2>11. QED
    BY <2>4, <2>5, <2>6, <2>8, <2>10, Zenon DEF QueueInv
<1>5. QED
  BY <1>2, <1>3, <1>4, Zenon DEF End, Terminalize

\* ack_delivery repeated changes nothing in memory.
LEMMA AckAgainKeepsQueues ==
    ASSUME QueueInv, NEW r, NEW d, AckAgain(r, d)
    PROVE  QueueInv'
<1>1. UNCHANGED <<now, up, tasks, regs, inbox, byAgent, sequence, active, outbound,
                  deadlines, grants>>
  BY Zenon DEF AckAgain, memory, index, members
<1>2. QED
  BY <1>1, StillKeepsQueues, Zenon

\* The transaction of a dropped request changes the ledger only.
LEMMA OrphanLandsKeepsQueues ==
    ASSUME QueueInv, OrphanLands
    PROVE  QueueInv'
<1>1. UNCHANGED <<now, up, tasks, regs, inbox, byAgent, sequence, active, outbound,
                  deadlines, grants>>
  BY Zenon DEF OrphanLands, memory, index, members, history
<1>2. QED
  BY <1>1, StillKeepsQueues, Zenon

\* maintain_state expires tasks, drops registrations and prunes at once: what
\* leaves the table leaves the inboxes and the indexes with it.
LEMMA MaintainKeepsQueues ==
    ASSUME ListLaws, Inv, Inv', QueueInv, Maintain
    PROVE  QueueInv'
<1>1. CASE Interrupted(MaintainBatch, TRUE) /\ UNCHANGED issued
  BY <1>1, InterruptedKeepsQueues, Zenon
<1>2. CASE /\ Completed(MaintainBatch)
           /\ tasks' = [t \in DOMAIN tasks \ Pruned |->
                          IF t \in Due
                            THEN TerminalizeTask(tasks[t], "Expired", NoReply)
                            ELSE IF t \in Stranded THEN ReleaseLease(tasks[t])
                            ELSE tasks[t]]
           /\ active' = WithoutTasks(active, Due)
           /\ outbound' = WithoutTasks(outbound, Due)
           /\ deadlines' = {e \in deadlines : e[1] > now}
                             \cup {<<now + TerminalRetention, t>> : t \in Due}
           /\ regs' = Without(regs, Expired)
           /\ inbox' = [r \in DOMAIN regs \ Expired |-> WithoutEntries(inbox[r], Due)]
           /\ byAgent' = Without(byAgent, {a \in DOMAIN byAgent :
                                             byAgent[a] \in Expired})
           /\ UNCHANGED <<sequence, grants>>
           /\ up
  <2>1. UNCHANGED <<up, now>> /\ DOMAIN inbox = DOMAIN regs /\ now \in Nat
    BY <1>2, Zenon DEF Completed, Inv, TypeOK
  <2>2. /\ DOMAIN tasks' = DOMAIN tasks \ Pruned
        /\ \A t \in Pruned : t \in DOMAIN tasks /\ ~Open(tasks[t])
        /\ \A t \in Due : t \in DOMAIN tasks /\ Open(tasks[t])
    BY <1>2, Zenon DEF Pruned, Due
  <2>3. ASSUME NEW t \in DOMAIN tasks'
        PROVE  /\ t \in DOMAIN tasks
               /\ Same(tasks[t], tasks'[t])
               /\ tasks'[t].term = IF t \in Due THEN now ELSE tasks[t].term
               /\ t \notin Due => tasks'[t].acked = tasks[t].acked
               /\ t \in Stranded \ Due => tasks'[t].dlv = NoDelivery
               /\ t \notin Due \cup Stranded => tasks'[t] = tasks[t]
    <3>1. tasks[t] \in TaskRecord /\ t \in DOMAIN tasks
      BY <2>2, Zenon DEF Inv, TypeOK, Partial
    <3>2. /\ Same(tasks[t], ReleaseLease(tasks[t]))
          /\ ReleaseLease(tasks[t]).acked = tasks[t].acked
          /\ ReleaseLease(tasks[t]).term = tasks[t].term
          /\ ReleaseLease(tasks[t]).dlv = NoDelivery
      BY <3>1, TaskTransitionFields, Zenon
    <3>3. \A x, y : /\ Same(tasks[t], TerminalizeTask(tasks[t], x, y))
                    /\ TerminalizeTask(tasks[t], x, y).term = now
      BY <3>1, TaskTransitionFields, Zenon
    <3>4. CASE t \in Due
      <4>1. tasks'[t] = TerminalizeTask(tasks[t], "Expired", NoReply)
        BY <1>2, <2>2, <3>4, Zenon
      <4>2. QED
        BY <3>1, <3>3, <3>4, <4>1, Zenon
    <3>5. CASE t \in Stranded \ Due
      BY <1>2, <2>2, <3>1, <3>2, <3>5, Zenon
    <3>6. CASE t \notin Due \cup Stranded
      BY <1>2, <2>2, <3>1, <3>6, Zenon DEF Same
    <3>7. QED
      BY <3>4, <3>5, <3>6, Zenon
  <2>4. /\ DOMAIN regs' = DOMAIN regs \ Expired
        /\ \A r \in DOMAIN regs' : /\ regs'[r] = regs[r]
                                   /\ inbox'[r] = WithoutEntries(inbox[r], Due)
        /\ DOMAIN byAgent' = {a \in DOMAIN byAgent : byAgent[a] \notin Expired}
        /\ \A a \in DOMAIN byAgent' : byAgent'[a] = byAgent[a]
    BY <1>2, Zenon DEF Without
  <2>5. MembersExact'
    <3>1. MembersExact
      BY Zenon DEF QueueInv
    <3>2. ASSUME NEW r \in DOMAIN regs'
          PROVE  /\ r <= Len(grants') /\ regs'[r].agent \in DOMAIN byAgent'
                 /\ byAgent'[regs'[r].agent] = r
      <4>1. r \in DOMAIN regs /\ r \notin Expired /\ regs'[r] = regs[r]
        BY <2>4, Zenon
      <4>2. /\ r <= Len(grants) /\ regs[r].agent \in DOMAIN byAgent
            /\ byAgent[regs[r].agent] = r
        BY <3>1, <4>1, Zenon DEF MembersExact
      <4>3. QED
        BY <1>2, <2>4, <4>1, <4>2, Zenon
    <3>3. ASSUME NEW a \in DOMAIN byAgent'
          PROVE  byAgent'[a] \in DOMAIN regs' /\ regs'[byAgent'[a]].agent = a
      BY <2>4, <3>1 DEF MembersExact
    <3>4. QED
      BY <1>2, <2>1, <3>2, <3>3, Zenon DEF MembersExact
  <2>6. SequenceFresh'
    BY <1>2, <2>3 DEF QueueInv, SequenceFresh, Same
  <2>7. IndexesExact'
    <3>1. \A a \in Agents : /\ active'[a] = active[a] \ Due
                            /\ outbound'[a] = outbound[a] \ Due
      BY <1>2, Zenon DEF WithoutTasks, Inv, TypeOK
    <3>2. ASSUME NEW t \in DOMAIN tasks' \ Due, ~Open(tasks[t])
          PROVE  <<tasks[t].term + TerminalRetention, t>> \in deadlines'
      <4> DEFINE e == <<tasks[t].term + TerminalRetention, t>>
      <4>1. t \in DOMAIN tasks /\ t \notin Pruned
        BY <2>2, Zenon
      <4>2. e \in deadlines
        BY <3>2, <4>1, Zenon DEF QueueInv, IndexesExact
      <4>3. e[1] = tasks[t].term + TerminalRetention /\ e[2] = t
        BY Zenon
      <4> HIDE DEF e
      <4>4. e[1] \in Nat
        BY <4>2, Zenon DEF Inv, TypeOK
      <4>5. ~(e[1] <= now)
        BY <3>2, <4>1, <4>2, <4>3, Zenon DEF Pruned
      <4>6. e \in deadlines'
        BY <1>2, <2>1, <4>2, <4>4, <4>5
      <4>7. QED
        BY <4>6, Zenon DEF e
    <3>3. \A t \in Due : <<now + TerminalRetention, t>> \in deadlines'
      BY <1>2, Zenon
    <3>4. QED
      BY <2>2, <2>3, <3>1, <3>2, <3>3, IndexesKept, Zenon DEF QueueInv
  <2>8. \A t \in Due : t \in DOMAIN tasks' => ~Open(tasks'[t])
    BY <2>1, <2>3 DEF Open, NoTime
  <2>9. LeaseFence'
    <3>1. ASSUME NEW t \in DOMAIN tasks', Deliverable(tasks'[t]),
                 tasks'[t].dlv # NoDelivery
          PROVE  /\ tasks'[t].msg.to \in DOMAIN byAgent'
                 /\ tasks'[t].owner = byAgent'[tasks'[t].msg.to]
      <4>1. t \notin Due
        BY <2>8, <3>1, Zenon DEF Deliverable
      <4>2. t \notin Stranded /\ tasks'[t] = tasks[t] /\ t \in DOMAIN tasks
        BY <2>3, <3>1, <4>1, Zenon
      <4>3. /\ tasks[t].msg.to \in DOMAIN byAgent
            /\ tasks[t].owner = byAgent[tasks[t].msg.to]
        BY <3>1, <4>2, Zenon DEF QueueInv, LeaseFence
      <4>4. tasks[t].owner \notin Expired
        BY <3>1, <4>1, <4>2, Zenon DEF Stranded, LeasedBy, Deliverable
      <4>5. QED
        BY <2>4, <4>2, <4>3, <4>4, Zenon
    <3>2. QED
      BY <3>1, Zenon DEF LeaseFence
  <2>10. \A a : Addressed(tasks', a) = Addressed(tasks, a) \ Due
    <3>1. ASSUME NEW t \in DOMAIN tasks'
          PROVE  /\ Deliverable(tasks'[t]) <=> Deliverable(tasks[t]) /\ t \notin Due
                 /\ tasks'[t].msg = tasks[t].msg
      <4>1. CASE t \in Due
        BY <2>3, <2>8, <4>1, Zenon DEF Deliverable, Same
      <4>2. CASE t \notin Due
        BY <2>3, <4>2, Zenon DEF Deliverable, Open, Same
      <4>3. QED
        BY <4>1, <4>2, Zenon
    <3>2. QED
      BY <2>2, <3>1, Zenon DEF Addressed, Deliverable
  <2>11. InboxSound' /\ InboxComplete'
    <3>1. /\ InboxSound /\ InboxComplete
          /\ DOMAIN regs' \subseteq DOMAIN regs
          /\ \A t \in DOMAIN tasks' :
               t \in DOMAIN tasks /\ tasks'[t].seq = tasks[t].seq
          /\ \A r \in DOMAIN regs' :
               /\ regs'[r].agent = regs[r].agent
               /\ regs'[r].expires > now' => regs[r].expires > now
               /\ inbox'[r] = WithoutEntries(inbox[r], Due)
               /\ Addressed(tasks', regs[r].agent)
                    = Addressed(tasks, regs[r].agent) \ Due
      BY <2>1, <2>3, <2>4, <2>10, Zenon DEF QueueInv, Same
    <3>2. QED
      BY <3>1, InboxesKept, Zenon
  <2>12. QED
    BY <2>5, <2>6, <2>7, <2>9, <2>11, Zenon DEF QueueInv
<1>3. QED
  BY <1>1, <1>2, Zenon DEF Maintain

-----------------------------------------------------------------------------
(* Rebuilding the tables.                                                  *)

\* The repaired snapshot holds no lease that waits for an acknowledgement.
LEMMA ReconciledUnleased ==
    ASSUME Inv, SnapshotValid(ledger), NEW rows, rows = ReconciledRows(ledger, now)
    PROVE  /\ Partial(rows, TaskIds, Row)
           /\ \A t \in DOMAIN rows : Fits(rows[t]) /\ rows[t].st # "Leased"
<1>1. Partial(rows, TaskIds, Row) /\ \A t \in DOMAIN rows : Fits(rows[t])
  BY ReconciledRowsFit, Zenon
<1>2. ASSUME NEW row \in Row  PROVE  ReconciledRow(row, now).st # "Leased"
  <2>1. TerminalRow(row, now, "Expired", NoReply).st = "Expired"
    BY Zenon DEF TerminalRow, Row
  <2>2. RequeuedRow(row).st = "Queued"
    BY Zenon DEF RequeuedRow, Row
  <2>3. QED
    BY <2>1, <2>2, Zenon DEF ReconciledRow
<1>3. ASSUME NEW t \in DOMAIN rows  PROVE  rows[t].st # "Leased"
  <2>1. ledger[t] \in Row /\ rows[t] = ReconciledRow(ledger[t], now)
    BY Zenon DEF ReconciledRows, Inv, TypeOK, Partial
  <2>2. QED
    BY <1>2, <2>1, Zenon
<1>4. QED
  BY <1>1, <1>3, Zenon

\* (created, task id) orders the rows of a snapshot strictly and totally.
LEMMA AgeOrders ==
    ASSUME ListLaws, NEW rows, Partial(rows, TaskIds, Row), NEW T \in SUBSET DOMAIN rows
    PROVE  Orders(ByAge(rows), T)
<1>1. T \subseteq TaskIds /\ \A t \in T : rows[t].created \in Nat
  BY Zenon DEF Partial, Row
<1>2. TaskIds \subseteq Nat /\ IsFiniteSet(TaskIds)
  BY DurableRowsAssumption, Zenon DEF DurableRowsAssumption
<1>3. IsFiniteSet(T)
  BY <1>1, TasksCount, Zenon DEF CountsTasks
<1>4. \A t \in T : t \in Nat
  BY <1>1, <1>2, Zenon
<1>5. \A t, u \in T : <<t, u>> \in ByAge(rows) <=> Before(rows, t, u)
  BY Zenon DEF ByAge
<1>6. \A t \in T : ~Before(rows, t, t)
  BY <1>1, <1>4 DEF Before
<1>7. \A t, u, v \in T : Before(rows, t, u) /\ Before(rows, u, v) => Before(rows, t, v)
  BY <1>1, <1>4 DEF Before
<1>8. \A t, u \in T : t # u => Before(rows, t, u) \/ Before(rows, u, t)
  BY <1>1, <1>4 DEF Before
<1>9. QED
  BY <1>3, <1>5, <1>6, <1>7, <1>8, Zenon DEF Orders

\* restore_task keeps the message and the openness of a row; a restored task is
\* deliverable exactly if its row is queued, and is numbered by age.
LEMMA RestoredFields ==
    ASSUME ListLaws, Inv, NEW rows, Partial(rows, TaskIds, Row),
           \A t \in DOMAIN rows : Fits(rows[t]) /\ rows[t].st # "Leased",
           Rebuild(rows)
    PROVE  /\ DOMAIN tasks' = DOMAIN rows
           /\ \A t \in DOMAIN rows :
                /\ tasks'[t].msg = rows[t].msg
                /\ tasks'[t].term = rows[t].term
                /\ Open(tasks'[t]) <=> rows[t].st \in Active
                /\ Deliverable(tasks'[t]) <=> rows[t].st = "Queued"
                /\ Deliverable(tasks'[t]) => tasks'[t].dlv = NoDelivery
                /\ tasks'[t].seq \in Nat /\ tasks'[t].seq <= sequence'
           /\ \A t, u \in DOMAIN rows :
                <<t, u>> \in ByAge(rows) => tasks'[t].seq < tasks'[u].seq
<1> DEFINE rank(t) == Cardinality({u \in DOMAIN rows : Before(rows, u, t)})
<1>1. /\ DOMAIN tasks' = DOMAIN rows
      /\ \A t \in DOMAIN rows :
           tasks'[t] = RestoreTask(rows[t], rank(t) + 1,
                                   LiveRegistration(rows[t].msg.to))
  BY Zenon DEF Rebuild, RestoredTasks
<1>2. ASSUME NEW t \in DOMAIN rows
      PROVE  rank(t) = Cardinality({u \in DOMAIN rows : <<u, t>> \in ByAge(rows)})
  BY Zenon DEF ByAge
<1>3. Orders(ByAge(rows), DOMAIN rows)
  BY AgeOrders, Zenon
<1>4. /\ sequence' = Cardinality(DOMAIN rows) /\ sequence' \in Nat
      /\ \A t \in DOMAIN rows : rank(t) \in Nat /\ rank(t) + 1 <= sequence'
      /\ \A t, u \in DOMAIN rows : <<t, u>> \in ByAge(rows) => rank(t) < rank(u)
  <2>1. sequence' = Cardinality(DOMAIN rows)
    BY Zenon DEF Rebuild
  <2> DEFINE before(t) == {u \in DOMAIN rows : <<u, t>> \in ByAge(rows)}
  <2>2. /\ Cardinality(DOMAIN rows) \in Nat
        /\ \A t \in DOMAIN rows :
             /\ Cardinality(before(t)) \in Nat
             /\ Cardinality(before(t)) + 1 <= Cardinality(DOMAIN rows)
        /\ \A t, u \in DOMAIN rows : <<t, u>> \in ByAge(rows) =>
             Cardinality(before(t)) < Cardinality(before(u))
    BY <1>3, Zenon DEF ListLaws, RanksSets, Ranked, Rank
  <2>3. \A t \in DOMAIN rows : rank(t) = Cardinality(before(t))
    BY <1>2, Zenon
  <2> HIDE DEF rank, before
  <2>4. QED
    BY <2>1, <2>2, <2>3, Zenon
<1> HIDE DEF rank
<1>5. ASSUME NEW t \in DOMAIN rows
      PROVE  /\ tasks'[t].msg = rows[t].msg
             /\ tasks'[t].term = rows[t].term
             /\ tasks'[t].seq = rank(t) + 1
             /\ tasks'[t].dlv = rows[t].dlv
             /\ tasks'[t].acked = (rows[t].st = "Acknowledged")
  <2>1. \A row, n, owner :
          /\ RestoreTask(row, n, owner).msg = row.msg
          /\ RestoreTask(row, n, owner).term = row.term
          /\ RestoreTask(row, n, owner).seq = n
          /\ RestoreTask(row, n, owner).dlv = row.dlv
    BY DEF RestoreTask
  <2>2. \A row, n, owner :
          RestoreTask(row, n, owner).acked = (row.st = "Acknowledged")
    BY Zenon DEF RestoreTask
  <2>3. tasks'[t] = RestoreTask(rows[t], rank(t) + 1,
                                LiveRegistration(rows[t].msg.to))
    BY <1>1, Zenon
  <2> HIDE DEF rank
  <2>4. /\ tasks'[t].msg = rows[t].msg
        /\ tasks'[t].term = rows[t].term
        /\ tasks'[t].seq = rank(t) + 1
        /\ tasks'[t].dlv = rows[t].dlv
    BY <2>1, <2>3
  <2>5. tasks'[t].acked = (rows[t].st = "Acknowledged")
    BY <2>2, <2>3
  <2>6. QED
    BY <2>4, <2>5, Zenon
<1>6. ASSUME NEW t \in DOMAIN rows
      PROVE  /\ Open(tasks'[t]) <=> rows[t].st \in Active
             /\ Deliverable(tasks'[t]) <=> rows[t].st = "Queued"
             /\ Deliverable(tasks'[t]) => tasks'[t].dlv = NoDelivery
  <2>1. rows[t].st \in Active \cup Terminal
    BY Zenon DEF Partial, Row
  <2>2. /\ rows[t].st # "Leased"
        /\ rows[t].dlv # NoDelivery => rows[t].st \in {"Leased", "Acknowledged"}
        /\ (rows[t].term # NoTime) <=> rows[t].st \in Terminal
    BY Zenon DEF Fits
  <2>3. QED
    BY <1>5, <2>1, <2>2, Zenon DEF Open, Deliverable, Active, Terminal
<1>7. \A t, u \in DOMAIN rows :
        <<t, u>> \in ByAge(rows) => tasks'[t].seq < tasks'[u].seq
  BY <1>4, <1>5
<1>8. QED
  BY <1>1, <1>4, <1>5, <1>6, <1>7

\* A rebuild from a repaired snapshot makes the order and the indexes exact.
LEMMA RebuildKeepsTables ==
    ASSUME ListLaws, Inv, NEW rows, Partial(rows, TaskIds, Row),
           \A t \in DOMAIN rows : Fits(rows[t]) /\ rows[t].st # "Leased",
           Rebuild(rows)
    PROVE  IndexesExact' /\ SequenceFresh' /\ LeaseFence'
<1>1. /\ DOMAIN tasks' = DOMAIN rows
      /\ \A t \in DOMAIN rows :
           /\ tasks'[t].msg = rows[t].msg
           /\ tasks'[t].term = rows[t].term
           /\ Open(tasks'[t]) <=> rows[t].st \in Active
           /\ Deliverable(tasks'[t]) => tasks'[t].dlv = NoDelivery
           /\ tasks'[t].seq \in Nat /\ tasks'[t].seq <= sequence'
      /\ \A t, u \in DOMAIN rows :
           <<t, u>> \in ByAge(rows) => tasks'[t].seq < tasks'[u].seq
  BY RestoredFields, Zenon
<1>2. SequenceFresh'
  <2>1. \A t, u \in DOMAIN rows :
          t # u => <<t, u>> \in ByAge(rows) \/ <<u, t>> \in ByAge(rows)
    BY AgeOrders, Zenon DEF Orders
  <2>2. ASSUME NEW t \in DOMAIN rows, NEW u \in DOMAIN rows, t # u
        PROVE  tasks'[t].seq # tasks'[u].seq
    <3>1. tasks'[t].seq < tasks'[u].seq \/ tasks'[u].seq < tasks'[t].seq
      BY <1>1, <2>1, <2>2, Zenon
    <3>2. QED
      BY <1>1, <3>1
  <2>3. QED
    BY <1>1, <2>2, Zenon DEF SequenceFresh
<1>3. IndexesExact'
  <2>1. ASSUME NEW a \in Agents
        PROVE  /\ active'[a] = {t \in DOMAIN tasks' : Open(tasks'[t]) /\
                                  a \in {tasks'[t].msg.from, tasks'[t].msg.to}}
               /\ outbound'[a] = {t \in DOMAIN tasks' : Open(tasks'[t]) /\
                                    tasks'[t].msg.from = a}
    <3>1. /\ active'[a] = {t \in OpenRows(rows) :
                             a \in {rows[t].msg.from, rows[t].msg.to}}
          /\ outbound'[a] = {t \in OpenRows(rows) : rows[t].msg.from = a}
      BY Zenon DEF Rebuild
    <3>2. QED
      BY <1>1, <3>1, Zenon DEF OpenRows
  <2>2. ASSUME NEW t \in DOMAIN tasks', ~Open(tasks'[t])
        PROVE  <<tasks'[t].term + TerminalRetention, t>> \in deadlines'
    <3>1. t \in DOMAIN rows \ OpenRows(rows)
      BY <1>1, <2>2, Zenon DEF OpenRows
    <3>2. <<RetentionDeadline(rows[t]), t>> \in deadlines'
      BY <3>1, Zenon DEF Rebuild
    <3>3. QED
      BY <1>1, <3>1, <3>2, Zenon DEF RetentionDeadline
  <2>3. QED
    BY <2>1, <2>2, Zenon DEF IndexesExact
<1>4. LeaseFence'
  BY <1>1, Zenon DEF LeaseFence
<1>5. QED
  BY <1>2, <1>3, <1>4, Zenon

\* reconcile_state_if_required replaces every task and fills the inboxes of the
\* live registrations again, in the order of the new sequence numbers.
LEMMA ReconcileKeepsQueues ==
    ASSUME ListLaws, Inv, Inv', QueueInv, Reconcile
    PROVE  QueueInv'
<1> DEFINE batch == ReconcileBatch(ledger, now)
           rows == ReconciledRows(ledger, now)
           queued(r) == {t \in DOMAIN rows : rows[t].st = "Queued"
                           /\ LiveRegistration(rows[t].msg.to) = r}
<1>1. SnapshotValid(ledger) /\ up
  BY Zenon DEF Reconcile
<1>2. CASE Interrupted(batch, TRUE) /\ UNCHANGED issued
  BY <1>2, InterruptedKeepsQueues, Zenon
<1>3. CASE /\ Rebuild(rows)
           /\ inbox' = [r \in DOMAIN regs |-> Ordered(queued(r), ByAge(rows))]
           /\ UNCHANGED <<now, up, regs, byAgent, grants>>
  <2>1. /\ Partial(rows, TaskIds, Row)
        /\ \A t \in DOMAIN rows : Fits(rows[t]) /\ rows[t].st # "Leased"
    BY <1>1, ReconciledUnleased, Zenon
  <2> HIDE DEF rows
  <2>2. IndexesExact' /\ SequenceFresh' /\ LeaseFence'
    BY <1>3, <2>1, RebuildKeepsTables, Zenon
  <2>3. MembersExact'
    BY <1>1, <1>3, Zenon DEF QueueInv, MembersExact
  <2>4. /\ DOMAIN tasks' = DOMAIN rows
        /\ \A t \in DOMAIN rows : /\ tasks'[t].msg = rows[t].msg
                                  /\ Deliverable(tasks'[t]) <=> rows[t].st = "Queued"
        /\ \A t, u \in DOMAIN rows :
             <<t, u>> \in ByAge(rows) => tasks'[t].seq < tasks'[u].seq
    BY <1>3, <2>1, RestoredFields, Zenon
  <2>5. ASSUME NEW r \in DOMAIN regs
        PROVE  /\ Lists(inbox'[r], Addressed(tasks', regs[r].agent), tasks')
               /\ regs[r].expires > now =>
                    Covers(inbox'[r], Addressed(tasks', regs[r].agent))
    <3> DEFINE T == queued(r)
               A == Addressed(tasks', regs[r].agent)
               q == Ordered(T, ByAge(rows))
    <3>1. /\ r # NoRegistration /\ regs[r].agent \in DOMAIN byAgent
          /\ byAgent[regs[r].agent] = r
          /\ \A a \in DOMAIN byAgent : byAgent[a] = r => a = regs[r].agent
      BY Zenon DEF Inv, TypeOK, Partial, NoRegistration, QueueInv, MembersExact
    <3>2. \A t : t \in T <=> /\ t \in DOMAIN rows /\ rows[t].st = "Queued"
                             /\ LiveRegistration(rows[t].msg.to) = r
      BY Zenon
    <3>3. \A t : t \in A <=> /\ t \in DOMAIN rows /\ rows[t].st = "Queued"
                             /\ rows[t].msg.to = regs[r].agent
      BY <2>4, Zenon DEF Addressed
    <3> HIDE DEF T, A
    <3>4. T \subseteq A
      BY <3>1, <3>2, <3>3, Zenon DEF LiveRegistration
    <3>5. regs[r].expires > now => T = A
      BY <3>1, <3>2, <3>3, <3>4, Zenon DEF LiveRegistration
    <3>6. T \in SUBSET DOMAIN rows
      BY <3>2, Zenon
    <3>7. /\ q \in Seq(T)
          /\ \A x \in T : \E i \in DOMAIN q : q[i] = x
          /\ \A i, j \in DOMAIN q : i < j => <<q[i], q[j]>> \in ByAge(rows)
      <4>1. Orders(ByAge(rows), T)
        BY <2>1, <3>6, AgeOrders, Zenon
      <4>2. QED
        BY <4>1, Zenon DEF ListLaws, SortsSets, ListedBy
    <3>8. inbox'[r] = q
      BY <1>3, Zenon DEF T
    <3> HIDE DEF q
    <3>9. \A i \in DOMAIN q : q[i] \in T /\ q[i] \in DOMAIN rows
      BY <3>6, <3>7
    <3>10. q \in Seq(A)
      BY <3>4, <3>7, Zenon DEF ListLaws, WidensLists
    <3>11. \A i, j \in DOMAIN q : i < j => tasks'[q[i]].seq < tasks'[q[j]].seq
      BY <2>4, <3>7, <3>9, Zenon
    <3>12. Lists(q, A, tasks') /\ (regs[r].expires > now => Covers(q, A))
      BY <3>5, <3>7, <3>10, <3>11, Zenon DEF Lists, Covers
    <3>13. QED
      BY <3>8, <3>12, Zenon DEF A
  <2>6. InboxSound' /\ InboxComplete'
    BY <1>3, <2>5, Zenon DEF InboxSound, InboxComplete
  <2>7. QED
    BY <2>2, <2>3, <2>6, Zenon DEF QueueInv
<1>4. QED
  BY <1>2, <1>3, Zenon DEF Reconcile

\* recover fills the table while nobody is registered.
LEMMA RecoverKeepsQueues ==
    ASSUME ListLaws, Inv, Inv', QueueInv, Recover
    PROVE  QueueInv'
<1> DEFINE rows == ReconciledRows(ledger, now)
<1>1. SnapshotValid(ledger) /\ ~up
  BY Zenon DEF Recover
<1>2. CASE /\ up' = TRUE
           /\ Rebuild(rows)
           /\ UNCHANGED <<now, regs, inbox, byAgent, grants>>
  <2>1. /\ Partial(rows, TaskIds, Row)
        /\ \A t \in DOMAIN rows : Fits(rows[t]) /\ rows[t].st # "Leased"
    BY <1>1, ReconciledUnleased, Zenon
  <2> HIDE DEF rows
  <2>2. IndexesExact' /\ SequenceFresh' /\ LeaseFence'
    BY <1>2, <2>1, RebuildKeepsTables, Zenon
  <2>3. DOMAIN regs = {} /\ MembersExact
    BY <1>1, Zenon DEF QueueInv, MembersExact
  <2>4. MembersExact'
    BY <1>2, <2>3, Zenon DEF MembersExact
  <2>5. InboxSound' /\ InboxComplete'
    BY <1>2, <2>3, Zenon DEF InboxSound, InboxComplete
  <2>6. QED
    BY <2>2, <2>4, <2>5, Zenon DEF QueueInv
<1>3. CASE UNCHANGED <<now, up, orphans, doubt, memory, history>>
  <2>1. UNCHANGED <<now, up, tasks, regs, inbox, byAgent, sequence, active, outbound,
                    deadlines, grants>>
    BY <1>3, Zenon DEF memory, index, members, history
  <2>2. QED
    BY <2>1, StillKeepsQueues, Zenon
<1>4. QED
  BY <1>2, <1>3, Zenon DEF Recover

-----------------------------------------------------------------------------
(* Every behaviour.                                                        *)

\* The tables of a broker that has just started with an empty ledger are exact.
LEMMA InitQueues ==
    ASSUME Init
    PROVE  QueueInv
<1>1. DOMAIN regs = {} /\ DOMAIN tasks = {} /\ DOMAIN byAgent = {}
  BY EmptyPartial, Zenon DEF Init
<1>2. \A a \in Agents : active[a] = {} /\ outbound[a] = {}
  BY Zenon DEF Init
<1>3. QED
  BY <1>1, <1>2, Zenon DEF QueueInv, MembersExact, IndexesExact, SequenceFresh, LeaseFence,
                    InboxSound, InboxComplete

\* Every step of the broker keeps its tables exact.
LEMMA StepKeepsQueues ==
    ASSUME ListLaws, Inv, Inv', QueueInv, [Next]_vars
    PROVE  QueueInv'
<1>1. CASE Maintain
  BY <1>1, MaintainKeepsQueues, Zenon
<1>2. CASE Reconcile
  BY <1>2, ReconcileKeepsQueues, Zenon
<1>3. ASSUME NEW a \in Agents, Register(a)  PROVE  QueueInv'
  BY <1>3, RegisterKeepsQueues, Zenon
<1>4. ASSUME NEW r \in DOMAIN regs,
             \/ Renew(r)
             \/ RemoveRegistration(r)
             \/ \E t \in TaskIds, m \in Messages : Enqueue(r, t, m)
             \/ PollDelivery(r)
             \/ \E d \in 1 .. issued : AckDelivery(r, d) \/ AckAgain(r, d)
             \/ \E t \in TaskIds, p \in Replies :
                  Reply(r, t, p) \/ FailTask(r, t, p) \/ RejectTask(r, t, p)
             \/ \E t \in TaskIds : CancelTask(r, t)
      PROVE  QueueInv'
  <2>1. CASE Renew(r)
    BY <2>1, RenewKeepsQueues, Zenon
  <2>2. CASE RemoveRegistration(r)
    BY <2>2, RemoveRegistrationKeepsQueues, Zenon
  <2>3. CASE \E t \in TaskIds, m \in Messages : Enqueue(r, t, m)
    BY <2>3, EnqueueKeepsQueues, Zenon
  <2>4. CASE PollDelivery(r)
    BY <2>4, PollDeliveryKeepsQueues, Zenon
  <2>5. CASE \E d \in 1 .. issued : AckDelivery(r, d) \/ AckAgain(r, d)
    BY <2>5, AckDeliveryKeepsQueues, AckAgainKeepsQueues, Zenon
  <2>6. CASE \E t, st, p : End(r, t, st, p)
    BY <2>6, EndKeepsQueues, Zenon
  <2>7. QED
    BY <1>4, <2>1, <2>2, <2>3, <2>4, <2>5, <2>6, Zenon
       DEF Reply, FailTask, RejectTask, CancelTask
<1>5. CASE Tick
  BY <1>5, TickKeepsQueues, Zenon
<1>6. CASE OrphanLands
  BY <1>6, OrphanLandsKeepsQueues, Zenon
<1>7. CASE Crash
  BY <1>7, CrashKeepsQueues, Zenon
<1>8. CASE Recover
  BY <1>8, RecoverKeepsQueues, Zenon
<1>9. CASE UNCHANGED vars
  <2>1. UNCHANGED <<now, up, tasks, regs, inbox, byAgent, sequence, active, outbound,
                    deadlines, grants>>
    BY <1>9, Zenon DEF vars, memory, index, members, history
  <2>2. QED
    BY <2>1, StillKeepsQueues, Zenon
<1>10. QED
  BY <1>1, <1>2, <1>3, <1>4, <1>5, <1>6, <1>7, <1>8, <1>9, Zenon DEF Next

-----------------------------------------------------------------------------
(* What the invariant says of an inbox.                                    *)

\* While the clock does not step back, the inbox of a live registration is what
\* poll_delivery expects of it.
LEMMA QueuesExact ==
    ASSUME ListLaws, ClockBack = 0, Inv, QueueInv
    PROVE  InboxExact
<1> SUFFICES ASSUME NEW r \in DOMAIN regs, regs[r].expires > now
             PROVE  /\ byAgent[regs[r].agent] = r
                    /\ inbox[r] \in Seq(DOMAIN tasks)
                    /\ \A t \in DOMAIN tasks :
                         (\E i \in DOMAIN inbox[r] : inbox[r][i] = t)
                           <=> Deliverable(tasks[t])
                                 /\ tasks[t].msg.to = regs[r].agent
                    /\ \A i, j \in DOMAIN inbox[r] :
                         i < j => tasks[inbox[r][i]].seq < tasks[inbox[r][j]].seq
  BY Zenon DEF InboxExact
<1> DEFINE A == Addressed(tasks, regs[r].agent)
<1>1. Lists(inbox[r], A, tasks) /\ Covers(inbox[r], A)
  BY Zenon DEF QueueInv, InboxSound, InboxComplete
<1>2. A \subseteq DOMAIN tasks
  BY Zenon DEF Addressed
<1>3. \A t \in DOMAIN tasks : t \in A <=> Deliverable(tasks[t])
                                       /\ tasks[t].msg.to = regs[r].agent
  BY Zenon DEF Addressed
<1> HIDE DEF A
<1>4. inbox[r] \in Seq(A) /\ \A i \in DOMAIN inbox[r] : inbox[r][i] \in A
  BY <1>1 DEF Lists
<1>5. inbox[r] \in Seq(DOMAIN tasks)
  BY <1>2, <1>4, Zenon DEF ListLaws, WidensLists
<1>6. byAgent[regs[r].agent] = r
  BY Zenon DEF QueueInv, MembersExact
<1>7. QED
  BY <1>1, <1>3, <1>4, <1>5, <1>6, Zenon DEF Lists, Covers
=============================================================================
