---------------------------- MODULE BrokerSteps ----------------------------
(***************************************************************************)
(* The inductive invariant of the broker and its preservation: the types   *)
(* of rows and task records under each transition, what a commit does to   *)
(* the ledger, the delivery index when leases end, the batches that        *)
(* maintenance, reconciliation and lost registrations write, the row each  *)
(* transition of a record leaves; then one lemma per action.               *)
(***************************************************************************)
EXTENDS BrokerRefinement, TLAPS

-----------------------------------------------------------------------------
(* Counting.                                                               *)

\* A set of task ids, being part of a finite set, has a number of elements.
CountsTasks == \A S \in SUBSET TaskIds : IsFiniteSet(S) /\ Cardinality(S) \in Nat

\* The queues and the retention limit count sets of task ids only.
LEMMA TasksCount ==
    ASSUME ListLaws
    PROVE  CountsTasks
<1> SUFFICES ASSUME NEW S \in SUBSET TaskIds
             PROVE  IsFiniteSet(S) /\ Cardinality(S) \in Nat
  BY Zenon DEF CountsTasks
<1>1. S \subseteq TaskIds /\ IsFiniteSet(TaskIds)
  BY DurableRowsAssumption, Zenon DEF DurableRowsAssumption
<1>2. QED
  BY <1>1, Zenon DEF ListLaws, CountsSubsets

-----------------------------------------------------------------------------
(* Rows and task records.                                                  *)

\* A ledger row (DurableTask in durability.rs) stays one when a single column
\* is given a value of its type.
LEMMA RowUpdate ==
    ASSUME NEW row \in Row
    PROVE  /\ row.ver + 1 \in Nat \ {0}
           /\ \A v \in Nat \ {0} : [row EXCEPT !.ver = v] \in Row
           /\ \A v \in Active \cup Terminal : [row EXCEPT !.st = v] \in Row
           /\ \A v \in Nat : [row EXCEPT !.dlv = v] \in Row
           /\ \A v \in Nat \cup {NoTime} : [row EXCEPT !.until = v] \in Row
           /\ \A v \in Nat : [row EXCEPT !.attempt = v] \in Row
           /\ \A v \in Nat \cup {NoTime} : [row EXCEPT !.ack = v] \in Row
           /\ \A v \in Replies \cup {NoReply} : [row EXCEPT !.reply = v] \in Row
           /\ \A v \in Nat \cup {NoTime} : [row EXCEPT !.term = v] \in Row
<1>1. row.ver + 1 \in Nat \ {0}
  BY DEF Row
<1>2. ASSUME NEW v \in Nat \ {0}  PROVE  [row EXCEPT !.ver = v] \in Row
  BY Zenon DEF Row
<1>3. ASSUME NEW v \in Active \cup Terminal
      PROVE  [row EXCEPT !.st = v] \in Row
  BY Zenon DEF Row
<1>4. ASSUME NEW v \in Nat
      PROVE  [row EXCEPT !.dlv = v] \in Row /\ [row EXCEPT !.attempt = v] \in Row
  BY Zenon DEF Row
<1>5. ASSUME NEW v \in Nat \cup {NoTime}
      PROVE  /\ [row EXCEPT !.until = v] \in Row
             /\ [row EXCEPT !.ack = v] \in Row
             /\ [row EXCEPT !.term = v] \in Row
  BY Zenon DEF Row
<1>6. ASSUME NEW v \in Replies \cup {NoReply}
      PROVE  [row EXCEPT !.reply = v] \in Row
  BY Zenon DEF Row
<1>7. QED
  BY <1>1, <1>2, <1>3, <1>4, <1>5, <1>6, Zenon

\* Each durable_..._task function of broker.rs maps a row to a row.
LEMMA RowTransitions ==
    ASSUME NEW row \in Row, NEW at \in Nat
    PROVE  /\ RequeuedRow(row) \in Row
           /\ AcknowledgedRow(row, at) \in Row
           /\ \A d, n \in Nat : LeasedRow(row, d, at, n) \in Row
           /\ \A st \in Terminal, p \in Replies \cup {NoReply} :
                TerminalRow(row, at, st, p) \in Row
<1>1. /\ NoDelivery \in Nat /\ NoTime \in Nat \cup {NoTime}
      /\ {"Queued", "Leased", "Acknowledged"} \subseteq Active \cup Terminal
      /\ at + DeliveryLease \in Nat
  BY DurableRowsAssumption DEF DurableRowsAssumption, NoDelivery, Active
<1>2. RequeuedRow(row) \in Row
  BY <1>1, RowUpdate, Zenon DEF RequeuedRow
<1>3. AcknowledgedRow(row, at) \in Row
  BY <1>1, RowUpdate, Zenon DEF AcknowledgedRow
<1>4. ASSUME NEW d \in Nat, NEW n \in Nat
      PROVE  LeasedRow(row, d, at, n) \in Row
  BY <1>1, RowUpdate, Zenon DEF LeasedRow
<1>5. ASSUME NEW st \in Terminal, NEW p \in Replies \cup {NoReply}
      PROVE  TerminalRow(row, at, st, p) \in Row
  BY <1>1, RowUpdate, Zenon DEF TerminalRow
<1>6. QED
  BY <1>2, <1>3, <1>4, <1>5, Zenon

\* A TaskRecord stays one when a single field is given a value of its type.
LEMMA TaskUpdate ==
    ASSUME NEW task \in TaskRecord
    PROVE  /\ task.ver + 1 \in Nat \ {0}
           /\ \A v \in Nat \ {0} : [task EXCEPT !.ver = v] \in TaskRecord
           /\ \A v \in Nat : [task EXCEPT !.dlv = v] \in TaskRecord
           /\ \A v \in Nat : [task EXCEPT !.owner = v] \in TaskRecord
           /\ \A v \in Nat \cup {NoTime} : [task EXCEPT !.until = v] \in TaskRecord
           /\ \A v \in Nat : [task EXCEPT !.last = v] \in TaskRecord
           /\ \A v \in BOOLEAN : [task EXCEPT !.acked = v] \in TaskRecord
           /\ \A v \in Nat \cup {NoTime} : [task EXCEPT !.ackAt = v] \in TaskRecord
           /\ \A v \in Replies \cup {NoReply} :
                [task EXCEPT !.reply = v] \in TaskRecord
           /\ \A v \in Marks : [task EXCEPT !.mark = v] \in TaskRecord
           /\ \A v \in Nat \cup {NoTime} : [task EXCEPT !.term = v] \in TaskRecord
<1>1. task.ver + 1 \in Nat \ {0}
  BY DEF TaskRecord
<1>2. ASSUME NEW v \in Nat \ {0}  PROVE  [task EXCEPT !.ver = v] \in TaskRecord
  BY Zenon DEF TaskRecord
<1>3. ASSUME NEW v \in Nat
      PROVE  /\ [task EXCEPT !.dlv = v] \in TaskRecord
             /\ [task EXCEPT !.owner = v] \in TaskRecord
             /\ [task EXCEPT !.last = v] \in TaskRecord
  BY Zenon DEF TaskRecord
<1>4. ASSUME NEW v \in Nat \cup {NoTime}
      PROVE  /\ [task EXCEPT !.until = v] \in TaskRecord
             /\ [task EXCEPT !.ackAt = v] \in TaskRecord
             /\ [task EXCEPT !.term = v] \in TaskRecord
  BY Zenon DEF TaskRecord
<1>5. ASSUME NEW v \in BOOLEAN  PROVE  [task EXCEPT !.acked = v] \in TaskRecord
  BY Zenon DEF TaskRecord
<1>6. ASSUME NEW v \in Replies \cup {NoReply}
      PROVE  [task EXCEPT !.reply = v] \in TaskRecord
  BY Zenon DEF TaskRecord
<1>7. ASSUME NEW v \in Marks  PROVE  [task EXCEPT !.mark = v] \in TaskRecord
  BY Zenon DEF TaskRecord
<1>8. QED
  BY <1>1, <1>2, <1>3, <1>4, <1>5, <1>6, <1>7, Zenon

\* Releasing, leasing, acknowledging and terminalizing a TaskRecord in memory
\* give a TaskRecord.
LEMMA TaskTransitions ==
    ASSUME NEW task \in TaskRecord, now \in Nat
    PROVE  /\ ReleaseLease(task) \in TaskRecord
           /\ AcknowledgeTask(task) \in TaskRecord
           /\ \A d, r, n \in Nat : LeaseTask(task, d, r, n) \in TaskRecord
           /\ \A st \in Terminal, p \in Replies \cup {NoReply} :
                TerminalizeTask(task, st, p) \in TaskRecord
<1>1. /\ NoDelivery \in Nat /\ NoRegistration \in Nat
      /\ NoTime \in Nat \cup {NoTime} /\ TRUE \in BOOLEAN /\ FALSE \in BOOLEAN
      /\ now + DeliveryLease \in Nat
  BY DurableRowsAssumption
     DEF DurableRowsAssumption, NoDelivery, NoRegistration
<1>2. ReleaseLease(task) \in TaskRecord
  BY <1>1, TaskUpdate, Zenon DEF ReleaseLease
<1>3. AcknowledgeTask(task) \in TaskRecord
  BY <1>1, TaskUpdate, Zenon DEF AcknowledgeTask
<1>4. ASSUME NEW d \in Nat, NEW r \in Nat, NEW n \in Nat
      PROVE  LeaseTask(task, d, r, n) \in TaskRecord
  BY <1>1, TaskUpdate, Zenon DEF LeaseTask
<1>5. ASSUME NEW st \in Terminal, NEW p \in Replies \cup {NoReply}
      PROVE  TerminalizeTask(task, st, p) \in TaskRecord
  <2>1. MarkOf(st) \in Marks
    BY Zenon DEF MarkOf, Marks, Terminal
  <2>2. QED
    BY <1>1, <2>1, TaskUpdate, Zenon DEF TerminalizeTask
<1>6. QED
  BY <1>2, <1>3, <1>4, <1>5, Zenon

\* What each in-memory transition does to the lease of a task: only a release
\* and an end drop it, only poll_delivery sets another.
LEMMA TaskTransitionLeases ==
    ASSUME NEW task \in TaskRecord
    PROVE  /\ ReleaseLease(task).dlv = NoDelivery
           /\ ReleaseLease(task).term = task.term
           /\ AcknowledgeTask(task).dlv = task.dlv
           /\ AcknowledgeTask(task).term = task.term
           /\ \A d, r, n : /\ LeaseTask(task, d, r, n).dlv = d
                           /\ LeaseTask(task, d, r, n).term = task.term
           /\ \A st, p : TerminalizeTask(task, st, p).dlv = NoDelivery
<1>1. /\ ReleaseLease(task).dlv = NoDelivery
      /\ ReleaseLease(task).term = task.term
  BY Zenon DEF ReleaseLease, TaskRecord
<1>2. /\ AcknowledgeTask(task).dlv = task.dlv
      /\ AcknowledgeTask(task).term = task.term
  BY Zenon DEF AcknowledgeTask, TaskRecord
<1>3. ASSUME NEW d, NEW r, NEW n
      PROVE  /\ LeaseTask(task, d, r, n).dlv = d
             /\ LeaseTask(task, d, r, n).term = task.term
  BY Zenon DEF LeaseTask, TaskRecord
<1>4. ASSUME NEW st, NEW p
      PROVE  TerminalizeTask(task, st, p).dlv = NoDelivery
  BY Zenon DEF TerminalizeTask, TaskRecord
<1>5. QED
  BY <1>1, <1>2, <1>3, <1>4, Zenon

\* What each durable_..._task function does to the lease columns of a row.
LEMMA RowTransitionLeases ==
    ASSUME NEW row \in Row
    PROVE  /\ RequeuedRow(row).dlv = NoDelivery
           /\ \A at : AcknowledgedRow(row, at).dlv = row.dlv
           /\ \A d, at, n : LeasedRow(row, d, at, n).dlv = d
           /\ \A at, st, p : TerminalRow(row, at, st, p).dlv = NoDelivery
<1>1. RequeuedRow(row).dlv = NoDelivery
  BY Zenon DEF RequeuedRow, Row
<1>2. ASSUME NEW at  PROVE  AcknowledgedRow(row, at).dlv = row.dlv
  BY Zenon DEF AcknowledgedRow, Row
<1>3. ASSUME NEW d, NEW at, NEW n  PROVE  LeasedRow(row, d, at, n).dlv = d
  BY Zenon DEF LeasedRow, Row
<1>4. ASSUME NEW at, NEW st, NEW p
      PROVE  TerminalRow(row, at, st, p).dlv = NoDelivery
  BY Zenon DEF TerminalRow, Row
<1>5. QED
  BY <1>1, <1>2, <1>3, <1>4, Zenon

\* durable_task writes a well-typed row that carries the lease of the record.
LEMMA DurableTaskRow ==
    ASSUME NEW task \in TaskRecord
    PROVE  DurableTask(task) \in Row /\ DurableTask(task).dlv = task.dlv
BY Zenon DEF DurableTask, AttemptOf, TaskRecord, Row, Active, Terminal, Marks,
       NoAttempt

\* enqueue creates a well-typed row and record without a lease.
LEMMA NewTaskRecord ==
    ASSUME NEW m \in Messages, NEW at \in Nat, NEW n \in Nat
    PROVE  /\ QueuedRow(m, at) \in Row /\ QueuedRow(m, at).dlv = NoDelivery
           /\ NewTask(m, at, n) \in TaskRecord
           /\ NewTask(m, at, n).dlv = NoDelivery
BY DEF QueuedRow, Row, Active, NewTask, TaskRecord, NoDelivery, NoTime,
       NoRegistration, NoAttempt, Marks

\* restore_task gives a well-typed record with the lease and the terminal
\* time of the row.
LEMMA RestoredRecord ==
    ASSUME NEW row \in Row, NEW n \in Nat, NEW owner \in Nat
    PROVE  /\ RestoreTask(row, n, owner) \in TaskRecord
           /\ RestoreTask(row, n, owner).dlv = row.dlv
           /\ RestoreTask(row, n, owner).term = row.term
BY DEF RestoreTask, Row, TaskRecord, NoRegistration, NoAttempt, Marks

-----------------------------------------------------------------------------
(* The ledger.                                                             *)

\* The empty HashMap is a partial function of every type.
LEMMA EmptyPartial ==
    /\ DOMAIN <<>> = {}
    /\ \A S, T : Partial(<<>>, S, T)
BY DEF Partial

\* A transaction of SqliteTaskStore::commit keeps the ledger typed and never
\* lowers last_registration_epoch.
LEMMA WriteRows ==
    ASSUME NEW b, IsBatch(b), Partial(ledger, TaskIds, Row), watermark \in Nat,
           Write(b)
    PROVE  /\ Partial(ledger', TaskIds, Row)
           /\ watermark' \in Nat
           /\ watermark' >= watermark /\ watermark' >= b.mark
           /\ b.mark = 0 => watermark' = watermark
BY DEF IsBatch, Partial, Write, Upsert, Without

\* No delivery id in the rows is beyond the n-th one drawn.
DrawnBy(rows, n) == \A t \in DOMAIN rows : rows[t].dlv <= n

\* single_task_batch builds a well-formed batch.
LEMMA OneRowBatch ==
    ASSUME NEW t \in TaskIds, NEW row \in Row, NEW n \in Nat, row.dlv <= n
    PROVE  IsBatch(OneRow(t, row)) /\ DrawnBy(OneRow(t, row).put, n)
BY Zenon DEF IsBatch, OneRow, Partial, DrawnBy

-----------------------------------------------------------------------------
(* The inductive invariant.                                                *)

\* Delivery ids are drawn fresh: none in the table, the ledger or an orphan is
\* beyond the last one drawn.  And an ended record holds no lease.
LeasesDrawn ==
    /\ DrawnBy(tasks, issued)
    /\ DrawnBy(ledger, issued)
    /\ \A o \in orphans : DrawnBy(o.put, issued)
    /\ \A t \in DOMAIN tasks : ~Open(tasks[t]) => tasks[t].dlv = NoDelivery

\* The epoch counter of a running broker has passed every epoch granted.
EpochPassed == up => \A i \in DOMAIN grants : grants[i] <= epoch

Inv == TypeOK /\ DeliveryIndexExact /\ LeasesDrawn /\ EpochFence /\ EpochPassed

\* A step that hands out no registration keeps the epochs fenced, as long as
\* last_registration_epoch does not fall.
LEMMA EpochStep ==
    ASSUME Inv, UNCHANGED <<up, epoch, grants>>,
           watermark' \in Nat, watermark' >= watermark
    PROVE  EpochFence' /\ EpochPassed'
<1>1. /\ watermark \in Nat /\ epoch \in Nat /\ grants \in Seq(Nat)
      /\ EpochFence /\ EpochPassed
  BY Zenon DEF Inv, TypeOK
<1>2. \A i \in DOMAIN grants : grants[i] \in Nat
  BY <1>1
<1>3. QED
  BY <1>1, <1>2 DEF EpochFence, EpochPassed

\* A registration handed out at epoch + 1, once that epoch is in broker_meta,
\* is fenced from all the earlier ones.
LEMMA EpochGranted ==
    ASSUME Inv, up, UNCHANGED up, epoch' = epoch + 1,
           grants' = Append(grants, epoch + 1),
           watermark' \in Nat, watermark' >= watermark, watermark' >= epoch + 1
    PROVE  EpochFence' /\ EpochPassed'
<1>1. /\ watermark \in Nat /\ epoch \in Nat /\ grants \in Seq(Nat)
      /\ \A i, j \in DOMAIN grants : i < j => grants[i] < grants[j]
      /\ \A i \in DOMAIN grants : grants[i] <= epoch
  BY Zenon DEF Inv, TypeOK, EpochFence, EpochPassed
<1>2. /\ Len(grants) \in Nat /\ DOMAIN grants = 1 .. Len(grants)
      /\ DOMAIN grants' = 1 .. (Len(grants) + 1)
      /\ \A i \in DOMAIN grants : grants'[i] = grants[i] /\ grants[i] \in Nat
      /\ grants'[Len(grants) + 1] = epoch + 1
  BY <1>1
<1>3. \A i \in DOMAIN grants' : grants'[i] \in Nat /\ grants'[i] <= epoch'
  BY <1>1, <1>2
<1>4. ASSUME NEW i \in DOMAIN grants', NEW j \in DOMAIN grants', i < j
      PROVE  grants'[i] < grants'[j]
  <2>1. i \in DOMAIN grants
    BY <1>2, <1>4
  <2>2. QED
    BY <1>1, <1>2, <1>4, <2>1
<1>5. QED
  BY <1>1, <1>3, <1>4 DEF EpochFence, EpochPassed

\* A transaction writes only delivery ids that poll_delivery has drawn.
LEMMA WriteDrawn ==
    ASSUME NEW b, NEW n \in Nat, IsBatch(b), Partial(ledger, TaskIds, Row),
           DrawnBy(ledger, n), DrawnBy(b.put, n), Write(b)
    PROVE  DrawnBy(ledger', n)
BY Zenon DEF IsBatch, Partial, Write, Upsert, Without, DrawnBy

\* Rows drawn from the first m delivery ids are drawn from any more of them.
LEMMA DrawnMore ==
    ASSUME NEW S, NEW f, Partial(f, S, Row), NEW m \in Nat, NEW n \in Nat, m <= n,
           DrawnBy(f, m)
    PROVE  DrawnBy(f, n)
BY DEF DrawnBy, Partial, Row

\* The same for the records of the task table.
LEMMA TasksDrawnMore ==
    ASSUME NEW S, NEW f, Partial(f, S, TaskRecord), NEW m \in Nat, NEW n \in Nat,
           m <= n, DrawnBy(f, m)
    PROVE  DrawnBy(f, n)
BY DEF DrawnBy, Partial, TaskRecord

\* commit_transition returning an error, or being dropped in mid-commit,
\* preserves the invariant: memory is untouched and the ledger gains at most
\* the batch.
LEMMA InterruptedKeepsInv ==
    ASSUME Inv, NEW b, IsBatch(b),
           issued' \in Nat, issued <= issued', DrawnBy(b.put, issued'),
           Interrupted(b, TRUE) \/ Interrupted(b, FALSE)
    PROVE  Inv'
<1>1. /\ UNCHANGED <<now, up, sequence, tasks, byDelivery, active, outbound,
                      deadlines, regs, inbox, byAgent, epoch, grants, acks,
                      outcomes>>
      /\ doubt' \in {TRUE, doubt}
      /\ Write(b) \/ UNCHANGED <<ledger, watermark>>
      /\ orphans' \in {orphans, orphans \cup {b}}
  BY Zenon DEF Interrupted, store, memory, index, members
<1>2. /\ Partial(ledger', TaskIds, Row)
      /\ watermark' \in Nat /\ watermark' >= watermark
      /\ DrawnBy(ledger', issued')
  BY <1>1, WriteRows, WriteDrawn, DrawnMore DEF Inv, TypeOK, LeasesDrawn
<1>3. \A o \in orphans' : IsBatch(o) /\ DrawnBy(o.put, issued')
  BY <1>1, DrawnMore DEF Inv, TypeOK, LeasesDrawn, IsBatch
<1>4. TypeOK'
  BY <1>1, <1>2, <1>3, Zenon DEF Inv, TypeOK, Partial
<1>5. DeliveryIndexExact'
  BY <1>1, Zenon DEF Inv, DeliveryIndexExact
<1>6. LeasesDrawn'
  <2>1. DrawnBy(tasks', issued')
    BY <1>1, TasksDrawnMore, Zenon DEF Inv, TypeOK, LeasesDrawn
  <2>2. QED
    BY <1>1, <1>2, <1>3, <2>1, Zenon DEF Inv, LeasesDrawn, Open
<1>7. EpochFence' /\ EpochPassed'
  BY <1>1, <1>2, EpochStep, Zenon
<1>8. QED
  BY <1>4, <1>5, <1>6, <1>7, Zenon DEF Inv

\* What a commit that returns Ok leaves true, whatever memory does with it.
LEMMA CompletedStore ==
    ASSUME Inv, NEW b, IsBatch(b), issued' \in Nat, issued <= issued',
           DrawnBy(b.put, issued'), Completed(b)
    PROVE  /\ UNCHANGED <<now, up, doubt, orphans>>
           /\ Partial(ledger', TaskIds, Row)
           /\ watermark' \in Nat
           /\ watermark' >= watermark /\ watermark' >= b.mark
           /\ DrawnBy(ledger', issued')
           /\ \A o \in orphans' : IsBatch(o) /\ DrawnBy(o.put, issued')
<1>1. Write(b) /\ UNCHANGED <<now, up, doubt, orphans>>
  BY Zenon DEF Completed
<1>2. /\ Partial(ledger, TaskIds, Row) /\ watermark \in Nat /\ issued \in Nat
      /\ DrawnBy(ledger, issued')
      /\ \A o \in orphans : IsBatch(o) /\ DrawnBy(o.put, issued')
  BY DrawnMore, Zenon DEF Inv, TypeOK, LeasesDrawn, IsBatch
<1>3. QED
  BY <1>1, <1>2, WriteRows, WriteDrawn, Zenon

\* Ending the leases of the tasks T removes their ids from the index and no
\* others, so the index stays the inverse of the leases.
LEMMA LeasesGone ==
    ASSUME Inv, NEW T \in SUBSET DOMAIN tasks, byDelivery' = WithoutLeases(T),
           DOMAIN tasks' \subseteq DOMAIN tasks,
           \A t \in DOMAIN tasks' :
              tasks'[t].dlv = IF t \in T THEN NoDelivery ELSE tasks[t].dlv,
           \A t \in DOMAIN tasks \ DOMAIN tasks' :
              t \in T \/ tasks[t].dlv = NoDelivery
    PROVE  /\ DeliveryIndexExact'
           /\ Partial(byDelivery', Nat \ {0}, TaskIds)
<1>1. /\ DOMAIN byDelivery' = {d \in DOMAIN byDelivery : byDelivery[d] \notin T}
      /\ \A d \in DOMAIN byDelivery' : byDelivery'[d] = byDelivery[d]
  BY Zenon DEF Inv, DeliveryIndexExact, WithoutLeases, Without
<1>2. Partial(byDelivery', Nat \ {0}, TaskIds)
  BY Zenon DEF Inv, TypeOK, Partial, WithoutLeases, Without
<1>3. ASSUME NEW d \in DOMAIN byDelivery'
      PROVE  byDelivery'[d] \in DOMAIN tasks' /\ tasks'[byDelivery'[d]].dlv = d
  BY <1>1 DEF Inv, TypeOK, Partial, DeliveryIndexExact, NoDelivery
<1>4. ASSUME NEW t \in DOMAIN tasks', tasks'[t].dlv # NoDelivery
      PROVE  /\ tasks'[t].dlv \in DOMAIN byDelivery'
             /\ byDelivery'[tasks'[t].dlv] = t
  BY <1>1, <1>4 DEF Inv, DeliveryIndexExact
<1>5. QED
  BY <1>2, <1>3, <1>4, Zenon DEF DeliveryIndexExact

-----------------------------------------------------------------------------
(* The batches the broker commits and the snapshots it repairs.             *)

\* The batch register and remove_registration commit is well formed and names
\* only delivery ids already drawn.
LEMMA ReleaseBatchOk ==
    ASSUME Inv, NEW mark \in Nat, NEW R
    PROVE  /\ IsBatch(ReleaseBatch(mark, R))
           /\ ReleaseBatch(mark, R).mark = mark
           /\ DrawnBy(ReleaseBatch(mark, R).put, issued)
<1>1. ASSUME NEW t \in Held(R)
      PROVE  /\ RequeuedRow(DurableTask(tasks[t])) \in Row
             /\ RequeuedRow(DurableTask(tasks[t])).dlv = NoDelivery
  <2>1. tasks[t] \in TaskRecord
    BY Zenon DEF Held, Inv, TypeOK, Partial
  <2>2. now \in Nat
    BY Zenon DEF Inv, TypeOK
  <2>3. QED
    BY <2>1, <2>2, DurableTaskRow, RowTransitions, RowTransitionLeases, Zenon
<1>2. Held(R) \subseteq TaskIds
  BY Zenon DEF Held, Inv, TypeOK, Partial
<1>3. QED
  BY <1>1, <1>2 DEF ReleaseBatch, IsBatch, Partial, DrawnBy, NoDelivery, Inv, TypeOK

\* The batch maintain_state commits is well formed and names only delivery
\* ids already drawn.
LEMMA MaintainBatchOk ==
    ASSUME Inv
    PROVE  IsBatch(MaintainBatch) /\ DrawnBy(MaintainBatch.put, issued)
<1> DEFINE row(t) ==
      IF t \in Due
        THEN TerminalRow(DurableTask(tasks[t]), now, "Expired", NoReply)
        ELSE RequeuedRow(DurableTask(tasks[t]))
<1>1. Due \cup Stranded \subseteq TaskIds /\ Overdue \subseteq TaskIds
  BY Zenon DEF Due, Stranded, Overdue, Inv, TypeOK, Partial
<1>2. ASSUME NEW t \in Due \cup Stranded
      PROVE  row(t) \in Row /\ row(t).dlv = NoDelivery
  <2>1. tasks[t] \in TaskRecord /\ now \in Nat
    BY Zenon DEF Due, Stranded, Inv, TypeOK, Partial
  <2>2. DurableTask(tasks[t]) \in Row
    BY <2>1, DurableTaskRow, Zenon
  <2>3. /\ TerminalRow(DurableTask(tasks[t]), now, "Expired", NoReply) \in Row
        /\ RequeuedRow(DurableTask(tasks[t])) \in Row
    BY <2>1, <2>2, RowTransitions, Zenon DEF Terminal
  <2>4. QED
    BY <2>2, <2>3, RowTransitionLeases
<1>3. MaintainBatch = [mark |-> 0, put |-> [t \in Due \cup Stranded |-> row(t)],
                       del |-> Overdue]
  BY Zenon DEF MaintainBatch
<1> HIDE DEF row
<1>4. QED
  BY <1>1, <1>2, <1>3 DEF IsBatch, Partial, DrawnBy, NoDelivery, Inv, TypeOK

\* What a rebuild needs of a row: a lease only in a state that has one, an
\* end time exactly in a terminal state.
Fits(row) ==
    /\ row.dlv # NoDelivery => row.st \in {"Leased", "Acknowledged"}
    /\ (row.term # NoTime) <=> row.st \in Terminal

\* The repair of validate_and_reconcile_snapshot maps a valid row to a valid
\* row and never invents a lease.
LEMMA ReconciledRowFits ==
    ASSUME NEW row \in Row, ColumnsFitState(row), NEW at \in Nat
    PROVE  /\ ReconciledRow(row, at) \in Row
           /\ Fits(ReconciledRow(row, at))
           /\ ReconciledRow(row, at).dlv \in {row.dlv, NoDelivery}
<1>1. CASE ReconciledRow(row, at) = TerminalRow(row, at, "Expired", NoReply)
  <2>1. TerminalRow(row, at, "Expired", NoReply) \in Row
    BY RowTransitions, Zenon DEF Terminal
  <2>2. /\ TerminalRow(row, at, "Expired", NoReply).dlv = NoDelivery
        /\ TerminalRow(row, at, "Expired", NoReply).st = "Expired"
        /\ TerminalRow(row, at, "Expired", NoReply).term = at
    BY Zenon DEF TerminalRow, Row
  <2>3. QED
    BY <1>1, <2>1, <2>2 DEF Fits, Terminal, NoTime
<1>2. CASE ReconciledRow(row, at) = RequeuedRow(row) /\ row.st = "Leased"
  <2>1. RequeuedRow(row) \in Row
    BY RowTransitions, Zenon
  <2>2. /\ RequeuedRow(row).dlv = NoDelivery
        /\ RequeuedRow(row).st = "Queued"
        /\ RequeuedRow(row).term = row.term
    BY Zenon DEF RequeuedRow, Row
  <2>3. row.term = NoTime
    BY <1>2, Zenon DEF ColumnsFitState, Terminal
  <2>4. QED
    BY <1>2, <2>1, <2>2, <2>3, Zenon DEF Fits, Terminal
<1>3. CASE ReconciledRow(row, at) = row
  BY <1>3, Zenon DEF Fits, ColumnsFitState
<1>4. QED
  BY <1>1, <1>2, <1>3, Zenon DEF ReconciledRow

\* The repaired snapshot is typed, and no two of its rows share a delivery
\* id.
LEMMA ReconciledRowsFit ==
    ASSUME Inv, SnapshotValid(ledger), NEW rows, rows = ReconciledRows(ledger, now)
    PROVE  /\ Partial(rows, TaskIds, Row) /\ DrawnBy(rows, issued)
           /\ \A t \in DOMAIN rows : Fits(rows[t])
           /\ \A t, u \in DOMAIN rows :
                t # u /\ rows[t].dlv # NoDelivery => rows[t].dlv # rows[u].dlv
<1>1. now \in Nat /\ issued \in Nat /\ DOMAIN rows \subseteq DOMAIN ledger
  BY Zenon DEF Inv, TypeOK, ReconciledRows
<1>2. ASSUME NEW t \in DOMAIN rows
      PROVE  /\ t \in TaskIds /\ rows[t] \in Row /\ Fits(rows[t])
             /\ rows[t].dlv \in {ledger[t].dlv, NoDelivery}
             /\ ledger[t].dlv <= issued
  <2>1. t \in DOMAIN ledger /\ rows[t] = ReconciledRow(ledger[t], now)
    BY Zenon DEF ReconciledRows
  <2>2. ledger[t] \in Row /\ t \in TaskIds /\ ledger[t].dlv <= issued
    BY <2>1, Zenon DEF Inv, TypeOK, Partial, LeasesDrawn, DrawnBy
  <2>3. ColumnsFitState(ledger[t])
    BY <2>1, Zenon DEF SnapshotValid, ValidDurableTask
  <2>4. QED
    BY <1>1, <2>1, <2>2, <2>3, ReconciledRowFits, Zenon
<1>3. Partial(rows, TaskIds, Row)
  BY <1>2, Zenon DEF Partial, ReconciledRows
<1>4. DrawnBy(rows, issued)
  BY <1>1, <1>2 DEF DrawnBy, NoDelivery
<1>5. ASSUME NEW t \in DOMAIN rows, NEW u \in DOMAIN rows, t # u,
             rows[t].dlv # NoDelivery
      PROVE  rows[t].dlv # rows[u].dlv
  BY <1>1, <1>2, <1>5, Zenon DEF SnapshotValid
<1>6. QED
  BY <1>2, <1>3, <1>4, <1>5, Zenon

\* The batch that writes the repair back is well formed.
LEMMA ReconcileBatchOk ==
    ASSUME Inv, SnapshotValid(ledger)
    PROVE  /\ IsBatch(ReconcileBatch(ledger, now))
           /\ ReconcileBatch(ledger, now).mark = 0
           /\ DrawnBy(ReconcileBatch(ledger, now).put, issued)
<1> DEFINE rows == ReconciledRows(ledger, now)
<1>1. Partial(rows, TaskIds, Row) /\ DrawnBy(rows, issued)
  BY ReconciledRowsFit, Zenon
<1>2. DOMAIN ledger \subseteq TaskIds
  BY Zenon DEF Inv, TypeOK, Partial
<1> HIDE DEF rows
<1>3. ReconcileBatch(ledger, now) =
        [mark |-> 0,
         put |-> [t \in {u \in DOMAIN rows : rows[u] # ledger[u]} |-> rows[t]],
         del |-> {t \in DOMAIN ledger : Retired(ledger[t], now)}]
  BY Zenon DEF ReconcileBatch, rows
<1>4. QED
  BY <1>1, <1>2, <1>3 DEF IsBatch, Partial, DrawnBy

-----------------------------------------------------------------------------
(* Records and rows.                                                       *)

\* A TaskRecord whose fields agree with each other, as the operations and
\* restore_task leave it.
Shaped(task) ==
    /\ (task.dlv # NoDelivery) <=> (task.until # NoTime)
    /\ task.acked <=> (task.ackAt # NoTime)
    /\ task.acked => task.dlv # NoDelivery
    /\ task.dlv # NoDelivery => task.ver > 1
    /\ Open(task) => /\ task.mark = "none" /\ task.reply = NoReply
                     /\ (task.last = NoAttempt) <=> (task.ver = 1)
    /\ ~Open(task) => /\ task.dlv = NoDelivery /\ task.ver > 1
                      /\ (task.reply # NoReply)
                           <=> task.mark \in {"none", "failed", "rejected"}

\* A row whose columns fit its state, and which no attempt precedes at
\* version 1.
WellFormed(row) ==
    /\ ColumnsFitState(row)
    /\ (row.dlv # NoDelivery) <=> (row.until # NoTime)
    /\ row.ver = 1 => row.st = "Queued" /\ row.attempt = 0

\* new is the row that one operation on an open task writes over old.
Succeeds(old, new) ==
    /\ new.ver = old.ver + 1
    /\ old.st \notin Terminal
    /\ Lifecycle!Move(StatusOf(old), StatusOf(new))

\* What any number of such operations leave true of the first and the last row.
Later(old, new) ==
    /\ new.ver > old.ver
    /\ old.st \notin Terminal
    /\ old.st = "Acknowledged" => new.st \in Terminal

\* Rows with the same columns are the same row.
LEMMA RowEqual ==
    ASSUME NEW a \in Row, NEW b \in Row,
           a.ver = b.ver, a.st = b.st, a.msg = b.msg, a.created = b.created,
           a.dlv = b.dlv, a.until = b.until, a.attempt = b.attempt, a.ack = b.ack,
           a.reply = b.reply, a.term = b.term
    PROVE  a = b
BY DEF Row

\* durable_task copies the record; its state column follows from the marks.
LEMMA DurableColumns ==
    ASSUME NEW task \in TaskRecord
    PROVE  LET row == DurableTask(task)
           IN  /\ row \in Row /\ row.ver = task.ver /\ row.msg = task.msg
               /\ row.created = task.created /\ row.dlv = task.dlv
               /\ row.until = task.until /\ row.attempt = AttemptOf(task)
               /\ row.ack = task.ackAt /\ row.reply = task.reply
               /\ row.term = task.term
<1>1. DurableTask(task) \in Row
  BY DurableTaskRow, Zenon
<1>2. QED
  BY <1>1, Zenon DEF DurableTask

\* The state column of a record whose fields agree.
LEMMA DurableState ==
    ASSUME NEW task \in TaskRecord, Shaped(task)
    PROVE  LET row == DurableTask(task)
           IN  /\ Open(task) => row.st = IF task.acked THEN "Acknowledged"
                                         ELSE IF task.dlv # NoDelivery THEN "Leased"
                                         ELSE "Queued"
               /\ ~Open(task) =>
                    row.st = CASE task.mark = "failed" -> "Failed"
                               [] task.mark = "rejected" -> "Rejected"
                               [] task.mark = "canceled" -> "Canceled"
                               [] task.mark = "expired" -> "Expired"
                               [] task.mark = "none" -> "Replied"
               /\ row.st \in Terminal <=> ~Open(task)
<1>1. task.mark \in Marks
  BY Zenon DEF TaskRecord
<1>2. CASE Open(task)
  <2>1. task.mark = "none" /\ task.reply = NoReply
    BY <1>2, Zenon DEF Shaped
  <2>2. QED
    BY <1>2, <2>1, Zenon DEF DurableTask, Terminal
<1>3. CASE ~Open(task)
  <2>1. (task.reply # NoReply) <=> task.mark \in {"none", "failed", "rejected"}
    BY <1>3, Zenon DEF Shaped
  <2>2. QED
    BY <1>1, <1>3, <2>1, Zenon DEF DurableTask, Terminal, Marks
<1>4. QED
  BY <1>2, <1>3, Zenon

\* The row of such a record is well formed.
LEMMA DurableWellFormed ==
    ASSUME NEW task \in TaskRecord, Shaped(task)
    PROVE  WellFormed(DurableTask(task))
<1> DEFINE row == DurableTask(task)
<1> SUFFICES WellFormed(row)
  BY Zenon
<1>1. /\ row \in Row /\ row.ver = task.ver
      /\ row.dlv = task.dlv /\ row.until = task.until
      /\ row.attempt = AttemptOf(task) /\ row.ack = task.ackAt
      /\ row.reply = task.reply /\ row.term = task.term
  BY DurableColumns, Zenon
<1>2. /\ Open(task) => row.st = IF task.acked THEN "Acknowledged"
                                ELSE IF task.dlv # NoDelivery THEN "Leased"
                                ELSE "Queued"
      /\ ~Open(task) => row.st = CASE task.mark = "failed" -> "Failed"
                                   [] task.mark = "rejected" -> "Rejected"
                                   [] task.mark = "canceled" -> "Canceled"
                                   [] task.mark = "expired" -> "Expired"
                                   [] task.mark = "none" -> "Replied"
  BY DurableState, Zenon
<1>3. task.mark \in Marks /\ task.acked \in BOOLEAN
  BY Zenon DEF TaskRecord
<1> HIDE DEF row
<1>4. /\ (row.dlv # NoDelivery) <=> (row.until # NoTime)
      /\ row.ver = 1 => Open(task) /\ row.dlv = NoDelivery /\ ~task.acked
                         /\ row.attempt = 0
  BY <1>1, <1>3 DEF Shaped, AttemptOf
<1>5. CASE Open(task)
  <2>1. /\ row.term = NoTime /\ row.reply = NoReply
        /\ task.acked => row.dlv # NoDelivery
        /\ (row.ack # NoTime) <=> task.acked
    BY <1>1, <1>5, Zenon DEF Shaped, Open
  <2>2. CASE task.acked
    BY <1>2, <1>4, <1>5, <2>1, <2>2, Zenon
       DEF WellFormed, ColumnsFitState, Terminal, Answered
  <2>3. CASE ~task.acked
    <3>1. /\ row.st = IF row.dlv # NoDelivery THEN "Leased" ELSE "Queued"
          /\ row.ack = NoTime
      BY <1>1, <1>2, <1>5, <2>1, <2>3, Zenon
    <3>2. QED
      BY <1>4, <2>1, <3>1, Zenon DEF WellFormed, ColumnsFitState, Terminal, Answered
  <2>4. QED
    BY <2>2, <2>3, Zenon
<1>6. CASE ~Open(task)
  <2>1. /\ row.term # NoTime /\ row.dlv = NoDelivery /\ row.ack = NoTime
        /\ (row.reply # NoReply) <=> task.mark \in {"none", "failed", "rejected"}
    BY <1>1, <1>6, Zenon DEF Shaped, Open
  <2>2. /\ row.st \in Terminal
        /\ row.st \in Answered <=> task.mark \in {"none", "failed", "rejected"}
    BY <1>2, <1>3, <1>6, Zenon DEF Terminal, Answered, Marks
  <2>3. QED
    BY <1>4, <1>6, <2>1, <2>2, Zenon DEF WellFormed, ColumnsFitState, Terminal
<1>7. QED
  BY <1>5, <1>6, Zenon

\* A row with the columns of a record is its row.
LEMMA DurableIs ==
    ASSUME NEW task \in TaskRecord, NEW row \in Row,
           row.ver = task.ver, row.st = DurableTask(task).st, row.msg = task.msg,
           row.created = task.created, row.dlv = task.dlv, row.until = task.until,
           row.attempt = AttemptOf(task), row.ack = task.ackAt,
           row.reply = task.reply, row.term = task.term
    PROVE  DurableTask(task) = row
<1> DEFINE durable == DurableTask(task)
<1>1. /\ durable \in Row /\ durable.ver = task.ver /\ durable.msg = task.msg
      /\ durable.created = task.created /\ durable.dlv = task.dlv
      /\ durable.until = task.until /\ durable.attempt = AttemptOf(task)
      /\ durable.ack = task.ackAt /\ durable.reply = task.reply
      /\ durable.term = task.term
  BY DurableColumns, Zenon
<1> HIDE DEF durable
<1>2. durable = row
  BY <1>1, RowEqual DEF durable
<1>3. QED
  BY <1>2, Zenon DEF durable

\* The columns each durable_..._task function writes and the ones it keeps.
LEMMA RequeuedColumns ==
    ASSUME NEW row \in Row
    PROVE  LET new == RequeuedRow(row)
           IN  /\ new \in Row
               /\ new.ver = row.ver + 1 /\ new.st = "Queued" /\ new.msg = row.msg
               /\ new.created = row.created /\ new.dlv = NoDelivery
               /\ new.until = NoTime /\ new.attempt = row.attempt
               /\ new.ack = NoTime /\ new.reply = row.reply /\ new.term = row.term
<1>1. RequeuedRow(row) \in Row
  BY RowTransitions, Zenon
<1>2. QED
  BY <1>1, Zenon DEF RequeuedRow, Row

LEMMA AcknowledgedColumns ==
    ASSUME NEW row \in Row, NEW at \in Nat
    PROVE  LET new == AcknowledgedRow(row, at)
           IN  /\ new \in Row
               /\ new.ver = row.ver + 1 /\ new.st = "Acknowledged"
               /\ new.msg = row.msg /\ new.created = row.created
               /\ new.dlv = row.dlv /\ new.until = row.until
               /\ new.attempt = row.attempt /\ new.ack = at
               /\ new.reply = row.reply /\ new.term = row.term
<1>1. AcknowledgedRow(row, at) \in Row
  BY RowTransitions, Zenon
<1>2. QED
  BY <1>1, Zenon DEF AcknowledgedRow, Row

LEMMA TerminalColumns ==
    ASSUME NEW row \in Row, NEW at \in Nat, NEW st \in Terminal,
           NEW p \in Replies \cup {NoReply}
    PROVE  LET new == TerminalRow(row, at, st, p)
           IN  /\ new \in Row
               /\ new.ver = row.ver + 1 /\ new.st = st /\ new.msg = row.msg
               /\ new.created = row.created /\ new.dlv = NoDelivery
               /\ new.until = NoTime /\ new.attempt = row.attempt
               /\ new.ack = NoTime /\ new.reply = p /\ new.term = at
<1>1. TerminalRow(row, at, st, p) \in Row
  BY RowTransitions, Zenon
<1>2. QED
  BY <1>1, Zenon DEF TerminalRow, Row

\* The operations on a record in memory and the functions that write its row
\* are the same transitions: durable_task of the one is the other.  First, the
\* end of a lease.
LEMMA ReleaseDurable ==
    ASSUME NEW task \in TaskRecord, Shaped(task), now \in Nat,
           Open(task), ~task.acked, task.dlv # NoDelivery
    PROVE  /\ Shaped(ReleaseLease(task))
           /\ DurableTask(ReleaseLease(task)) = RequeuedRow(DurableTask(task))
<1> DEFINE new == ReleaseLease(task)
           row == RequeuedRow(DurableTask(task))
<1>1. new \in TaskRecord
  BY TaskTransitions, Zenon
<1>2. /\ new.ver = task.ver + 1 /\ new.msg = task.msg /\ new.created = task.created
      /\ new.dlv = NoDelivery /\ new.until = NoTime /\ new.last = task.last
      /\ new.ackAt = task.ackAt /\ new.reply = task.reply /\ new.mark = task.mark
      /\ new.term = task.term
  BY Zenon DEF ReleaseLease, TaskRecord
<1>3. new.acked = task.acked
  BY Zenon DEF ReleaseLease, TaskRecord
<1>4. Shaped(new)
  BY <1>2, <1>3 DEF Shaped, Open, TaskRecord
<1>5. new.ackAt = NoTime /\ AttemptOf(new) = AttemptOf(task)
  BY <1>2, Zenon DEF Shaped, AttemptOf
<1>6. DurableTask(new).st = "Queued"
  BY <1>1, <1>2, <1>3, <1>4, DurableState, Zenon DEF Open
<1>7. /\ row \in Row /\ row.ver = task.ver + 1 /\ row.st = "Queued"
      /\ row.msg = task.msg /\ row.created = task.created
      /\ row.dlv = NoDelivery /\ row.until = NoTime
      /\ row.attempt = AttemptOf(task) /\ row.ack = NoTime
      /\ row.reply = task.reply /\ row.term = task.term
  BY DurableColumns, RequeuedColumns
<1> HIDE DEF new, row
<1>8. DurableTask(new) = row
  BY <1>1, <1>2, <1>5, <1>6, <1>7, DurableIs, Zenon
<1>9. QED
  BY <1>4, <1>8, Zenon DEF new, row

\* poll_delivery: a lease that counts one attempt more.
LEMMA LeaseDurable ==
    ASSUME NEW task \in TaskRecord, Shaped(task), now \in Nat,
           Open(task), ~task.acked, NEW d \in Nat \ {0}, NEW r \in Nat
    PROVE  /\ task.last + 1 \in Nat
           /\ Shaped(LeaseTask(task, d, r, task.last + 1))
           /\ DurableTask(LeaseTask(task, d, r, task.last + 1))
                = LeasedRow(DurableTask(task), d, now, task.last + 1)
<1> DEFINE n == task.last + 1
           new == LeaseTask(task, d, r, n)
           row == LeasedRow(DurableTask(task), d, now, n)
<1>1. n \in Nat
  BY DEF TaskRecord, NoAttempt
<1>2. new \in TaskRecord
  BY <1>1, TaskTransitions, Zenon
<1>3. /\ new.ver = task.ver + 1 /\ new.msg = task.msg /\ new.created = task.created
      /\ new.dlv = d /\ new.until = now + DeliveryLease /\ new.last = n
      /\ new.ackAt = task.ackAt /\ new.reply = task.reply /\ new.mark = task.mark
      /\ new.term = task.term
  BY Zenon DEF LeaseTask, TaskRecord
<1>4. new.acked = task.acked
  BY Zenon DEF LeaseTask, TaskRecord
<1>5. now + DeliveryLease \in Nat /\ task.ver \in Nat \ {0}
  BY DurableRowsAssumption DEF DurableRowsAssumption, TaskRecord
<1> HIDE DEF n, new
<1>6. /\ row \in Row /\ row.ver = task.ver + 1 /\ row.st = "Leased"
      /\ row.msg = task.msg /\ row.created = task.created
      /\ row.dlv = d /\ row.until = now + DeliveryLease
      /\ row.attempt = n /\ row.ack = NoTime
      /\ row.reply = task.reply /\ row.term = task.term
  <2> DEFINE old == DurableTask(task)
  <2>1. /\ old \in Row /\ old.ver = task.ver /\ old.msg = task.msg
        /\ old.created = task.created /\ old.reply = task.reply
        /\ old.term = task.term
    BY DurableColumns, Zenon
  <2> HIDE DEF old
  <2>2. LET leased == LeasedRow(old, d, now, n)
        IN  /\ leased \in Row /\ leased.ver = old.ver + 1 /\ leased.st = "Leased"
            /\ leased.msg = old.msg /\ leased.created = old.created
            /\ leased.dlv = d /\ leased.until = now + DeliveryLease
            /\ leased.attempt = n /\ leased.ack = NoTime
            /\ leased.reply = old.reply /\ leased.term = old.term
    <3>1. LeasedRow(old, d, now, n) \in Row
      BY <1>1, <2>1, RowTransitions, Zenon
    <3>2. QED
      BY <2>1, <3>1, Zenon DEF LeasedRow, Row
  <2>3. QED
    BY <2>1, <2>2, Zenon DEF old
<1> HIDE DEF row
<1>7. Shaped(new)
  BY <1>1, <1>3, <1>4, <1>5 DEF Shaped, Open, NoTime, NoDelivery, NoAttempt
<1>8. new.ackAt = NoTime /\ AttemptOf(new) = n
  BY <1>1, <1>3 DEF Shaped, AttemptOf, NoAttempt
<1>9. DurableTask(new).st = "Leased"
  BY <1>2, <1>3, <1>4, <1>7, DurableState, Zenon DEF Open, NoDelivery
<1>10. DurableTask(new) = row
  BY <1>2, <1>3, <1>6, <1>8, <1>9, DurableIs, Zenon
<1>11. QED
  BY <1>1, <1>7, <1>10, Zenon DEF n, new, row

\* ack_delivery.
LEMMA AcknowledgeDurable ==
    ASSUME NEW task \in TaskRecord, Shaped(task), now \in Nat,
           Open(task), ~task.acked, task.dlv # NoDelivery
    PROVE  /\ Shaped(AcknowledgeTask(task))
           /\ DurableTask(AcknowledgeTask(task))
                = AcknowledgedRow(DurableTask(task), now)
<1> DEFINE new == AcknowledgeTask(task)
           row == AcknowledgedRow(DurableTask(task), now)
<1>1. new \in TaskRecord
  BY TaskTransitions, Zenon
<1>2. /\ new.ver = task.ver + 1 /\ new.msg = task.msg /\ new.created = task.created
      /\ new.dlv = task.dlv /\ new.until = task.until /\ new.last = task.last
      /\ new.ackAt = now /\ new.reply = task.reply /\ new.mark = task.mark
      /\ new.term = task.term
  BY Zenon DEF AcknowledgeTask, TaskRecord
<1>3. new.acked = TRUE
  BY Zenon DEF AcknowledgeTask, TaskRecord
<1>4. task.ver \in Nat \ {0} /\ AttemptOf(new) = AttemptOf(task)
  BY <1>2, Zenon DEF AttemptOf, TaskRecord
<1>5. /\ row \in Row /\ row.ver = task.ver + 1 /\ row.st = "Acknowledged"
      /\ row.msg = task.msg /\ row.created = task.created
      /\ row.dlv = task.dlv /\ row.until = task.until
      /\ row.attempt = AttemptOf(task) /\ row.ack = now
      /\ row.reply = task.reply /\ row.term = task.term
  BY DurableColumns, AcknowledgedColumns
<1> HIDE DEF new, row
<1>6. Shaped(new)
  BY <1>2, <1>3, <1>4 DEF Shaped, Open, NoTime
<1>7. DurableTask(new).st = "Acknowledged"
  BY <1>1, <1>2, <1>3, <1>6, DurableState, Zenon DEF Open
<1>8. DurableTask(new) = row
  BY <1>1, <1>2, <1>4, <1>5, <1>7, DurableIs, Zenon
<1>9. QED
  BY <1>6, <1>8, Zenon DEF new, row

\* A reply comes with an answer and only with one.
Concludes(st, p) == /\ st \in Terminal /\ p \in Replies \cup {NoReply}
                    /\ (p = NoReply) <=> st \in {"Canceled", "Expired"}

\* terminalize_task.
LEMMA TerminalizeDurable ==
    ASSUME NEW task \in TaskRecord, Shaped(task), now \in Nat, Open(task),
           NEW st, NEW p, Concludes(st, p)
    PROVE  /\ Shaped(TerminalizeTask(task, st, p))
           /\ DurableTask(TerminalizeTask(task, st, p))
                = TerminalRow(DurableTask(task), now, st, p)
<1> DEFINE new == TerminalizeTask(task, st, p)
           row == TerminalRow(DurableTask(task), now, st, p)
<1>1. new \in TaskRecord
  BY TaskTransitions, Zenon DEF Concludes
<1>2. /\ new.ver = task.ver + 1 /\ new.msg = task.msg /\ new.created = task.created
      /\ new.dlv = NoDelivery /\ new.until = NoTime /\ new.last = task.last
      /\ new.ackAt = NoTime /\ new.reply = p /\ new.mark = MarkOf(st)
      /\ new.term = now
  BY Zenon DEF TerminalizeTask, TaskRecord
<1>3. new.acked = FALSE
  BY Zenon DEF TerminalizeTask, TaskRecord
<1>4. task.ver \in Nat \ {0} /\ AttemptOf(new) = AttemptOf(task)
  BY <1>2, Zenon DEF AttemptOf, TaskRecord
<1>5. /\ row \in Row /\ row.ver = task.ver + 1 /\ row.st = st
      /\ row.msg = task.msg /\ row.created = task.created
      /\ row.dlv = NoDelivery /\ row.until = NoTime
      /\ row.attempt = AttemptOf(task) /\ row.ack = NoTime
      /\ row.reply = p /\ row.term = now
  BY DurableColumns, TerminalColumns DEF Concludes
<1> HIDE DEF new, row
<1>6. (p # NoReply) <=> MarkOf(st) \in {"none", "failed", "rejected"}
  BY Zenon DEF Concludes, MarkOf, Terminal
<1>7. ~Open(new)
  BY <1>2 DEF Open, NoTime
<1>8. Shaped(new)
  BY <1>2, <1>3, <1>4, <1>6, <1>7 DEF Shaped
<1>9. DurableTask(new).st = st
  <2>1. DurableTask(new).st = CASE new.mark = "failed" -> "Failed"
                                [] new.mark = "rejected" -> "Rejected"
                                [] new.mark = "canceled" -> "Canceled"
                                [] new.mark = "expired" -> "Expired"
                                [] new.mark = "none" -> "Replied"
    BY <1>1, <1>7, <1>8, DurableState, Zenon
  <2>2. QED
    BY <1>2, <2>1, Zenon DEF Concludes, MarkOf, Terminal
<1>10. DurableTask(new) = row
  BY <1>1, <1>2, <1>4, <1>5, <1>9, DurableIs, Zenon
<1>11. QED
  BY <1>8, <1>10, Zenon DEF new, row

\* enqueue.
LEMMA NewDurable ==
    ASSUME NEW m \in Messages, NEW at \in Nat, NEW n \in Nat
    PROVE  /\ Shaped(NewTask(m, at, n))
           /\ DurableTask(NewTask(m, at, n)) = QueuedRow(m, at)
           /\ WellFormed(QueuedRow(m, at))
<1> DEFINE new == NewTask(m, at, n)
           row == QueuedRow(m, at)
<1>1. new \in TaskRecord /\ row \in Row
  BY NewTaskRecord, Zenon
<1>2. /\ new.ver = 1 /\ new.msg = m /\ new.created = at
      /\ new.dlv = NoDelivery /\ new.until = NoTime /\ new.last = NoAttempt
      /\ new.ackAt = NoTime /\ new.reply = NoReply /\ new.mark = "none"
      /\ new.term = NoTime /\ new.acked = FALSE
  BY Zenon DEF NewTask
<1>3. /\ row.ver = 1 /\ row.st = "Queued" /\ row.msg = m /\ row.created = at
      /\ row.dlv = NoDelivery /\ row.until = NoTime /\ row.attempt = 0
      /\ row.ack = NoTime /\ row.reply = NoReply /\ row.term = NoTime
  BY Zenon DEF QueuedRow
<1> HIDE DEF new, row
<1>4. Shaped(new)
  BY <1>2, Zenon DEF Shaped, Open
<1>5. DurableTask(new).st = "Queued" /\ AttemptOf(new) = 0
  BY <1>1, <1>2, <1>4, DurableState, Zenon DEF Open, AttemptOf
<1>6. DurableTask(new) = row
  BY <1>1, <1>2, <1>3, <1>5, DurableIs, Zenon
<1>7. WellFormed(row)
  BY <1>3, Zenon DEF WellFormed, ColumnsFitState, Terminal, Answered
<1>8. QED
  BY <1>4, <1>6, <1>7, Zenon DEF new, row

\* restore_task undoes durable_task.
LEMMA RestoreDurable ==
    ASSUME NEW row \in Row, WellFormed(row), NEW n \in Nat, NEW owner \in Nat
    PROVE  /\ Shaped(RestoreTask(row, n, owner))
           /\ DurableTask(RestoreTask(row, n, owner)) = row
<1> DEFINE new == RestoreTask(row, n, owner)
<1>1. new \in TaskRecord
  BY RestoredRecord, Zenon
<1>2. /\ new.ver = row.ver /\ new.msg = row.msg /\ new.created = row.created
      /\ new.dlv = row.dlv /\ new.until = row.until
      /\ new.last = IF row.ver > 1 THEN row.attempt ELSE NoAttempt
      /\ new.ackAt = row.ack /\ new.reply = row.reply
      /\ new.mark = CASE row.st = "Failed" -> "failed"
                      [] row.st = "Rejected" -> "rejected"
                      [] row.st = "Canceled" -> "canceled"
                      [] row.st = "Expired" -> "expired"
                      [] OTHER -> "none"
      /\ new.term = row.term
  BY Zenon DEF RestoreTask
<1>3. new.acked = (row.st = "Acknowledged")
  BY Zenon DEF RestoreTask
<1>4. /\ row.ver \in Nat \ {0} /\ row.st \in Active \cup Terminal
      /\ row.attempt \in Nat
  BY Zenon DEF Row
<1> HIDE DEF new
<1>5. Open(new) <=> row.st \in Active
  BY <1>2, <1>4, Zenon DEF WellFormed, ColumnsFitState, Open, Active, Terminal
<1>6. Shaped(new)
  <2>1. /\ (new.dlv # NoDelivery) <=> (new.until # NoTime)
        /\ row.st = "Acknowledged" <=> (new.ackAt # NoTime)
        /\ row.st = "Acknowledged" => new.dlv # NoDelivery
        /\ new.dlv # NoDelivery => new.ver > 1
    BY <1>2, <1>4 DEF WellFormed, ColumnsFitState
  <2>2. ASSUME Open(new)
        PROVE  /\ new.mark = "none" /\ new.reply = NoReply
               /\ (new.last = NoAttempt) <=> (new.ver = 1)
    BY <1>2, <1>4, <1>5, <2>2
       DEF WellFormed, ColumnsFitState, Active, Answered, NoAttempt
  <2>3. ASSUME ~Open(new)
        PROVE  /\ new.dlv = NoDelivery /\ new.ver > 1
               /\ (new.reply # NoReply)
                    <=> new.mark \in {"none", "failed", "rejected"}
    BY <1>2, <1>4, <1>5, <2>3
       DEF WellFormed, ColumnsFitState, Active, Terminal, Answered
  <2>4. QED
    BY <1>3, <2>1, <2>2, <2>3, Zenon DEF Shaped
<1>7. AttemptOf(new) = row.attempt
  BY <1>2, <1>4 DEF WellFormed, AttemptOf, NoAttempt
<1>8. DurableTask(new).st = row.st
  <2>1. CASE Open(new)
    <3>1. DurableTask(new).st = IF new.acked THEN "Acknowledged"
                                ELSE IF new.dlv # NoDelivery THEN "Leased"
                                ELSE "Queued"
      BY <1>1, <1>6, <2>1, DurableState, Zenon
    <3>2. QED
      BY <1>2, <1>3, <1>5, <2>1, <3>1, Zenon DEF WellFormed, ColumnsFitState, Active
  <2>2. CASE ~Open(new)
    <3>1. DurableTask(new).st = CASE new.mark = "failed" -> "Failed"
                                  [] new.mark = "rejected" -> "Rejected"
                                  [] new.mark = "canceled" -> "Canceled"
                                  [] new.mark = "expired" -> "Expired"
                                  [] new.mark = "none" -> "Replied"
      BY <1>1, <1>6, <2>2, DurableState, Zenon
    <3>2. row.st \in Terminal
      BY <1>4, <1>5, <2>2, Zenon
    <3>3. QED
      BY <1>2, <3>1, <3>2, Zenon DEF Terminal
  <2>3. QED
    BY <2>1, <2>2, Zenon
<1>9. DurableTask(new) = row
  BY <1>1, <1>2, <1>7, <1>8, DurableIs, Zenon
<1>10. QED
  BY <1>6, <1>9, Zenon DEF new

-----------------------------------------------------------------------------
(* One write of a row is one move of the lifecycle.                        *)

Status == [st : Active \cup Terminal \cup {"Unknown"}, dlv : Nat, offers : Nat,
           reply : Replies \cup {NoReply}]

\* What the lifecycle sees of a row, and when it sees two rows alike.
LEMMA StatusColumns ==
    ASSUME NEW row \in Row
    PROVE  LET status == StatusOf(row)
           IN  /\ status \in Status /\ status.st = row.st /\ status.dlv = row.dlv
               /\ status.offers = IF row.st \in Terminal \/ row.ver = 1
                                    THEN 0 ELSE row.attempt + 1
               /\ status.reply = row.reply
BY DEF StatusOf, Status, Row

LEMMA StatusEqual ==
    ASSUME NEW a \in Status, NEW b \in Status, a.st = b.st, a.dlv = b.dlv,
           a.offers = b.offers, a.reply = b.reply
    PROVE  a = b
BY DEF Status

\* An open row that is offered, lapses, is acknowledged or ends moves so.
LEMMA RequeuedSucceeds ==
    ASSUME NEW row \in Row, WellFormed(row), row.st = "Leased"
    PROVE  WellFormed(RequeuedRow(row)) /\ Succeeds(row, RequeuedRow(row))
<1> DEFINE new == RequeuedRow(row)
<1>1. /\ new \in Row
      /\ new.ver = row.ver + 1 /\ new.st = "Queued" /\ new.dlv = NoDelivery
      /\ new.until = NoTime /\ new.attempt = row.attempt
      /\ new.ack = NoTime /\ new.reply = row.reply /\ new.term = row.term
  BY RequeuedColumns, Zenon
<1>2. /\ row.ver \in Nat \ {0} /\ row.ver # 1 /\ row.st \notin Terminal
      /\ row.reply = NoReply /\ row.term = NoTime
  BY Zenon DEF WellFormed, ColumnsFitState, Row, Terminal, Answered
<1> HIDE DEF new
<1>3. WellFormed(new)
  BY <1>1, <1>2 DEF WellFormed, ColumnsFitState, Terminal, Answered
<1>4. Lifecycle!Lapse(StatusOf(row), StatusOf(new))
  <2> DEFINE old == StatusOf(row)
             want == [old EXCEPT !.st = "Queued", !.dlv = NoDelivery]
  <2>1. /\ old \in Status /\ old.st = "Leased" /\ old.dlv = row.dlv
        /\ old.offers = row.attempt + 1 /\ old.reply = row.reply
    BY <1>2, StatusColumns, Zenon
  <2>2. /\ StatusOf(new) \in Status /\ StatusOf(new).st = "Queued"
        /\ StatusOf(new).dlv = NoDelivery
        /\ StatusOf(new).offers = row.attempt + 1 /\ StatusOf(new).reply = row.reply
    BY <1>1, <1>2, StatusColumns DEF Terminal
  <2> HIDE DEF old
  <2>3. want \in Status /\ want.st = "Queued" /\ want.dlv = NoDelivery
        /\ want.offers = old.offers /\ want.reply = old.reply
    BY <2>1, Zenon DEF Status, Active, NoDelivery
  <2> HIDE DEF want
  <2>4. StatusOf(new) = want
    BY <2>1, <2>2, <2>3, StatusEqual, Zenon
  <2>5. QED
    BY <2>1, <2>4, Zenon DEF Lifecycle!Lapse, old, want
<1>5. QED
  BY <1>1, <1>2, <1>3, <1>4, Zenon DEF Succeeds, Lifecycle!Move, new

LEMMA LeasedSucceeds ==
    ASSUME NEW row \in Row, WellFormed(row), row.st \in {"Queued", "Leased"},
           NEW d \in Nat \ {0}, NEW at \in Nat, NEW n \in Nat, d # row.dlv,
           n = IF row.ver = 1 THEN 0 ELSE row.attempt + 1
    PROVE  /\ WellFormed(LeasedRow(row, d, at, n))
           /\ Succeeds(row, LeasedRow(row, d, at, n))
<1> DEFINE new == LeasedRow(row, d, at, n)
<1>1. new \in Row
  BY RowTransitions, Zenon
<1>2. /\ new.ver = row.ver + 1 /\ new.st = "Leased" /\ new.dlv = d
      /\ new.until = at + DeliveryLease /\ new.attempt = n
      /\ new.ack = NoTime /\ new.reply = row.reply /\ new.term = row.term
  BY <1>1 DEF LeasedRow, Row
<1>3. /\ row.ver \in Nat \ {0} /\ row.st \notin Terminal /\ row.attempt \in Nat
      /\ row.reply = NoReply /\ row.term = NoTime
      /\ at + DeliveryLease # NoTime
  BY DurableRowsAssumption
     DEF WellFormed, ColumnsFitState, Row, Terminal, Answered,
         DurableRowsAssumption, NoTime
<1> HIDE DEF new
<1>4. WellFormed(new)
  BY <1>2, <1>3 DEF WellFormed, ColumnsFitState, Terminal, Answered, NoDelivery
<1>5. Lifecycle!Offer(StatusOf(row), StatusOf(new))
  <2> DEFINE old == StatusOf(row)
             want == [old EXCEPT !.st = "Leased", !.dlv = StatusOf(new).dlv,
                                 !.offers = @ + 1]
  <2>1. /\ old \in Status /\ old.st = row.st /\ old.dlv = row.dlv
        /\ old.offers = n /\ old.reply = row.reply
    BY <1>3, StatusColumns, Zenon
  <2>2. /\ StatusOf(new) \in Status /\ StatusOf(new).st = "Leased"
        /\ StatusOf(new).dlv = d
        /\ StatusOf(new).offers = n + 1 /\ StatusOf(new).reply = row.reply
    BY <1>1, <1>2, <1>3, StatusColumns DEF Terminal
  <2> HIDE DEF old
  <2>3. want \in Status /\ want.st = "Leased" /\ want.dlv = StatusOf(new).dlv
        /\ want.offers = old.offers + 1 /\ want.reply = old.reply
    BY <2>1, <2>2, Zenon DEF Status, Active
  <2> HIDE DEF want
  <2>4. StatusOf(new) = want
    BY <2>1, <2>2, <2>3, StatusEqual
  <2>5. QED
    BY <2>1, <2>2, <2>4, Zenon DEF Lifecycle!Offer, old, want, NoDelivery
<1>6. QED
  BY <1>2, <1>3, <1>4, <1>5, Zenon DEF Succeeds, Lifecycle!Move, new

LEMMA AcknowledgedSucceeds ==
    ASSUME NEW row \in Row, WellFormed(row), row.st = "Leased", NEW at \in Nat
    PROVE  /\ WellFormed(AcknowledgedRow(row, at))
           /\ Succeeds(row, AcknowledgedRow(row, at))
<1> DEFINE new == AcknowledgedRow(row, at)
<1>1. /\ new \in Row
      /\ new.ver = row.ver + 1 /\ new.st = "Acknowledged" /\ new.dlv = row.dlv
      /\ new.until = row.until /\ new.attempt = row.attempt
      /\ new.ack = at /\ new.reply = row.reply /\ new.term = row.term
  BY AcknowledgedColumns, Zenon
<1>2. /\ row.ver \in Nat \ {0} /\ row.ver # 1 /\ row.st \notin Terminal
      /\ row.reply = NoReply /\ row.term = NoTime /\ at # NoTime
      /\ row.dlv # NoDelivery /\ row.until # NoTime
  BY DEF WellFormed, ColumnsFitState, Row, Terminal, Answered, NoTime
<1> HIDE DEF new
<1>3. WellFormed(new)
  BY <1>1, <1>2 DEF WellFormed, ColumnsFitState, Terminal, Answered
<1>4. Lifecycle!Acknowledge(StatusOf(row), StatusOf(new))
  BY <1>1, <1>2 DEF Lifecycle!Acknowledge, StatusOf, Terminal
<1>5. QED
  BY <1>1, <1>2, <1>3, <1>4, Zenon DEF Succeeds, Lifecycle!Move, new

LEMMA TerminalSucceeds ==
    ASSUME NEW row \in Row, WellFormed(row), row.st \in Active, NEW at \in Nat,
           NEW st, NEW p, Concludes(st, p)
    PROVE  /\ WellFormed(TerminalRow(row, at, st, p))
           /\ Succeeds(row, TerminalRow(row, at, st, p))
<1> DEFINE new == TerminalRow(row, at, st, p)
<1>1. /\ new \in Row
      /\ new.ver = row.ver + 1 /\ new.st = st /\ new.dlv = NoDelivery
      /\ new.until = NoTime /\ new.ack = NoTime /\ new.reply = p /\ new.term = at
  <2>1. st \in Terminal /\ p \in Replies \cup {NoReply}
    BY Zenon DEF Concludes
  <2>2. QED
    BY <2>1, TerminalColumns
<1>2. /\ row.ver \in Nat \ {0} /\ row.st \notin Terminal /\ at # NoTime
  BY DEF Row, Active, Terminal, NoTime
<1>3. /\ st \in Terminal /\ st \in Lifecycle!Ended
      /\ (p = NoReply) <=> st \in {"Canceled", "Expired"}
  BY Zenon DEF Concludes, Terminal, Lifecycle!Ended
<1> HIDE DEF new
<1>4. WellFormed(new)
  <2>1. (p # NoReply) <=> st \in Answered
    BY <1>3, Zenon DEF Answered, Terminal
  <2>2. QED
    BY <1>1, <1>2, <1>3, <2>1 DEF WellFormed, ColumnsFitState, Terminal
<1>5. Lifecycle!End(StatusOf(row), StatusOf(new))
  <2> DEFINE none == Lifecycle!Unknown
             want == [none EXCEPT !.st = StatusOf(new).st,
                                  !.reply = StatusOf(new).reply]
  <2>1. none \in Status /\ none.dlv = NoDelivery /\ none.offers = 0
    BY Zenon DEF Lifecycle!Unknown, Status, NoDelivery
  <2>2. /\ StatusOf(new) \in Status /\ StatusOf(new).st = st
        /\ StatusOf(new).dlv = NoDelivery
        /\ StatusOf(new).offers = 0 /\ StatusOf(new).reply = p
    BY <1>1, <1>3, StatusColumns, Zenon
  <2> HIDE DEF none
  <2>3. want \in Status /\ want.st = StatusOf(new).st /\ want.dlv = NoDelivery
        /\ want.offers = 0 /\ want.reply = StatusOf(new).reply
    BY <2>1, <2>2, Zenon DEF Status
  <2> HIDE DEF want
  <2>4. StatusOf(new) = want
    BY <2>2, <2>3, StatusEqual, Zenon
  <2>5. StatusOf(row).st \in {"Queued", "Leased", "Acknowledged"}
    BY StatusColumns, Zenon DEF Active
  <2>6. QED
    BY <1>3, <2>2, <2>4, <2>5, Zenon DEF Lifecycle!End, none, want
<1>6. QED
  BY <1>1, <1>2, <1>4, <1>5, Zenon DEF Succeeds, Lifecycle!Move, new

\* What a write does to an acknowledgement and to an end: an acknowledged task
\* can only end, and an ended one is not written again.
LEMMA SucceedsLater ==
    ASSUME NEW old \in Row, NEW new \in Row, Succeeds(old, new)
    PROVE  Later(old, new)
<1>1. /\ StatusOf(old).st = old.st /\ StatusOf(new).st = new.st
      /\ old.ver \in Nat /\ new.ver = old.ver + 1 /\ old.st \notin Terminal
  BY StatusColumns, Zenon DEF Succeeds, Row
<1>2. ASSUME old.st = "Acknowledged"  PROVE  new.st \in Terminal
  BY <1>1, <1>2 DEF Succeeds, Lifecycle!Move, Lifecycle!Submit, Lifecycle!Offer,
                    Lifecycle!Lapse, Lifecycle!Acknowledge, Lifecycle!End,
                    Lifecycle!Forget, Lifecycle!Ended, Lifecycle!Unknown, Terminal
<1>3. QED
  BY <1>1, <1>2 DEF Later

LEMMA LaterStill ==
    ASSUME NEW old \in Row, NEW mid \in Row, NEW new \in Row,
           Later(old, mid), Succeeds(mid, new)
    PROVE  Later(old, new)
BY SucceedsLater DEF Later, Succeeds, Row

-----------------------------------------------------------------------------
(* Each action preserves the invariant.                                    *)

\* Requeueing the leases of lost registrations keeps the table typed and
\* drops exactly their leases.
LEMMA ReleasedTasks ==
    ASSUME Inv, NEW R
    PROVE  /\ Partial(Released(R), TaskIds, TaskRecord)
           /\ DOMAIN Released(R) = DOMAIN tasks
           /\ \A t \in DOMAIN tasks :
                /\ Released(R)[t].dlv = IF t \in Held(R) THEN NoDelivery
                                                          ELSE tasks[t].dlv
                /\ Released(R)[t].term = tasks[t].term
<1>1. DOMAIN tasks \subseteq TaskIds /\ now \in Nat
  BY Zenon DEF Inv, TypeOK, Partial
<1>2. ASSUME NEW t \in DOMAIN tasks
      PROVE  /\ tasks[t] \in TaskRecord
             /\ ReleaseLease(tasks[t]) \in TaskRecord
             /\ ReleaseLease(tasks[t]).dlv = NoDelivery
             /\ ReleaseLease(tasks[t]).term = tasks[t].term
  <2>1. tasks[t] \in TaskRecord
    BY Zenon DEF Inv, TypeOK, Partial
  <2>2. QED
    BY <1>1, <2>1, TaskTransitions, TaskTransitionLeases, Zenon
<1>3. QED
  BY <1>1, <1>2, Zenon DEF Released, Partial

\* register preserves the invariant: the new epoch reaches broker_meta before
\* the registration is returned.
LEMMA RegisterKeepsInv ==
    ASSUME Inv, NEW a \in Agents, Register(a)
    PROVE  Inv'
<1> DEFINE id == Len(grants) + 1
           old == IF a \in DOMAIN byAgent THEN {byAgent[a]} ELSE {}
           batch == ReleaseBatch(epoch + 1, old)
<1>1. /\ IsBatch(batch) /\ batch.mark = epoch + 1 /\ DrawnBy(batch.put, issued)
      /\ issued \in Nat
  BY ReleaseBatchOk DEF Inv, TypeOK
<1>2. CASE Interrupted(batch, TRUE) /\ UNCHANGED issued
  <2>1. issued' \in Nat /\ issued <= issued' /\ DrawnBy(batch.put, issued')
    BY <1>1, <1>2
  <2>2. QED
    BY <1>1, <1>2, <2>1, InterruptedKeepsInv, Zenon
<1>3. CASE /\ Completed(batch)
           /\ epoch' = epoch + 1
           /\ tasks' = Released(old)
           /\ byDelivery' = WithoutLeases(Held(old))
           /\ regs' = Insert(Without(regs, old), id,
                             [agent |-> a, epoch |-> epoch + 1,
                              expires |-> now + RegistrationTtl])
           /\ DOMAIN inbox' = (DOMAIN inbox \ old) \cup {id}
           /\ byAgent' = Insert(byAgent, a, id)
           /\ grants' = Append(grants, epoch + 1)
           /\ UNCHANGED <<sequence, active, outbound, deadlines, issued,
                          acks, outcomes>>
  <2>1. /\ UNCHANGED <<now, up, doubt, orphans, issued>>
        /\ Partial(ledger', TaskIds, Row)
        /\ watermark' \in Nat
        /\ watermark' >= watermark /\ watermark' >= epoch + 1
        /\ DrawnBy(ledger', issued)
        /\ \A o \in orphans' : IsBatch(o) /\ DrawnBy(o.put, issued)
    BY <1>1, <1>3, CompletedStore
  <2>2. id \in Nat \ {0} /\ epoch + 1 \in Nat /\ now + RegistrationTtl \in Nat
    BY BrokerAssumption DEF BrokerAssumption, Inv, TypeOK
  <2>3. Partial(regs', Nat \ {0}, Registration) /\ DOMAIN inbox' = DOMAIN regs'
    BY <1>3, <2>2, Zenon DEF Inv, TypeOK, Partial, Insert, Without, Registration
  <2>4. Partial(byAgent', Agents, Nat \ {0})
    BY <1>3, <2>2, Zenon DEF Inv, TypeOK, Partial, Insert
  <2>5. grants' \in Seq(Nat)
    BY <1>3, <2>2 DEF Inv, TypeOK
  <2>6. /\ Partial(tasks', TaskIds, TaskRecord)
        /\ DOMAIN tasks' = DOMAIN tasks
        /\ \A t \in DOMAIN tasks :
             /\ tasks'[t].dlv = IF t \in Held(old) THEN NoDelivery
                                                   ELSE tasks[t].dlv
             /\ tasks'[t].term = tasks[t].term
    BY <1>3, ReleasedTasks, Zenon
  <2>7. DeliveryIndexExact' /\ Partial(byDelivery', Nat \ {0}, TaskIds)
    BY <1>3, <2>6, LeasesGone, Zenon DEF Held
  <2>8. TypeOK'
    BY <1>3, <2>1, <2>2, <2>3, <2>4, <2>5, <2>6, <2>7, Zenon DEF Inv, TypeOK
  <2>9. LeasesDrawn'
    BY <2>1, <2>6, <1>1 DEF Inv, LeasesDrawn, DrawnBy, Open, NoDelivery
  <2>10. EpochFence' /\ EpochPassed'
    <3>1. up
      BY Zenon DEF Register, Settled
    <3>2. QED
      BY <1>3, <2>1, <3>1, EpochGranted, Zenon
  <2>11. QED
    BY <2>7, <2>8, <2>9, <2>10, Zenon DEF Inv
<1>4. QED
  BY <1>2, <1>3, Zenon DEF Register, Insert, Without

\* renew preserves the invariant: it moves one expiry only.
LEMMA RenewKeepsInv ==
    ASSUME Inv, NEW r, Renew(r)
    PROVE  Inv'
<1>1. /\ UNCHANGED <<now, up, ledger, watermark, orphans, doubt, sequence, tasks,
                      byDelivery, active, outbound, deadlines, inbox, byAgent,
                      epoch, grants, issued, acks, outcomes>>
      /\ regs' = [regs EXCEPT ![r] = Renewed(regs[r])]
  BY Zenon DEF Renew, store, index, history
<1>2. Partial(regs', Nat \ {0}, Registration) /\ DOMAIN regs' = DOMAIN regs
  <2>1. now + RegistrationTtl \in Nat
    BY BrokerAssumption DEF BrokerAssumption, Inv, TypeOK
  <2>2. ASSUME NEW reg \in Registration  PROVE  Renewed(reg) \in Registration
    BY <2>1, Zenon DEF Renewed, Registration
  <2>3. QED
    BY <1>1, <2>2, Zenon DEF Inv, TypeOK, Partial
<1>3. TypeOK'
  BY <1>1, <1>2, Zenon DEF Inv, TypeOK
<1>4. DeliveryIndexExact' /\ LeasesDrawn' /\ EpochFence' /\ EpochPassed'
  BY <1>1, Zenon DEF Inv, DeliveryIndexExact, LeasesDrawn, DrawnBy, Open, EpochFence,
              EpochPassed
<1>5. QED
  BY <1>3, <1>4, Zenon DEF Inv

\* remove_registration preserves the invariant.
LEMMA RemoveRegistrationKeepsInv ==
    ASSUME Inv, NEW r, RemoveRegistration(r)
    PROVE  Inv'
<1> DEFINE batch == ReleaseBatch(0, {r})
<1>1. IsBatch(batch) /\ DrawnBy(batch.put, issued) /\ issued \in Nat
  BY ReleaseBatchOk, Zenon DEF Inv, TypeOK
<1>2. CASE Interrupted(batch, TRUE) /\ UNCHANGED issued
  <2>1. issued' \in Nat /\ issued <= issued' /\ DrawnBy(batch.put, issued')
    BY <1>1, <1>2
  <2>2. QED
    BY <1>1, <1>2, <2>1, InterruptedKeepsInv, Zenon
<1>3. CASE /\ Completed(batch)
           /\ tasks' = Released({r})
           /\ byDelivery' = WithoutLeases(Held({r}))
           /\ regs' = Without(regs, {r})
           /\ inbox' = Without(inbox, {r})
           /\ byAgent' = Without(byAgent, {regs[r].agent})
           /\ UNCHANGED <<epoch, sequence, active, outbound, deadlines, history>>
  <2>1. /\ UNCHANGED <<now, up, doubt, orphans, grants, issued, acks, outcomes>>
        /\ Partial(ledger', TaskIds, Row)
        /\ watermark' \in Nat /\ watermark' >= watermark
        /\ DrawnBy(ledger', issued)
        /\ \A o \in orphans' : IsBatch(o) /\ DrawnBy(o.put, issued)
    BY <1>1, <1>3, CompletedStore DEF history
  <2>2. /\ Partial(regs', Nat \ {0}, Registration)
        /\ DOMAIN inbox' = DOMAIN regs'
        /\ Partial(byAgent', Agents, Nat \ {0})
    BY <1>3, Zenon DEF Inv, TypeOK, Partial, Without
  <2>3. /\ Partial(tasks', TaskIds, TaskRecord)
        /\ DOMAIN tasks' = DOMAIN tasks
        /\ \A t \in DOMAIN tasks :
             /\ tasks'[t].dlv = IF t \in Held({r}) THEN NoDelivery
                                                   ELSE tasks[t].dlv
             /\ tasks'[t].term = tasks[t].term
    BY <1>3, ReleasedTasks, Zenon
  <2>4. DeliveryIndexExact' /\ Partial(byDelivery', Nat \ {0}, TaskIds)
    BY <1>3, <2>3, LeasesGone, Zenon DEF Held
  <2>5. TypeOK'
    BY <1>3, <2>1, <2>2, <2>3, <2>4, Zenon DEF Inv, TypeOK
  <2>6. LeasesDrawn'
    BY <2>1, <2>3, <1>1 DEF Inv, LeasesDrawn, DrawnBy, Open, NoDelivery
  <2>7. EpochFence' /\ EpochPassed'
    BY <1>3, <2>1, EpochStep, Zenon
  <2>8. QED
    BY <2>4, <2>5, <2>6, <2>7, Zenon DEF Inv
<1>4. QED
  BY <1>2, <1>3, Zenon DEF RemoveRegistration

\* enqueue preserves the invariant: the new task has no lease to index.
LEMMA EnqueueKeepsInv ==
    ASSUME Inv, NEW r, NEW t \in TaskIds, NEW m \in Messages, Enqueue(r, t, m)
    PROVE  Inv'
<1> DEFINE batch == OneRow(t, QueuedRow(m, now))
<1>1. IsBatch(batch) /\ DrawnBy(batch.put, issued) /\ issued \in Nat
  <2>1. now \in Nat /\ issued \in Nat
    BY Zenon DEF Inv, TypeOK
  <2>2. QueuedRow(m, now) \in Row /\ QueuedRow(m, now).dlv <= issued
    BY <2>1, NewTaskRecord DEF NoDelivery
  <2>3. QED
    BY <2>1, <2>2, OneRowBatch, Zenon
<1>2. t \notin DOMAIN tasks
  BY Zenon DEF Enqueue
<1>3. CASE Interrupted(batch, FALSE) /\ UNCHANGED issued
  <2>1. issued' \in Nat /\ issued <= issued' /\ DrawnBy(batch.put, issued')
    BY <1>1, <1>3
  <2>2. QED
    BY <1>1, <1>3, <2>1, InterruptedKeepsInv, Zenon
<1>4. CASE /\ Completed(batch)
           /\ sequence' = sequence + 1
           /\ inbox' = [inbox EXCEPT ![byAgent[m.to]] = Append(@, t)]
           /\ active' = [a \in Agents |-> IF a \in {m.from, m.to}
                                            THEN active[a] \cup {t}
                                            ELSE active[a]]
           /\ outbound' = [outbound EXCEPT ![m.from] = @ \cup {t}]
           /\ tasks' = Insert(tasks, t, NewTask(m, now, sequence + 1))
           /\ UNCHANGED <<regs, byAgent, epoch, byDelivery, deadlines, history>>
  <2>1. /\ UNCHANGED <<now, up, doubt, orphans, regs, byAgent, epoch, byDelivery,
                       deadlines, grants, issued, acks, outcomes>>
        /\ Partial(ledger', TaskIds, Row)
        /\ watermark' \in Nat /\ watermark' >= watermark
        /\ DrawnBy(ledger', issued)
        /\ \A o \in orphans' : IsBatch(o) /\ DrawnBy(o.put, issued)
    BY <1>1, <1>4, CompletedStore DEF history
  <2>2. /\ NewTask(m, now, sequence + 1) \in TaskRecord
        /\ NewTask(m, now, sequence + 1).dlv = NoDelivery
        /\ sequence' \in Nat
    BY <1>4, NewTaskRecord DEF Inv, TypeOK
  <2>3. /\ Partial(tasks', TaskIds, TaskRecord)
        /\ DOMAIN tasks' = DOMAIN tasks \cup {t}
        /\ tasks'[t].dlv = NoDelivery
        /\ \A u \in DOMAIN tasks : tasks'[u] = tasks[u]
    BY <1>2, <1>4, <2>2, Zenon DEF Inv, TypeOK, Partial, Insert
  <2>4. /\ active' \in [Agents -> SUBSET TaskIds]
        /\ outbound' \in [Agents -> SUBSET TaskIds]
        /\ DOMAIN inbox' = DOMAIN inbox
    BY <1>4, Zenon DEF Inv, TypeOK
  <2>5. TypeOK'
    BY <2>1, <2>2, <2>3, <2>4, Zenon DEF Inv, TypeOK
  <2>6. DeliveryIndexExact'
    BY <2>1, <2>3, Zenon DEF Inv, DeliveryIndexExact
  <2>7. LeasesDrawn'
    BY <2>1, <2>3, <1>1 DEF Inv, LeasesDrawn, DrawnBy, Open, NoDelivery
  <2>8. EpochFence' /\ EpochPassed'
    BY <2>1, EpochStep, Zenon
  <2>9. QED
    BY <2>5, <2>6, <2>7, <2>8, Zenon DEF Inv
<1>5. QED
  BY <1>3, <1>4, Zenon DEF Enqueue

\* poll_delivery leases the task t to the registration r.
LEMMA LeaseKeepsInv ==
    ASSUME Inv, NEW r \in Nat, NEW t, Leasable(t), NEW d, d = issued + 1,
           NEW attempt, attempt = tasks[t].last + 1,
           NEW batch,
           batch = OneRow(t, LeasedRow(DurableTask(tasks[t]), d, now, attempt)),
           issued' = d,
           \/ /\ Completed(batch)
              /\ tasks' = [tasks EXCEPT ![t] = LeaseTask(@, d, r, attempt)]
              /\ byDelivery' = Insert(WithoutLeases({t}), d, t)
              /\ UNCHANGED <<sequence, members, active, outbound, deadlines,
                             grants, acks, outcomes>>
           \/ Interrupted(batch, TRUE)
    PROVE  Inv'
<1>1. now \in Nat /\ issued \in Nat /\ d \in Nat /\ d \in Nat \ {0}
  BY DEF Inv, TypeOK
<1>2. /\ t \in DOMAIN tasks /\ t \in TaskIds /\ tasks[t] \in TaskRecord
      /\ Open(tasks[t]) /\ attempt \in Nat
  <2>1. t \in DOMAIN tasks /\ Open(tasks[t])
    BY Zenon DEF Leasable, Deliverable
  <2>2. t \in TaskIds /\ tasks[t] \in TaskRecord
    BY <2>1, Zenon DEF Inv, TypeOK, Partial
  <2>3. tasks[t].last \in Nat \cup {-1}
    BY <2>2, Zenon DEF TaskRecord, NoAttempt
  <2>4. QED
    BY <2>1, <2>2, <2>3
<1>3. /\ IsBatch(batch) /\ DrawnBy(batch.put, issued')
      /\ issued' \in Nat /\ issued <= issued'
  <2> DEFINE row == LeasedRow(DurableTask(tasks[t]), d, now, attempt)
  <2>1. DurableTask(tasks[t]) \in Row
    BY <1>2, DurableTaskRow, Zenon
  <2>2. row \in Row /\ row.dlv = d
    <3>1. row \in Row
      BY <1>1, <1>2, <2>1, RowTransitions, Zenon
    <3>2. row.dlv = d
      <4>1. \A x, at, n : LeasedRow(DurableTask(tasks[t]), x, at, n).dlv = x
        BY <2>1, RowTransitionLeases, Zenon
      <4>2. QED
        BY <4>1, Zenon
    <3>3. QED
      BY <3>1, <3>2, Zenon
  <2> HIDE DEF row
  <2>3. IsBatch(OneRow(t, row)) /\ DrawnBy(OneRow(t, row).put, d)
    BY <1>1, <1>2, <2>2, OneRowBatch
  <2>4. QED
    BY <1>1, <2>3 DEF row
<1>4. CASE Interrupted(batch, TRUE)
  BY <1>3, <1>4, InterruptedKeepsInv, Zenon
<1>5. CASE /\ Completed(batch)
           /\ tasks' = [tasks EXCEPT ![t] = LeaseTask(@, d, r, attempt)]
           /\ byDelivery' = Insert(WithoutLeases({t}), d, t)
           /\ UNCHANGED <<sequence, members, active, outbound, deadlines,
                          grants, acks, outcomes>>
  <2>1. /\ UNCHANGED <<now, up, doubt, orphans, regs, inbox, byAgent, epoch,
                       sequence, active, outbound, deadlines, grants, acks,
                       outcomes>>
        /\ Partial(ledger', TaskIds, Row)
        /\ watermark' \in Nat /\ watermark' >= watermark
        /\ DrawnBy(ledger', issued')
        /\ \A o \in orphans' : IsBatch(o) /\ DrawnBy(o.put, issued')
    BY <1>3, <1>5, CompletedStore, Zenon DEF members
  <2>2. /\ LeaseTask(tasks[t], d, r, attempt) \in TaskRecord
        /\ LeaseTask(tasks[t], d, r, attempt).dlv = d
        /\ LeaseTask(tasks[t], d, r, attempt).term = tasks[t].term
    <3>1. LeaseTask(tasks[t], d, r, attempt) \in TaskRecord
      BY <1>1, <1>2, TaskTransitions, Zenon
    <3>2. QED
      BY <1>2, <3>1, TaskTransitionLeases
  <2>3. /\ Partial(tasks', TaskIds, TaskRecord)
        /\ DOMAIN tasks' = DOMAIN tasks
        /\ tasks'[t].dlv = d /\ Open(tasks'[t])
        /\ \A u \in DOMAIN tasks \ {t} : tasks'[u] = tasks[u]
    BY <1>2, <1>5, <2>2, Zenon DEF Inv, TypeOK, Partial, Open
  <2>4. /\ DOMAIN byDelivery' =
             {e \in DOMAIN byDelivery : byDelivery[e] # t} \cup {d}
        /\ byDelivery'[d] = t
        /\ \A e \in DOMAIN byDelivery' \ {d} : byDelivery'[e] = byDelivery[e]
    BY <1>5, Zenon DEF Inv, DeliveryIndexExact, WithoutLeases, Without, Insert
  <2>5. d \notin DOMAIN byDelivery /\ \A u \in DOMAIN tasks : tasks[u].dlv # d
    <3>1. \A u \in DOMAIN tasks : tasks[u].dlv \in Nat /\ tasks[u].dlv <= issued
      BY Zenon DEF Inv, TypeOK, Partial, TaskRecord, LeasesDrawn, DrawnBy
    <3>2. QED
      BY <1>1, <3>1 DEF Inv, DeliveryIndexExact
  <2>6. Partial(byDelivery', Nat \ {0}, TaskIds)
    <3>1. Partial(WithoutLeases({t}), Nat \ {0}, TaskIds)
      BY Zenon DEF Inv, TypeOK, Partial, WithoutLeases, Without
    <3>2. QED
      BY <1>1, <1>2, <1>5, <3>1, Zenon DEF Partial, Insert
  <2>7. DeliveryIndexExact'
    BY <1>2, <2>3, <2>4, <2>5 DEF Inv, DeliveryIndexExact
  <2>8. TypeOK'
    BY <1>3, <2>1, <2>3, <2>6, Zenon DEF Inv, TypeOK
  <2>9. LeasesDrawn'
    <3>1. ASSUME NEW u \in DOMAIN tasks'  PROVE  tasks'[u].dlv <= issued'
      <4>1. tasks[u] \in TaskRecord /\ tasks[u].dlv <= issued
        BY <2>3, Zenon DEF Inv, TypeOK, Partial, LeasesDrawn, DrawnBy
      <4>2. tasks[u].dlv \in Nat
        BY <4>1, Zenon DEF TaskRecord
      <4>3. QED
        BY <1>1, <1>2, <2>3, <4>1, <4>2
    <3>2. QED
      BY <2>1, <2>3, <3>1, Zenon DEF Inv, LeasesDrawn, DrawnBy, Open
  <2>10. EpochFence' /\ EpochPassed'
    BY <2>1, EpochStep, Zenon
  <2>11. QED
    BY <2>7, <2>8, <2>9, <2>10, Zenon DEF Inv
<1>6. QED
  BY <1>4, <1>5, Zenon

\* poll_delivery preserves the invariant, whichever inbox entry it leases.
LEMMA PollDeliveryKeepsInv ==
    ASSUME Inv, NEW r \in DOMAIN regs, PollDelivery(r)
    PROVE  Inv'
<1>1. PICK i \in DOMAIN inbox[r] :
        LET t == inbox[r][i]
            d == issued + 1
            attempt == tasks[t].last + 1
            batch == OneRow(t, LeasedRow(DurableTask(tasks[t]), d, now, attempt))
        IN  /\ Leasable(t)
            /\ issued' = d
            /\ \/ /\ Completed(batch)
                  /\ tasks' = [tasks EXCEPT ![t] = LeaseTask(@, d, r, attempt)]
                  /\ byDelivery' = Insert(WithoutLeases({t}), d, t)
                  /\ UNCHANGED <<sequence, members, active, outbound, deadlines,
                                 grants, acks, outcomes>>
               \/ Interrupted(batch, TRUE)
  BY Zenon DEF PollDelivery
<1>2. r \in Nat
  BY Zenon DEF Inv, TypeOK, Partial
<1>3. QED
  BY <1>1, <1>2, LeaseKeepsInv, ZenonT(60)

\* ack_delivery preserves the invariant: an acknowledged task keeps its lease
\* and its entry in tasks_by_delivery.
LEMMA AckDeliveryKeepsInv ==
    ASSUME Inv, NEW r, NEW d, AckDelivery(r, d)
    PROVE  Inv'
<1> DEFINE t == byDelivery[d]
           batch == OneRow(t, AcknowledgedRow(DurableTask(tasks[t]), now))
<1>1. /\ t \in DOMAIN tasks /\ t \in TaskIds /\ tasks[t] \in TaskRecord
      /\ d \in Nat /\ now \in Nat /\ issued \in Nat
      /\ tasks[t].dlv = d /\ d <= issued
      /\ UNCHANGED issued
  BY DEF AckDelivery, Inv, TypeOK, Partial, DeliveryIndexExact, LeasesDrawn, DrawnBy
<1>2. IsBatch(batch) /\ DrawnBy(batch.put, issued)
  <2> DEFINE row == AcknowledgedRow(DurableTask(tasks[t]), now)
  <2>1. DurableTask(tasks[t]) \in Row /\ DurableTask(tasks[t]).dlv = d
    BY <1>1, DurableTaskRow, Zenon
  <2>2. row \in Row /\ row.dlv = d
    BY <1>1, <2>1, RowTransitions, RowTransitionLeases, Zenon
  <2>3. QED
    BY <1>1, <2>2, OneRowBatch, Zenon
<1>3. CASE Interrupted(batch, TRUE)
  <2>1. issued' \in Nat /\ issued <= issued' /\ DrawnBy(batch.put, issued')
    BY <1>1, <1>2
  <2>2. QED
    BY <1>2, <1>3, <2>1, InterruptedKeepsInv, Zenon
<1>4. CASE /\ Completed(batch)
           /\ tasks' = [tasks EXCEPT ![t] = AcknowledgeTask(@)]
           /\ DOMAIN inbox' = DOMAIN inbox
           /\ acks' = [acks EXCEPT ![t] = @ \cup {d}]
           /\ UNCHANGED <<sequence, index, regs, byAgent, epoch, grants, outcomes>>
  <2>1. /\ UNCHANGED <<now, up, doubt, orphans, sequence, byDelivery, active,
                       outbound, deadlines, regs, byAgent, epoch, grants, outcomes>>
        /\ Partial(ledger', TaskIds, Row)
        /\ watermark' \in Nat /\ watermark' >= watermark
        /\ DrawnBy(ledger', issued)
        /\ \A o \in orphans' : IsBatch(o) /\ DrawnBy(o.put, issued)
    <3>1. UNCHANGED <<sequence, byDelivery, active, outbound, deadlines, regs,
                      byAgent, epoch, grants, outcomes>>
      BY <1>4, Zenon DEF index
    <3>2. /\ UNCHANGED <<now, up, doubt, orphans>>
          /\ Partial(ledger', TaskIds, Row)
          /\ watermark' \in Nat /\ watermark' >= watermark
          /\ DrawnBy(ledger', issued)
          /\ \A o \in orphans' : IsBatch(o) /\ DrawnBy(o.put, issued)
      <4>1. /\ issued' = issued /\ issued' \in Nat /\ issued <= issued'
            /\ DrawnBy(batch.put, issued')
        BY <1>1, <1>2
      <4>2. Completed(batch)
        BY <1>4, Zenon
      <4>3. QED
        BY <1>2, <4>1, <4>2, CompletedStore, Zenon
    <3>3. QED
      BY <3>1, <3>2, Zenon
  <2>2. /\ AcknowledgeTask(tasks[t]) \in TaskRecord
        /\ AcknowledgeTask(tasks[t]).dlv = tasks[t].dlv
        /\ AcknowledgeTask(tasks[t]).term = tasks[t].term
    BY <1>1, TaskTransitions, TaskTransitionLeases, Zenon
  <2>3. /\ Partial(tasks', TaskIds, TaskRecord)
        /\ DOMAIN tasks' = DOMAIN tasks
        /\ \A u \in DOMAIN tasks : /\ tasks'[u].dlv = tasks[u].dlv
                                   /\ tasks'[u].term = tasks[u].term
    BY <1>1, <1>4, <2>2, Zenon DEF Inv, TypeOK, Partial
  <2>4. acks' \in [TaskIds -> SUBSET Nat]
    BY <1>1, <1>4, Zenon DEF Inv, TypeOK
  <2>5. TypeOK'
    BY <1>1, <1>4, <2>1, <2>3, <2>4, Zenon DEF Inv, TypeOK
  <2>6. DeliveryIndexExact'
    BY <2>1, <2>3, Zenon DEF Inv, DeliveryIndexExact
  <2>7. LeasesDrawn'
    BY <1>1, <2>1, <2>3, Zenon DEF Inv, LeasesDrawn, DrawnBy, Open
  <2>8. EpochFence' /\ EpochPassed'
    BY <2>1, EpochStep, Zenon
  <2>9. QED
    BY <2>5, <2>6, <2>7, <2>8, Zenon DEF Inv
<1>5. QED
  BY <1>3, <1>4, Zenon DEF AckDelivery

\* A request repeated after it succeeded only adds to the history.
LEMMA HistoryKeepsInv ==
    ASSUME Inv,
           UNCHANGED <<now, up, store, orphans, doubt, memory, grants, issued>>,
           acks' \in [TaskIds -> SUBSET Nat],
           outcomes' \in [TaskIds -> SUBSET Outcome]
    PROVE  Inv'
<1>1. TypeOK'
  BY Zenon DEF Inv, TypeOK, store, memory, index, members
<1>2. DeliveryIndexExact' /\ LeasesDrawn'
  BY Zenon DEF Inv, DeliveryIndexExact, LeasesDrawn, DrawnBy, Open, store, memory, index
<1>3. EpochFence' /\ EpochPassed'
  BY Zenon DEF Inv, EpochFence, EpochPassed, store, memory, members
<1>4. QED
  BY <1>1, <1>2, <1>3, Zenon DEF Inv

\* A repeated ack_delivery preserves the invariant.
LEMMA AckAgainKeepsInv ==
    ASSUME Inv, NEW r, NEW d \in Nat, AckAgain(r, d)
    PROVE  Inv'
<1>1. /\ UNCHANGED <<now, up, store, orphans, doubt, memory, grants, issued, outcomes>>
      /\ acks' = [acks EXCEPT ![byDelivery[d]] = @ \cup {d}]
  BY Zenon DEF AckAgain
<1>2. acks' \in [TaskIds -> SUBSET Nat] /\ outcomes' \in [TaskIds -> SUBSET Outcome]
  BY <1>1, Zenon DEF Inv, TypeOK
<1>3. QED
  BY <1>1, <1>2, HistoryKeepsInv, Zenon

\* The outcomes reported to callers stay well typed.
LEMMA ReportTyped ==
    ASSUME Inv, NEW t, NEW st \in Terminal, NEW p \in Replies \cup {NoReply},
           Report(t, st, p)
    PROVE  outcomes' \in [TaskIds -> SUBSET Outcome]
<1>1. [st |-> st, reply |-> p] \in Outcome
  BY Zenon DEF Outcome
<1>2. QED
  BY <1>1, Zenon DEF Inv, TypeOK, Report

\* Ending a task (terminalize_task and the commit before it) preserves the
\* invariant.
LEMMA TerminalizeKeepsInv ==
    ASSUME Inv, NEW t \in DOMAIN tasks, NEW st \in Terminal,
           NEW p \in Replies \cup {NoReply}, Terminalize(t, st, p)
    PROVE  Inv'
<1> DEFINE batch == OneRow(t, TerminalRow(DurableTask(tasks[t]), now, st, p))
<1>1. /\ t \in TaskIds /\ tasks[t] \in TaskRecord
      /\ now \in Nat /\ issued \in Nat /\ UNCHANGED issued
  BY Zenon DEF Terminalize, Inv, TypeOK, Partial
<1>2. IsBatch(batch) /\ DrawnBy(batch.put, issued)
  <2> DEFINE row == TerminalRow(DurableTask(tasks[t]), now, st, p)
  <2>1. DurableTask(tasks[t]) \in Row
    BY <1>1, DurableTaskRow, Zenon
  <2>2. row \in Row
    BY <1>1, <2>1, RowTransitions, Zenon
  <2>3. row.dlv <= issued
    BY <1>1, <2>1, RowTransitionLeases DEF NoDelivery
  <2>4. QED
    BY <1>1, <2>2, <2>3, OneRowBatch, Zenon
<1>3. CASE Interrupted(batch, TRUE)
  <2>1. issued' \in Nat /\ issued <= issued' /\ DrawnBy(batch.put, issued')
    BY <1>1, <1>2
  <2>2. QED
    BY <1>2, <1>3, <2>1, InterruptedKeepsInv, Zenon
<1>4. CASE /\ Completed(batch)
           /\ tasks' = [tasks EXCEPT ![t] = TerminalizeTask(@, st, p)]
           /\ TerminalizeIndexes({t})
           /\ deadlines' = deadlines \cup {<<now + TerminalRetention, t>>}
           /\ DOMAIN inbox' = DOMAIN inbox
           /\ Report(t, st, p)
           /\ UNCHANGED <<sequence, regs, byAgent, epoch, grants, acks>>
  <2>1. /\ UNCHANGED <<now, up, doubt, orphans>>
        /\ Partial(ledger', TaskIds, Row)
        /\ watermark' \in Nat /\ watermark' >= watermark
        /\ DrawnBy(ledger', issued)
        /\ \A o \in orphans' : IsBatch(o) /\ DrawnBy(o.put, issued)
    BY <1>1, <1>2, <1>4, CompletedStore
  <2>2. /\ TerminalizeTask(tasks[t], st, p) \in TaskRecord
        /\ TerminalizeTask(tasks[t], st, p).dlv = NoDelivery
    BY <1>1, TaskTransitions, TaskTransitionLeases
  <2>3. /\ Partial(tasks', TaskIds, TaskRecord)
        /\ DOMAIN tasks' = DOMAIN tasks
        /\ tasks'[t].dlv = NoDelivery
        /\ \A u \in DOMAIN tasks \ {t} : tasks'[u] = tasks[u]
    BY <1>1, <1>4, <2>2, Zenon DEF Inv, TypeOK, Partial
  <2>4. DeliveryIndexExact' /\ Partial(byDelivery', Nat \ {0}, TaskIds)
    <3>1. {t} \in SUBSET DOMAIN tasks /\ byDelivery' = WithoutLeases({t})
      BY <1>4, Zenon DEF TerminalizeIndexes
    <3>2. /\ \A u \in DOMAIN tasks' :
               tasks'[u].dlv = IF u \in {t} THEN NoDelivery ELSE tasks[u].dlv
          /\ DOMAIN tasks' \subseteq DOMAIN tasks
          /\ DOMAIN tasks \ DOMAIN tasks' = {}
      BY <2>3, Zenon
    <3>3. QED
      BY <3>1, <3>2, LeasesGone, Zenon
  <2>5. /\ active' \in [Agents -> SUBSET TaskIds]
        /\ outbound' \in [Agents -> SUBSET TaskIds]
    BY <1>4, Zenon DEF Inv, TypeOK, TerminalizeIndexes, WithoutTasks
  <2>6. deadlines' \subseteq Nat \X TaskIds
    <3>1. now \in Nat /\ TerminalRetention \in Nat /\ deadlines \subseteq Nat \X TaskIds
      BY DurableRowsAssumption, Zenon DEF DurableRowsAssumption, Inv, TypeOK
    <3>2. deadlines' = deadlines \cup {<<now + TerminalRetention, t>>}
      BY <1>4, Zenon
    <3>3. QED
      BY <1>1, <3>1, <3>2
  <2>7. outcomes' \in [TaskIds -> SUBSET Outcome]
    BY <1>4, ReportTyped, Zenon
  <2>8. TypeOK'
    BY <1>1, <1>4, <2>1, <2>3, <2>4, <2>5, <2>6, <2>7, Zenon DEF Inv, TypeOK
  <2>9. LeasesDrawn'
    BY <1>1, <2>1, <2>3 DEF Inv, LeasesDrawn, DrawnBy, Open, NoDelivery
  <2>10. EpochFence' /\ EpochPassed'
    BY <1>4, <2>1, EpochStep, Zenon
  <2>11. QED
    BY <2>4, <2>8, <2>9, <2>10, Zenon DEF Inv
<1>5. QED
  <2>1. ASSUME inbox' = LET r == tasks[t].msg.to
                        IN  IF r \in DOMAIN byAgent
                              THEN [inbox EXCEPT ![byAgent[r]] =
                                                   WithoutEntries(@, {t})]
                              ELSE inbox
        PROVE  DOMAIN inbox' = DOMAIN inbox
    BY <2>1, Zenon
  <2>2. QED
    BY <1>3, <1>4, <2>1, Zenon DEF Terminalize

\* reply, fail_task, reject_task and cancel_task preserve the invariant, the
\* first time and when repeated.
LEMMA EndKeepsInv ==
    ASSUME Inv, NEW r, NEW t, NEW st \in Terminal,
           NEW p \in Replies \cup {NoReply}, End(r, t, st, p)
    PROVE  Inv'
<1>1. t \in DOMAIN tasks /\ (Terminalize(t, st, p) \/ Repeated(t, st, p))
  BY Zenon DEF End
<1>2. CASE Terminalize(t, st, p)
  BY <1>1, <1>2, TerminalizeKeepsInv, Zenon
<1>3. CASE Repeated(t, st, p)
  <2>1. outcomes' \in [TaskIds -> SUBSET Outcome]
    BY <1>3, ReportTyped, Zenon DEF Repeated
  <2>2. acks' \in [TaskIds -> SUBSET Nat]
    BY <1>3, Zenon DEF Repeated, Inv, TypeOK
  <2>3. QED
    BY <1>3, <2>1, <2>2, HistoryKeepsInv, Zenon DEF Repeated
<1>4. QED
  BY <1>1, <1>2, <1>3, Zenon

\* The passing, or the stepping back, of the wall clock preserves the
\* invariant.
LEMMA TickKeepsInv ==
    ASSUME Inv, Tick
    PROVE  Inv'
<1>1. /\ now' \in Nat
      /\ UNCHANGED <<up, ledger, watermark, orphans, doubt, sequence, tasks,
                     byDelivery, active, outbound, deadlines, regs, inbox,
                     byAgent, epoch, grants, issued, acks, outcomes>>
  BY BrokerAssumption
     DEF BrokerAssumption, Inv, TypeOK, Tick, store, memory, index, members, history
<1>2. TypeOK'
  BY <1>1, Zenon DEF Inv, TypeOK
<1>3. DeliveryIndexExact' /\ LeasesDrawn' /\ EpochFence' /\ EpochPassed'
  BY <1>1, Zenon DEF Inv, DeliveryIndexExact, LeasesDrawn, DrawnBy, Open, EpochFence,
              EpochPassed
<1>4. QED
  BY <1>2, <1>3, Zenon DEF Inv

\* The late transaction of a request whose client has gone preserves the
\* invariant.
LEMMA OrphanLandsKeepsInv ==
    ASSUME Inv, OrphanLands
    PROVE  Inv'
<1>1. PICK o \in orphans :
        /\ Write(o) \/ UNCHANGED <<ledger, watermark>>
        /\ orphans' = orphans \ {o}
        /\ UNCHANGED <<now, up, doubt, sequence, tasks, byDelivery, active,
                       outbound, deadlines, regs, inbox, byAgent, epoch, grants,
                       issued, acks, outcomes>>
  BY Zenon DEF OrphanLands, store, memory, index, members, history
<1>2. IsBatch(o) /\ DrawnBy(o.put, issued) /\ issued \in Nat
  BY Zenon DEF Inv, TypeOK, LeasesDrawn
<1>3. /\ Partial(ledger', TaskIds, Row)
      /\ watermark' \in Nat /\ watermark' >= watermark
      /\ DrawnBy(ledger', issued)
  <2>1. /\ Partial(ledger, TaskIds, Row) /\ watermark \in Nat
        /\ DrawnBy(ledger, issued)
    BY Zenon DEF Inv, TypeOK, LeasesDrawn
  <2>2. CASE Write(o)
    BY <1>2, <2>1, <2>2, WriteRows, WriteDrawn, Zenon
  <2>3. CASE UNCHANGED <<ledger, watermark>>
    BY <2>1, <2>3
  <2>4. QED
    BY <1>1, <2>2, <2>3, Zenon
<1>4. TypeOK'
  BY <1>1, <1>3, Zenon DEF Inv, TypeOK
<1>5. DeliveryIndexExact' /\ LeasesDrawn'
  BY <1>1, <1>3, Zenon DEF Inv, DeliveryIndexExact, LeasesDrawn, DrawnBy, Open
<1>6. EpochFence' /\ EpochPassed'
  BY <1>1, <1>3, EpochStep, Zenon
<1>7. QED
  BY <1>4, <1>5, <1>6, Zenon DEF Inv

\* Losing the process preserves the invariant: the epoch watermark is in the
\* ledger.
LEMMA CrashKeepsInv ==
    ASSUME Inv, Crash
    PROVE  Inv'
<1>1. TypeOK'
  BY EmptyPartial, Zenon DEF Inv, TypeOK, Crash, NoMemory, store, history
<1>2. DeliveryIndexExact' /\ LeasesDrawn'
  <2>1. /\ DOMAIN tasks' = {} /\ DOMAIN byDelivery' = {} /\ orphans' = {}
        /\ UNCHANGED <<ledger, issued>>
    BY EmptyPartial, Zenon DEF Crash, NoMemory, store, history
  <2>2. DeliveryIndexExact'
    BY <2>1, Zenon DEF DeliveryIndexExact
  <2>3. LeasesDrawn'
    BY <2>1, Zenon DEF Inv, LeasesDrawn, DrawnBy
  <2>4. QED
    BY <2>2, <2>3, Zenon
<1>3. EpochFence' /\ EpochPassed'
  BY Zenon DEF Inv, EpochFence, EpochPassed, Crash, NoMemory, store, history
<1>4. QED
  BY <1>1, <1>2, <1>3, Zenon DEF Inv

-----------------------------------------------------------------------------
(* Rebuilding the table.                                                   *)

\* The task table restore_task rebuilds from a snapshot is typed and has the
\* leases of its rows.
LEMMA RestoredTable ==
    ASSUME CountsTasks, Inv, NEW rows, Partial(rows, TaskIds, Row)
    PROVE  /\ Partial(RestoredTasks(rows), TaskIds, TaskRecord)
           /\ DOMAIN RestoredTasks(rows) = DOMAIN rows
           /\ \A t \in DOMAIN rows : /\ RestoredTasks(rows)[t].dlv = rows[t].dlv
                                     /\ RestoredTasks(rows)[t].term = rows[t].term
<1>1. ASSUME NEW a  PROVE  LiveRegistration(a) \in Nat
  BY Zenon DEF LiveRegistration, NoRegistration, Inv, TypeOK, Partial
<1>2. ASSUME NEW t \in DOMAIN rows
      PROVE  Cardinality({u \in DOMAIN rows : Before(rows, u, t)}) + 1 \in Nat
  <2>1. {u \in DOMAIN rows : Before(rows, u, t)} \subseteq TaskIds
    BY Zenon DEF Partial
  <2>2. QED
    BY <2>1 DEF CountsTasks
<1>3. DOMAIN rows \subseteq TaskIds /\ \A t \in DOMAIN rows : rows[t] \in Row
  BY Zenon DEF Partial
<1>4. ASSUME NEW t \in DOMAIN rows
      PROVE  /\ RestoredTasks(rows)[t] \in TaskRecord
             /\ RestoredTasks(rows)[t].dlv = rows[t].dlv
             /\ RestoredTasks(rows)[t].term = rows[t].term
  BY <1>1, <1>2, <1>3, RestoredRecord DEF RestoredTasks
<1>5. DOMAIN RestoredTasks(rows) = DOMAIN rows
  BY Zenon DEF RestoredTasks
<1>6. QED
  BY <1>3, <1>4, <1>5, Zenon DEF Partial, RestoredTasks

\* Rebuilding from a valid snapshot makes every table typed and
\* tasks_by_delivery the inverse of the restored leases.
LEMMA RebuildTables ==
    ASSUME CountsTasks, Inv, NEW rows, Partial(rows, TaskIds, Row), DrawnBy(rows, issued),
           \A t \in DOMAIN rows : Fits(rows[t]),
           \A t, u \in DOMAIN rows :
              t # u /\ rows[t].dlv # NoDelivery => rows[t].dlv # rows[u].dlv,
           Rebuild(rows)
    PROVE  /\ sequence' \in Nat
           /\ Partial(tasks', TaskIds, TaskRecord)
           /\ Partial(byDelivery', Nat \ {0}, TaskIds)
           /\ active' \in [Agents -> SUBSET TaskIds]
           /\ outbound' \in [Agents -> SUBSET TaskIds]
           /\ deadlines' \subseteq Nat \X TaskIds
           /\ acks' \in [TaskIds -> SUBSET Nat]
           /\ outcomes' \in [TaskIds -> SUBSET Outcome]
           /\ DeliveryIndexExact'
           /\ DrawnBy(tasks', issued)
           /\ \A t \in DOMAIN tasks' : ~Open(tasks'[t]) => tasks'[t].dlv = NoDelivery
<1> DEFINE leased == WithLease(rows)
<1>1. DOMAIN rows \subseteq TaskIds /\ \A t \in DOMAIN rows : rows[t] \in Row
  BY Zenon DEF Partial
<1>2. OpenRows(rows) \subseteq DOMAIN rows
  BY Zenon DEF OpenRows
<1>3. \A t : t \in leased <=> t \in DOMAIN rows /\ rows[t].dlv # NoDelivery
  BY Zenon DEF WithLease, OpenRows, Fits, Active
<1>4. /\ Partial(tasks', TaskIds, TaskRecord)
      /\ DOMAIN tasks' = DOMAIN rows
      /\ \A t \in DOMAIN rows : /\ tasks'[t].dlv = rows[t].dlv
                                /\ tasks'[t].term = rows[t].term
  BY RestoredTable, Zenon DEF Rebuild
<1>5. sequence' \in Nat
  BY <1>1, Zenon DEF CountsTasks, Rebuild
<1>6. /\ active' \in [Agents -> SUBSET TaskIds]
      /\ outbound' \in [Agents -> SUBSET TaskIds]
  BY <1>1, <1>2, Zenon DEF Rebuild
<1>7. deadlines' \subseteq Nat \X TaskIds
  <2>1. ASSUME NEW t \in DOMAIN rows \ OpenRows(rows)
        PROVE  <<RetentionDeadline(rows[t]), t>> \in Nat \X TaskIds
    <3>1. rows[t].st \in Terminal
      BY <1>1, Zenon DEF OpenRows, Row
    <3>2. rows[t].term \in Nat
      BY <1>1, <3>1, Zenon DEF Fits, Row, NoTime
    <3>3. QED
      BY <1>1, <3>2, DurableRowsAssumption
         DEF DurableRowsAssumption, RetentionDeadline
  <2>2. deadlines' = {<<RetentionDeadline(rows[t]), t>> :
                        t \in DOMAIN rows \ OpenRows(rows)}
    BY Zenon DEF Rebuild
  <2>3. QED
    BY <2>1, <2>2, Zenon
<1>8. /\ acks' \in [TaskIds -> SUBSET Nat]
      /\ outcomes' \in [TaskIds -> SUBSET Outcome]
  <2>1. /\ acks' = [t \in TaskIds |-> IF t \in DOMAIN rows THEN acks[t] ELSE {}]
        /\ outcomes' = [t \in TaskIds |->
                          IF t \in DOMAIN rows THEN outcomes[t] ELSE {}]
    BY Zenon DEF Rebuild
  <2>2. QED
    BY <2>1, Zenon DEF Inv, TypeOK
<1>9. /\ DOMAIN byDelivery' = {rows[t].dlv : t \in leased}
      /\ \A d \in DOMAIN byDelivery' :
           byDelivery'[d] \in leased /\ rows[byDelivery'[d]].dlv = d
  <2>1. byDelivery' = [d \in {rows[t].dlv : t \in leased} |->
                         CHOOSE t \in leased : rows[t].dlv = d]
    BY Zenon DEF Rebuild
  <2>2. QED
    BY <2>1, Zenon
<1>10. Partial(byDelivery', Nat \ {0}, TaskIds)
  <2>1. DOMAIN byDelivery' \subseteq Nat \ {0}
    BY <1>1, <1>3, <1>9 DEF Row, NoDelivery
  <2>2. \A d \in DOMAIN byDelivery' : byDelivery'[d] \in TaskIds
    BY <1>1, <1>3, <1>9, Zenon
  <2>3. byDelivery' = [d \in DOMAIN byDelivery' |-> byDelivery'[d]]
    BY DEF Rebuild
  <2>4. QED
    BY <2>1, <2>2, <2>3, Zenon DEF Partial
<1>11. DeliveryIndexExact'
  <2>1. \A d \in DOMAIN byDelivery' :
          byDelivery'[d] \in DOMAIN tasks' /\ tasks'[byDelivery'[d]].dlv = d
    BY <1>3, <1>4, <1>9, Zenon
  <2>2. ASSUME NEW t \in DOMAIN tasks', tasks'[t].dlv # NoDelivery
        PROVE  /\ tasks'[t].dlv \in DOMAIN byDelivery'
               /\ byDelivery'[tasks'[t].dlv] = t
    <3>1. t \in leased /\ tasks'[t].dlv = rows[t].dlv
      BY <1>3, <1>4, <2>2, Zenon
    <3>2. rows[t].dlv \in DOMAIN byDelivery'
      BY <1>9, <3>1, Zenon
    <3>3. byDelivery'[rows[t].dlv] = t
      BY <1>3, <1>9, <3>1, <3>2, Zenon
    <3>4. QED
      BY <3>1, <3>2, <3>3, Zenon
  <2>3. QED
    BY <2>1, <2>2, Zenon DEF DeliveryIndexExact
<1>12. DrawnBy(tasks', issued)
  BY <1>4, Zenon DEF DrawnBy
<1>13. ASSUME NEW t \in DOMAIN tasks', ~Open(tasks'[t])
       PROVE  tasks'[t].dlv = NoDelivery
  BY <1>4, <1>13, Zenon DEF Open, Fits, Terminal
<1> HIDE DEF leased
<1>14. QED
  BY <1>4, <1>5, <1>6, <1>7, <1>8, <1>10, <1>11, <1>12, <1>13, Zenon

\* reconcile_state_if_required preserves the invariant, although it replaces
\* every task under live registrations.
LEMMA ReconcileKeepsInv ==
    ASSUME CountsTasks, Inv, Reconcile
    PROVE  Inv'
<1> DEFINE batch == ReconcileBatch(ledger, now)
           rows == ReconciledRows(ledger, now)
<1>1. SnapshotValid(ledger) /\ up
  BY Zenon DEF Reconcile
<1>2. IsBatch(batch) /\ DrawnBy(batch.put, issued) /\ issued \in Nat
  BY <1>1, ReconcileBatchOk, Zenon DEF Inv, TypeOK
<1>3. CASE Interrupted(batch, TRUE) /\ UNCHANGED issued
  <2>1. issued' \in Nat /\ issued <= issued' /\ DrawnBy(batch.put, issued')
    BY <1>2, <1>3
  <2>2. QED
    BY <1>2, <1>3, <2>1, InterruptedKeepsInv, Zenon
<1>4. CASE /\ Write(batch)
           /\ Rebuild(rows)
           /\ doubt' = FALSE
           /\ epoch' = IF watermark > epoch THEN watermark ELSE epoch
           /\ DOMAIN inbox' = DOMAIN regs
           /\ UNCHANGED <<now, up, orphans, regs, byAgent, grants, issued>>
  <2>1. /\ Partial(ledger', TaskIds, Row)
        /\ watermark' \in Nat /\ watermark' >= watermark
        /\ DrawnBy(ledger', issued)
    BY <1>2, <1>4, WriteRows, WriteDrawn, Zenon DEF Inv, TypeOK, LeasesDrawn
  <2>2. /\ sequence' \in Nat
        /\ Partial(tasks', TaskIds, TaskRecord)
        /\ Partial(byDelivery', Nat \ {0}, TaskIds)
        /\ active' \in [Agents -> SUBSET TaskIds]
        /\ outbound' \in [Agents -> SUBSET TaskIds]
        /\ deadlines' \subseteq Nat \X TaskIds
        /\ acks' \in [TaskIds -> SUBSET Nat]
        /\ outcomes' \in [TaskIds -> SUBSET Outcome]
        /\ DeliveryIndexExact'
        /\ DrawnBy(tasks', issued)
        /\ \A t \in DOMAIN tasks' : ~Open(tasks'[t]) => tasks'[t].dlv = NoDelivery
    <3> HIDE DEF rows
    <3>1. /\ Partial(rows, TaskIds, Row) /\ DrawnBy(rows, issued)
          /\ \A t \in DOMAIN rows : Fits(rows[t])
          /\ \A t, u \in DOMAIN rows :
               t # u /\ rows[t].dlv # NoDelivery => rows[t].dlv # rows[u].dlv
      BY <1>1, ReconciledRowsFit, Zenon DEF rows
    <3>2. QED
      BY <1>4, <3>1, RebuildTables, Zenon
  <2>3. TypeOK'
    BY <1>4, <2>1, <2>2, Zenon DEF Inv, TypeOK
  <2>4. LeasesDrawn'
    BY <1>4, <2>1, <2>2, Zenon DEF Inv, LeasesDrawn, Open
  <2>5. EpochFence' /\ EpochPassed'
    BY <1>1, <1>4, <2>1 DEF Inv, TypeOK, EpochFence, EpochPassed
  <2>6. QED
    BY <2>2, <2>3, <2>4, <2>5, Zenon DEF Inv
<1>5. QED
  BY <1>3, <1>4, Zenon DEF Reconcile

\* recover establishes the invariant again after a crash:
\* next_registration_epoch restarts from the stored high watermark.
LEMMA RecoverKeepsInv ==
    ASSUME CountsTasks, Inv, Recover
    PROVE  Inv'
<1> DEFINE batch == ReconcileBatch(ledger, now)
           rows == ReconciledRows(ledger, now)
<1>1. SnapshotValid(ledger) /\ ~up /\ Write(batch)
  BY Zenon DEF Recover
<1>2. IsBatch(batch) /\ batch.mark = 0 /\ DrawnBy(batch.put, issued)
  BY <1>1, ReconcileBatchOk, Zenon
<1>3. /\ Partial(ledger', TaskIds, Row)
      /\ watermark' = watermark
      /\ DrawnBy(ledger', issued)
  BY <1>1, <1>2, WriteRows, WriteDrawn, Zenon DEF Inv, TypeOK, LeasesDrawn
<1>4. CASE /\ up' = TRUE
           /\ epoch' = watermark
           /\ Rebuild(rows)
           /\ UNCHANGED <<now, orphans, doubt, regs, inbox, byAgent, grants, issued>>
  <2>1. /\ sequence' \in Nat
        /\ Partial(tasks', TaskIds, TaskRecord)
        /\ Partial(byDelivery', Nat \ {0}, TaskIds)
        /\ active' \in [Agents -> SUBSET TaskIds]
        /\ outbound' \in [Agents -> SUBSET TaskIds]
        /\ deadlines' \subseteq Nat \X TaskIds
        /\ acks' \in [TaskIds -> SUBSET Nat]
        /\ outcomes' \in [TaskIds -> SUBSET Outcome]
        /\ DeliveryIndexExact'
        /\ DrawnBy(tasks', issued)
        /\ \A t \in DOMAIN tasks' : ~Open(tasks'[t]) => tasks'[t].dlv = NoDelivery
    <3> HIDE DEF rows
    <3>1. /\ Partial(rows, TaskIds, Row) /\ DrawnBy(rows, issued)
          /\ \A t \in DOMAIN rows : Fits(rows[t])
          /\ \A t, u \in DOMAIN rows :
               t # u /\ rows[t].dlv # NoDelivery => rows[t].dlv # rows[u].dlv
      BY <1>1, ReconciledRowsFit, Zenon DEF rows
    <3>2. QED
      BY <1>4, <3>1, RebuildTables, Zenon
  <2>2. TypeOK'
    BY <1>3, <1>4, <2>1, Zenon DEF Inv, TypeOK
  <2>3. LeasesDrawn'
    BY <1>3, <1>4, <2>1, Zenon DEF Inv, LeasesDrawn, Open
  <2>4. EpochFence' /\ EpochPassed'
    BY <1>3, <1>4 DEF Inv, TypeOK, EpochFence, EpochPassed
  <2>5. QED
    BY <2>1, <2>2, <2>3, <2>4, Zenon DEF Inv
<1>5. CASE UNCHANGED <<now, up, orphans, doubt, memory, history>>
  <2>1. TypeOK'
    BY <1>3, <1>5, Zenon DEF Inv, TypeOK, memory, index, members, history
  <2>2. DeliveryIndexExact' /\ LeasesDrawn'
    BY <1>3, <1>5, Zenon DEF Inv, DeliveryIndexExact, LeasesDrawn, DrawnBy, Open, memory,
                      index, history
  <2>3. EpochFence' /\ EpochPassed'
    BY <1>3, <1>5, Zenon DEF Inv, EpochFence, EpochPassed, memory, members, history
  <2>4. QED
    BY <2>1, <2>2, <2>3, Zenon DEF Inv
<1>6. QED
  BY <1>4, <1>5, Zenon DEF Recover

-----------------------------------------------------------------------------
(* Maintenance.                                                            *)

\* maintain_state preserves the invariant while it expires tasks, drops
\* registrations and prunes in one step.
LEMMA MaintainKeepsInv ==
    ASSUME Inv, Maintain
    PROVE  Inv'
<1>1. IsBatch(MaintainBatch) /\ DrawnBy(MaintainBatch.put, issued) /\ issued \in Nat
  BY MaintainBatchOk, Zenon DEF Inv, TypeOK
<1>2. CASE Interrupted(MaintainBatch, TRUE) /\ UNCHANGED issued
  <2>1. issued' \in Nat /\ issued <= issued' /\ DrawnBy(MaintainBatch.put, issued')
    BY <1>1, <1>2
  <2>2. QED
    BY <1>1, <1>2, <2>1, InterruptedKeepsInv, Zenon
<1>3. CASE /\ Completed(MaintainBatch)
           /\ tasks' = [t \in DOMAIN tasks \ Pruned |->
                          IF t \in Due
                            THEN TerminalizeTask(tasks[t], "Expired", NoReply)
                            ELSE IF t \in Stranded THEN ReleaseLease(tasks[t])
                            ELSE tasks[t]]
           /\ byDelivery' = WithoutLeases(Due \cup Stranded)
           /\ active' = WithoutTasks(active, Due)
           /\ outbound' = WithoutTasks(outbound, Due)
           /\ deadlines' = {e \in deadlines : e[1] > now}
                             \cup {<<now + TerminalRetention, t>> : t \in Due}
           /\ regs' = Without(regs, Expired)
           /\ DOMAIN inbox' = DOMAIN regs \ Expired
           /\ byAgent' = Without(byAgent, {a \in DOMAIN byAgent :
                                             byAgent[a] \in Expired})
           /\ acks' = [t \in TaskIds |-> IF t \in Pruned THEN {} ELSE acks[t]]
           /\ outcomes' = [t \in TaskIds |->
                             IF t \in Pruned THEN {} ELSE outcomes[t]]
           /\ UNCHANGED <<epoch, sequence, grants, issued>>
  <2>1. /\ UNCHANGED <<now, up, doubt, orphans>>
        /\ Partial(ledger', TaskIds, Row)
        /\ watermark' \in Nat /\ watermark' >= watermark
        /\ DrawnBy(ledger', issued)
        /\ \A o \in orphans' : IsBatch(o) /\ DrawnBy(o.put, issued)
    BY <1>1, <1>3, CompletedStore
  <2>2. /\ Due \subseteq DOMAIN tasks /\ Stranded \subseteq DOMAIN tasks
        /\ \A t \in Pruned : t \in DOMAIN tasks /\ ~Open(tasks[t])
        /\ Due \cup Stranded \in SUBSET DOMAIN tasks
        /\ DOMAIN tasks \subseteq TaskIds
    BY Zenon DEF Due, Stranded, Pruned, Inv, TypeOK, Partial
  <2>3. /\ DOMAIN tasks' = DOMAIN tasks \ Pruned
        /\ \A t \in DOMAIN tasks' :
             /\ tasks'[t] \in TaskRecord
             /\ tasks'[t].dlv = IF t \in Due \cup Stranded THEN NoDelivery
                                                            ELSE tasks[t].dlv
             /\ ~Open(tasks'[t]) => t \in Due \/ ~Open(tasks[t])
    <3>1. DOMAIN tasks' = DOMAIN tasks \ Pruned
      BY <1>3, Zenon
    <3>2. ASSUME NEW t \in DOMAIN tasks'
          PROVE  /\ tasks'[t] \in TaskRecord
                 /\ tasks'[t].dlv = IF t \in Due \cup Stranded THEN NoDelivery
                                                                ELSE tasks[t].dlv
                 /\ ~Open(tasks'[t]) => t \in Due \/ ~Open(tasks[t])
      <4>1. tasks[t] \in TaskRecord /\ now \in Nat
        BY <3>1, Zenon DEF Inv, TypeOK, Partial
      <4>2. /\ TerminalizeTask(tasks[t], "Expired", NoReply) \in TaskRecord
            /\ TerminalizeTask(tasks[t], "Expired", NoReply).dlv = NoDelivery
            /\ ReleaseLease(tasks[t]) \in TaskRecord
            /\ ReleaseLease(tasks[t]).dlv = NoDelivery
            /\ ReleaseLease(tasks[t]).term = tasks[t].term
        BY <4>1, TaskTransitions, TaskTransitionLeases DEF Terminal
      <4>3. QED
        BY <1>3, <3>1, <4>1, <4>2, Zenon DEF Open
    <3>3. QED
      BY <3>1, <3>2, Zenon
  <2>4. Partial(tasks', TaskIds, TaskRecord)
    BY <1>3, <2>2, <2>3, Zenon DEF Partial
  <2>5. DeliveryIndexExact' /\ Partial(byDelivery', Nat \ {0}, TaskIds)
    <3>1. \A t \in DOMAIN tasks \ DOMAIN tasks' : tasks[t].dlv = NoDelivery
      BY <2>2, <2>3, Zenon DEF Inv, LeasesDrawn
    <3>2. QED
      <4>1. PICK T \in SUBSET DOMAIN tasks : T = Due \cup Stranded
        BY <2>2, Zenon
      <4>2. /\ DOMAIN tasks' \subseteq DOMAIN tasks
            /\ byDelivery' = WithoutLeases(T)
            /\ \A t \in DOMAIN tasks' :
                 tasks'[t].dlv = IF t \in T THEN NoDelivery ELSE tasks[t].dlv
        BY <1>3, <2>3, <4>1, Zenon
      <4>3. QED
        BY <3>1, <4>2, LeasesGone, Zenon
  <2>6. /\ active' \in [Agents -> SUBSET TaskIds]
        /\ outbound' \in [Agents -> SUBSET TaskIds]
    BY <1>3, Zenon DEF Inv, TypeOK, WithoutTasks
  <2>7. deadlines' \subseteq Nat \X TaskIds
    <3>1. deadlines \subseteq Nat \X TaskIds
      BY Zenon DEF Inv, TypeOK
    <3>2. now + TerminalRetention \in Nat
      BY DurableRowsAssumption DEF DurableRowsAssumption, Inv, TypeOK
    <3>3. {<<now + TerminalRetention, t>> : t \in Due} \subseteq Nat \X TaskIds
      BY <2>2, <3>2
    <3>4. deadlines' = {e \in deadlines : e[1] > now}
                         \cup {<<now + TerminalRetention, t>> : t \in Due}
      BY <1>3, Zenon
    <3>5. QED
      BY <3>1, <3>3, <3>4, Zenon
  <2>8. /\ Partial(regs', Nat \ {0}, Registration)
        /\ DOMAIN inbox' = DOMAIN regs'
        /\ Partial(byAgent', Agents, Nat \ {0})
    BY <1>3, Zenon DEF Inv, TypeOK, Partial, Without
  <2>9. /\ acks' \in [TaskIds -> SUBSET Nat]
        /\ outcomes' \in [TaskIds -> SUBSET Outcome]
    BY <1>3, Zenon DEF Inv, TypeOK
  <2>10. TypeOK'
    <3>1. /\ now \in Nat /\ up \in BOOLEAN /\ doubt \in BOOLEAN /\ epoch \in Nat
          /\ sequence \in Nat /\ grants \in Seq(Nat) /\ issued \in Nat
      BY Zenon DEF Inv, TypeOK
    <3>2. UNCHANGED <<epoch, sequence, grants, issued>>
      BY <1>3, Zenon
    <3>3. QED
      BY <2>1, <2>4, <2>5, <2>6, <2>7, <2>8, <2>9, <3>1, <3>2, Zenon DEF TypeOK
  <2>11. LeasesDrawn'
    <3>1. DrawnBy(tasks', issued)
      BY <1>1, <2>2, <2>3 DEF Inv, LeasesDrawn, DrawnBy, NoDelivery
    <3>2. \A t \in DOMAIN tasks' : ~Open(tasks'[t]) => tasks'[t].dlv = NoDelivery
      BY <2>2, <2>3, Zenon DEF Inv, LeasesDrawn
    <3>3. QED
      BY <1>3, <2>1, <3>1, <3>2, Zenon DEF LeasesDrawn, Open
  <2>12. EpochFence' /\ EpochPassed'
    BY <1>3, <2>1, EpochStep, Zenon
  <2>13. QED
    BY <2>5, <2>10, <2>11, <2>12, Zenon DEF Inv
<1>4. QED
  <2>1. ASSUME inbox' = [r \in DOMAIN regs \ Expired |->
                           WithoutEntries(inbox[r], Due)]
        PROVE  DOMAIN inbox' = DOMAIN regs \ Expired
    BY <2>1, Zenon
  <2>2. QED
    BY <1>2, <1>3, <2>1, Zenon DEF Maintain

-----------------------------------------------------------------------------
(* Every step.                                                             *)

\* A broker started on an empty ledger satisfies the invariant.
LEMMA InitInv == Init => Inv
<1> SUFFICES ASSUME Init PROVE Inv
  BY Zenon
<1>1. TypeOK
  <2>1. /\ now \in Nat /\ up \in BOOLEAN /\ doubt \in BOOLEAN
        /\ watermark \in Nat /\ epoch \in Nat /\ sequence \in Nat /\ issued \in Nat
        /\ \A o \in orphans : IsBatch(o)
        /\ deadlines \subseteq Nat \X TaskIds
    BY Zenon DEF Init
  <2>2. /\ Partial(ledger, TaskIds, Row) /\ DOMAIN inbox = DOMAIN regs
        /\ Partial(regs, Nat \ {0}, Registration)
        /\ Partial(byAgent, Agents, Nat \ {0})
        /\ Partial(tasks, TaskIds, TaskRecord)
        /\ Partial(byDelivery, Nat \ {0}, TaskIds)
    BY EmptyPartial, Zenon DEF Init
  <2>3. grants \in Seq(Nat)
    BY DEF Init
  <2>4. /\ active \in [Agents -> SUBSET TaskIds]
        /\ outbound \in [Agents -> SUBSET TaskIds]
        /\ acks \in [TaskIds -> SUBSET Nat]
        /\ outcomes \in [TaskIds -> SUBSET Outcome]
    BY Zenon DEF Init
  <2>5. QED
    BY <2>1, <2>2, <2>3, <2>4, Zenon DEF TypeOK
<1>2. DeliveryIndexExact /\ LeasesDrawn /\ EpochFence /\ EpochPassed
  BY DEF Init, DeliveryIndexExact, LeasesDrawn, DrawnBy, EpochFence, EpochPassed
<1>3. QED
  BY <1>1, <1>2, Zenon DEF Inv

\* Every step of the broker, its clients, its clock and its crashes preserves
\* the invariant.
LEMMA StepKeepsInv ==
    ASSUME CountsTasks, Inv, [Next]_vars
    PROVE  Inv'
<1>1. CASE UNCHANGED vars
  <2>1. /\ UNCHANGED <<now, up, store, orphans, doubt, memory, grants, issued>>
        /\ UNCHANGED <<acks, outcomes>>
    BY <1>1, Zenon DEF vars, history
  <2>2. acks' \in [TaskIds -> SUBSET Nat] /\ outcomes' \in [TaskIds -> SUBSET Outcome]
    BY <2>1, Zenon DEF Inv, TypeOK
  <2>3. QED
    BY <2>1, <2>2, HistoryKeepsInv, Zenon
<1>2. CASE Maintain
  BY <1>2, MaintainKeepsInv, Zenon
<1>3. CASE Reconcile
  BY <1>3, ReconcileKeepsInv, Zenon
<1>4. ASSUME NEW a \in Agents, Register(a)  PROVE  Inv'
  BY <1>4, RegisterKeepsInv, Zenon
<1>5. ASSUME NEW r \in DOMAIN regs, Renew(r)  PROVE  Inv'
  BY <1>5, RenewKeepsInv, Zenon
<1>6. ASSUME NEW r \in DOMAIN regs, RemoveRegistration(r)  PROVE  Inv'
  BY <1>6, RemoveRegistrationKeepsInv, Zenon
<1>7. ASSUME NEW r \in DOMAIN regs, NEW t \in TaskIds, NEW m \in Messages,
             Enqueue(r, t, m)
      PROVE  Inv'
  BY <1>7, EnqueueKeepsInv, Zenon
<1>8. ASSUME NEW r \in DOMAIN regs, PollDelivery(r)  PROVE  Inv'
  BY <1>8, PollDeliveryKeepsInv, Zenon
<1>9. ASSUME NEW r \in DOMAIN regs, NEW d \in 1 .. issued,
             AckDelivery(r, d) \/ AckAgain(r, d)
      PROVE  Inv'
  <2>1. d \in Nat
    BY DEF Inv, TypeOK
  <2>2. QED
    BY <1>9, <2>1, AckDeliveryKeepsInv, AckAgainKeepsInv, Zenon
<1>10. ASSUME NEW r \in DOMAIN regs, NEW t \in TaskIds, NEW p \in Replies,
              Reply(r, t, p) \/ FailTask(r, t, p) \/ RejectTask(r, t, p)
       PROVE  Inv'
  <2>1. \E st \in Terminal : End(r, t, st, p)
    BY <1>10, Zenon DEF Reply, FailTask, RejectTask, Terminal
  <2>2. QED
    BY <2>1, EndKeepsInv, Zenon
<1>11. ASSUME NEW r \in DOMAIN regs, NEW t \in TaskIds, CancelTask(r, t)
       PROVE  Inv'
  <2>1. "Canceled" \in Terminal /\ End(r, t, "Canceled", NoReply)
    BY <1>11, Zenon DEF CancelTask, Terminal
  <2>2. QED
    BY <2>1, EndKeepsInv, Zenon
<1>12. CASE Tick
  BY <1>12, TickKeepsInv, Zenon
<1>13. CASE OrphanLands
  BY <1>13, OrphanLandsKeepsInv, Zenon
<1>14. CASE Crash
  BY <1>14, CrashKeepsInv, Zenon
<1>15. CASE Recover
  BY <1>15, RecoverKeepsInv, Zenon
<1>16. QED
  BY <1>1, <1>2, <1>3, <1>4, <1>5, <1>6, <1>7, <1>8, <1>9, <1>10, <1>11, <1>12,
     <1>13, <1>14, <1>15, Zenon, Zenon DEF Next
=============================================================================
