---------------------------- MODULE DurableRows ----------------------------
(***************************************************************************)
(* The rows of the broker's delivery ledger (DurableTask in durability.rs) *)
(* and the pure functions over them: the row a transition writes, the two  *)
(* validators a row must satisfy (on the way into SQLite and on the way    *)
(* back out), and the repair that recovery and live reconciliation apply.  *)
(*                                                                         *)
(* Abstractions of the data: a message is a member of Messages (its sender *)
(* and recipient, and a body that stands for context id and payload), a    *)
(* reply a member of Replies, a delivery id a positive number, a time a    *)
(* natural number.  The two deadlines of a row are functions of created    *)
(* and term, as both validators require, so they are not stored.           *)
(*                                                                         *)
(* An operator whose name ends in _Mutant is a plausible bug in the one    *)
(* that follows it; no specification uses it.                              *)
(***************************************************************************)
EXTENDS Integers, FiniteSets

CONSTANTS TaskIds,            \* task ids, numbers so that they can be sorted
          Agents,             \* canonical agent names
          Messages,           \* what may be sent: [from, to, body]
          Replies,            \* reply payloads
          NoReply,            \* Option::None of a reply
          DeliveryLease,      \* DELIVERY_LEASE_MS
          DeliveryTtl,        \* DELIVERY_TTL_MS
          TerminalRetention,  \* TERMINAL_RETENTION_MS
          MaxRetainedTasks    \* MAX_RETAINED_TASKS

ASSUME DurableRowsAssumption ==
    /\ TaskIds \subseteq Nat /\ IsFiniteSet(TaskIds)
    /\ \A m \in Messages : m.from \in Agents /\ m.to \in Agents
    /\ NoReply \notin Replies
    /\ DeliveryLease \in Nat \ {0}
    /\ DeliveryTtl \in Nat \ {0}
    /\ TerminalRetention \in Nat \ {0}
    /\ MaxRetainedTasks \in Nat \ {0}

NoTime == -1
NoDelivery == 0

Active == {"Queued", "Leased", "Acknowledged"}
Terminal == {"Replied", "Failed", "Rejected", "Canceled", "Expired"}
Answered == {"Replied", "Failed", "Rejected"}

Row == [ver : Nat \ {0}, st : Active \cup Terminal, msg : Messages,
        created : Nat, dlv : Nat, until : Nat \cup {NoTime}, attempt : Nat,
        ack : Nat \cup {NoTime}, reply : Replies \cup {NoReply},
        term : Nat \cup {NoTime}]

\* f is a partial function from S to T: a HashMap, or the rows of a table.
Partial(f, S, T) == DOMAIN f \subseteq S /\ f \in [DOMAIN f -> T]

\* HashMap::insert, HashMap::remove of the keys S, and an upsert of rows.
Insert(f, x, y) == [z \in DOMAIN f \cup {x} |-> IF z = x THEN y ELSE f[z]]
Without(f, S) == [z \in DOMAIN f \ S |-> f[z]]
Upsert(f, new) == [z \in DOMAIN f \cup DOMAIN new |->
                     IF z \in DOMAIN new THEN new[z] ELSE f[z]]

DeliveryDeadline(row) == row.created + DeliveryTtl
RetentionDeadline(row) == row.term + TerminalRetention
Retired(row, now) == row.term # NoTime /\ RetentionDeadline(row) <= now

-----------------------------------------------------------------------------
(* The row each transition writes: durable_requeued_task and its siblings. *)

QueuedRow(m, now) ==
    [ver |-> 1, st |-> "Queued", msg |-> m, created |-> now,
     dlv |-> NoDelivery, until |-> NoTime, attempt |-> 0, ack |-> NoTime,
     reply |-> NoReply, term |-> NoTime]

RequeuedRow(row) ==
    [row EXCEPT !.ver = @ + 1, !.st = "Queued", !.dlv = NoDelivery,
                !.until = NoTime, !.ack = NoTime]

LeasedRow(row, d, now, attempt) ==
    [row EXCEPT !.ver = @ + 1, !.st = "Leased", !.dlv = d,
                !.until = now + DeliveryLease, !.attempt = attempt,
                !.ack = NoTime]

AcknowledgedRow(row, now) ==
    [row EXCEPT !.ver = @ + 1, !.st = "Acknowledged", !.ack = now]

TerminalRow(row, now, st, reply) ==
    [row EXCEPT !.ver = @ + 1, !.st = st, !.dlv = NoDelivery,
                !.until = NoTime, !.ack = NoTime, !.reply = reply,
                !.term = now]

-----------------------------------------------------------------------------
(* The columns a state may have: the match at the end of both validators. *)
ColumnsFitState(row) ==
    /\ (row.dlv # NoDelivery) <=> row.st \in {"Leased", "Acknowledged"}
    /\ (row.ack # NoTime) <=> row.st = "Acknowledged"
    /\ (row.reply # NoReply) <=> row.st \in Answered
    /\ (row.term # NoTime) <=> row.st \in Terminal

\* validate_durable_task: what a loaded row must satisfy, or the broker
\* refuses to start and live reconciliation never ends.
ValidDurableTask(row) ==
    /\ row.ver > 0
    /\ row.dlv # NoDelivery => row.until >= row.created
    /\ row.ack # NoTime => row.ack \in row.created .. DeliveryDeadline(row)
    /\ row.term # NoTime => row.term >= row.created
    /\ ColumnsFitState(row)

ValidForStore_Mutant(row) == row.ver > 0 /\ ColumnsFitState(row)

\* validate_durable_for_store: what a row must satisfy to be written.
ValidForStore(row) ==
    /\ row.ver > 0
    /\ row.ack # NoTime => row.ack \in row.created .. DeliveryDeadline(row)
    /\ row.dlv # NoDelivery =>
         LET leased == row.until - DeliveryLease
         IN  /\ leased >= row.created
             /\ row.ack # NoTime => row.ack \in leased .. (row.until - 1)
    /\ row.term # NoTime => row.term >= row.created
    /\ ColumnsFitState(row)

-----------------------------------------------------------------------------
(* validate_and_reconcile_snapshot: the rows that survive a reconciliation *)
(* at time now, repaired, and the batch that writes the repair back.       *)

ReconciledRow_Mutant(row, now) ==  \* an acknowledged delivery is taken back
    IF row.st \in Active /\ DeliveryDeadline(row) <= now
      THEN TerminalRow(row, now, "Expired", NoReply)
      ELSE IF row.st \in {"Leased", "Acknowledged"} THEN RequeuedRow(row) ELSE row

ReconciledRow(row, now) ==
    IF row.st \in Active /\ DeliveryDeadline(row) <= now
      THEN TerminalRow(row, now, "Expired", NoReply)
      ELSE IF row.st = "Leased" THEN RequeuedRow(row) ELSE row

ReconciledRows(rows, now) ==
    [t \in {u \in DOMAIN rows : ~Retired(rows[u], now)} |->
       ReconciledRow(rows[t], now)]

\* decode_durable_task: load reads a lease from two columns and holds every
\* row against the rules for writing before the scheduler's own.
DecodesAsTask(row) ==
    /\ (row.dlv # NoDelivery) <=> (row.until # NoTime)
    /\ ValidForStore(row)

SnapshotValid(rows) ==
    /\ Cardinality(DOMAIN rows) <= MaxRetainedTasks
    /\ \A t \in DOMAIN rows : DecodesAsTask(rows[t]) /\ ValidDurableTask(rows[t])
    /\ \A t, u \in DOMAIN rows :
         t # u /\ rows[t].dlv # NoDelivery => rows[t].dlv # rows[u].dlv

-----------------------------------------------------------------------------
(* A PersistenceBatch: an epoch high watermark (0 for none), rows to       *)
(* upsert and task ids to delete.                                          *)
IsBatch(b) ==
    /\ b = [mark |-> b.mark, put |-> b.put, del |-> b.del]
    /\ b.mark \in Nat /\ Partial(b.put, TaskIds, Row) /\ b.del \subseteq TaskIds

EmptyBatch(b) == b.mark = 0 /\ DOMAIN b.put = {} /\ b.del = {}

ReconcileBatch(rows, now) ==
    LET fixed == ReconciledRows(rows, now)
        changed == {t \in DOMAIN fixed : fixed[t] # rows[t]}
    IN  [mark |-> 0,
         put |-> [t \in changed |-> fixed[t]],
         del |-> {t \in DOMAIN rows : Retired(rows[t], now)}]
=============================================================================
