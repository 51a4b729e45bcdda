---------------------------- MODULE BrokerProofs ----------------------------
(***************************************************************************)
(* What holds in every behaviour of the broker, for any agents, messages,  *)
(* time limits and bounds.                                                 *)
(***************************************************************************)
EXTENDS BrokerSteps, BrokerQueues, BrokerLedger, ListingProofs

-----------------------------------------------------------------------------
(* Types, epochs and deliveries.                                           *)

\* The inductive invariant holds in every reachable state of the broker, for
\* any agents, messages, time limits and bounds.
THEOREM InvHolds == Spec => []Inv
<1>1. Inv /\ [Next]_vars => Inv'
  BY StepKeepsInv, ListLawsHold, TasksCount, Zenon
<1>2. QED
  BY <1>1, InitInv, PTL DEF Spec

\* The tables of State and the rows of delivery_tasks stay well typed through
\* every operation, crash and recovery (broker.rs).
THEOREM TypeCorrect == Spec => []TypeOK
<1>1. Inv => TypeOK
  BY Zenon DEF Inv
<1>2. QED
  BY <1>1, InvHolds, PTL

\* Every registration that register returns has a larger epoch than all the
\* earlier ones, across dropped requests, crashes and restarts, because its
\* epoch is in broker_meta before it is returned.
THEOREM EpochFenced == Spec => []EpochFence
<1>1. Inv => EpochFence
  BY Zenon DEF Inv
<1>2. QED
  BY <1>1, InvHolds, PTL

-----------------------------------------------------------------------------
(* The tables in memory.                                                   *)

\* The tables are exact in every reachable state.
LEMMA QueuesHold == Spec => []QueueInv
<1>1. Inv /\ Inv' /\ QueueInv /\ [Next]_vars => QueueInv'
  BY StepKeepsQueues, ListLawsHold, Zenon
<1>2. QED
  BY <1>1, InvHolds, InitQueues, PTL DEF Spec

\* No expired or replaced registration holds a lease that ack_delivery would
\* accept, whatever is dropped, crashes or is rebuilt: the owner of every lease
\* that is not acknowledged is the recipient's current registration.
THEOREM LeasesFenced == Spec => []LeaseFence
<1>1. QueueInv => LeaseFence
  BY Zenon DEF QueueInv
<1>2. QED
  BY <1>1, QueuesHold, PTL

\* tasks_by_delivery, active_tasks_by_agent, outbound_tasks_by_agent and
\* terminal_deadlines say what the task table says after every operation,
\* rebuilds included; so the expect() in ack_delivery cannot fail, and the
\* outbound quota counts the open tasks of a sender and nothing else.
THEOREM TablesIndexed == Spec => []IndexesAgree
<1>1. Inv /\ QueueInv => IndexesAgree
  BY Zenon DEF Inv, QueueInv, IndexesAgree
<1>2. QED
  BY <1>1, InvHolds, QueuesHold, PTL

\* While the wall clock does not step back, the inbox of every live
\* registration is exactly the deliverable tasks of its agent, in the order
\* they were sent.
THEOREM InboxesExact ==
    ASSUME ClockBack = 0
    PROVE  Spec => []InboxExact
<1>1. Inv /\ QueueInv => InboxExact
  BY QueuesExact, ListLawsHold, Zenon
<1>2. QED
  BY <1>1, InvHolds, QueuesHold, PTL

\* Whatever the clock does, an inbox holds each task at most once, in order,
\* and none that is ended, acknowledged or sent to somebody else.
THEOREM InboxesSound == Spec => []InboxSound
<1>1. QueueInv => InboxSound
  BY Zenon DEF QueueInv
<1>2. QED
  BY <1>1, QueuesHold, PTL

-----------------------------------------------------------------------------
(* The memory and the ledger.                                              *)

\* The two tables agree in every reachable state.
LEMMA LedgerHolds == Spec => []LedgerInv
<1>1. Inv /\ Inv' /\ QueueInv /\ LedgerInv /\ [Next]_vars => LedgerInv'
  BY StepKeepsLedger, Zenon DEF LedgerKept, QueueInv
<1>2. Init => LedgerInv
  BY InitLedger, ListLawsHold, Zenon
<1>3. QED
  BY <1>1, <1>2, InvHolds, QueuesHold, PTL DEF Spec

\* The memory of a broker and its ledger never drift apart unnoticed: with
\* dropped requests, commits that fail after they wrote, and crashes, an
\* unflagged difference is one write per task (SqliteTaskStore::commit against
\* State).  The clock must not step back, because only it says which tasks may
\* be missing from the ledger.
THEOREM LedgersAgree ==
    ASSUME ClockBack = 0
    PROVE  Spec => []LedgerAgreement
<1>1. Inv /\ LedgerInv => LedgerAgreement
  BY LedgerAgrees, Zenon
<1>2. QED
  BY <1>1, InvHolds, LedgerHolds, PTL

\* One delivery of a task is acknowledged at most, and never taken back: what
\* ack_delivery told a recipient survives every crash, dropped request and
\* reconciliation.
THEOREM AcknowledgedOnce == Spec => []AckedOnce
<1>1. Inv /\ LedgerInv => AckedOnce
  BY AcksAgree, ListLawsHold, Zenon
<1>2. QED
  BY <1>1, InvHolds, LedgerHolds, PTL

\* The outcome that reply, fail_task, reject_task or cancel_task reported Ok is
\* the one the ledger keeps as long as it keeps the task.
THEOREM OutcomesKept == Spec => []OutcomeKept
<1>1. LedgerInv => OutcomeKept
  BY DEF LedgerInv, Told, ToldAt, ToldRow, OutcomeKept
<1>2. QED
  BY <1>1, LedgerHolds, PTL

\* Whatever has been written, the next start and the next reconciliation accept:
\* validate_durable_for_store on the way in implies validate_durable_task on the
\* way out, and no two rows ever share a delivery id.
THEOREM Recoverable == Spec => []AlwaysRecoverable
<1>1. Inv /\ LedgerInv => AlwaysRecoverable
  BY RowsRecover, Zenon
<1>2. QED
  BY <1>1, InvHolds, LedgerHolds, PTL

\* Every transaction that reaches SQLite, from a request, maintenance, recovery
\* or a client that has gone, moves each task along the lifecycle or leaves it.
THEOREM LifecycleImplemented == Spec => ImplementsLifecycle
<1> DEFINE status == [t \in TaskIds |->
                        IF t \in DOMAIN ledger
                          THEN StatusOf(ledger[t])
                          ELSE [st |-> "Unknown", dlv |-> NoDelivery, offers |-> 0,
                                reply |-> NoReply]]
<1>1. Init => Lifecycle!Init
  <2> SUFFICES ASSUME Init  PROVE  Lifecycle!Init
    OBVIOUS
  <2>1. DOMAIN ledger = {}
    BY EmptyPartial DEF Init
  <2>2. QED
    BY <2>1 DEF Lifecycle!Init, Lifecycle!Unknown
<1>2. ASSUME Inv, Inv', QueueInv, LedgerInv, [Next]_vars
      PROVE  [Lifecycle!Next]_status
  <2>1. LedgerMoves
    BY <1>2, StepKeepsLedger, Zenon DEF LedgerKept, QueueInv
  <2>2. Lifecycle!Next
    BY <1>2, <2>1, MovesImplement, Zenon
  <2>3. QED
    BY <2>2, Zenon
<1>3. QED
  BY <1>1, <1>2, InvHolds, QueuesHold, LedgerHolds, PTL
     DEF Spec, ImplementsLifecycle, Lifecycle!Spec
=============================================================================
