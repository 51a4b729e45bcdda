--------------------------- MODULE FrontEndProofs ---------------------------
(***************************************************************************)
(* Proofs about the A2A side of the broker, for any number of sends,       *)
(* subscribers, tasks, executions, panes and requests: the sends to one    *)
(* task id are serialized, the projections follow the ledger, and the name *)
(* of an agent is the name of one process.                                 *)
(***************************************************************************)
EXTENDS SendWorkflow, Projections, Directory, TLAPS

(* The send gate: of the sends to one task id one is at work at a time.    *)

\* From the moment it has fetched a gate until it has released it, a workflow
\* holds the gate that the map names.
Attached == {"lock", "release"} \cup Guarded

Results == {"none", "error", "conflict", "task", "stream"}

Contexts == Sends \cup {Absent}

WorkflowState ==
    [pc : {"idle", "leave", "done"} \cup Attached, gate : Nat, context : Contexts, life : Nat,
     result : Results]

WorkflowType ==
    /\ gates \in Nat /\ made \in Nat /\ lives \in Nat
    /\ send \in [Sends -> WorkflowState]
    /\ task \in {Absent} \cup [life : Nat, context : Contexts, other : BOOLEAN, ended : BOOLEAN]

\* A gate is removed from the map, or replaced in it, only when no workflow is
\* attached to it; so all attached workflows hold one gate.
GateHeld ==
    \A s \in Sends : send[s].pc \in Attached => send[s].gate = gates /\ gates # 0

Serialized == WorkflowType /\ GateHeld /\ OneWorkflow

-----------------------------------------------------------------------------
\* A workflow that goes on without letting go of its gate, and does not enter
\* the guarded part anew, disturbs nobody.
LEMMA KeepsItsPlace ==
    ASSUME Serialized, NEW s \in Sends, NEW w \in WorkflowState,
           send' = [send EXCEPT ![s] = w], gates' = gates,
           w.gate = send[s].gate,
           w.pc \in Attached => send[s].pc \in Attached,
           w.pc \in Guarded => send[s].pc \in Guarded
    PROVE  send' \in [Sends -> WorkflowState] /\ GateHeld' /\ OneWorkflow'
<1>1. send' \in [Sends -> WorkflowState]
  BY Zenon DEF Serialized, WorkflowType
<1>2. \A r \in Sends : send'[r] = IF r = s THEN w ELSE send[r]
  BY Zenon DEF Serialized, WorkflowType
<1>3. GateHeld'
  BY <1>2, Zenon DEF Serialized, GateHeld
<1>4. OneWorkflow'
  BY <1>2, Zenon DEF Serialized, OneWorkflow
<1>5. QED
  BY <1>1, <1>3, <1>4, Zenon

\* The steps that leave the workflows and the gates alone.
LEMMA ElsewhereKeepsSerialized ==
    ASSUME Serialized, WorkflowType', UNCHANGED <<send, gates>>
    PROVE  Serialized'
BY Zenon DEF Serialized, GateHeld, OneWorkflow

LEMMA InitSerialized == SendInit => Serialized
<1>1. SUFFICES ASSUME SendInit PROVE Serialized
  BY Zenon
<1>2. WorkflowType
  BY <1>1, Zenon DEF SendInit, WorkflowType, WorkflowState, Results, Contexts, Attached, Guarded
<1>3. \A s \in Sends : send[s].pc = "idle"
  BY <1>1, Zenon DEF SendInit
<1>4. QED
  BY <1>2, <1>3, Zenon DEF Serialized, GateHeld, OneWorkflow, Attached, Guarded

\* send_gate: the gate in the map is taken while somebody holds it; otherwise
\* nobody is attached, and a new gate can replace it.
LEMMA SendGateKeepsSerialized ==
    ASSUME Serialized, NEW s \in Sends, send_gate(s)
    PROVE  Serialized'
<1>1. CASE Alive(gates)
  <2>1. send' = [send EXCEPT ![s] = [send[s] EXCEPT !.pc = "lock", !.gate = gates]] /\ UNCHANGED <<gates, made>>
    BY <1>1, Zenon DEF send_gate, gating
  <2>2. WorkflowType'
    BY <2>1 DEF Serialized, WorkflowType, WorkflowState, send_gate, Attached
  <2>3. \A r \in Sends : send'[r] = IF r = s THEN [send[s] EXCEPT !.pc = "lock", !.gate = gates] ELSE send[r]
    BY <2>1, Zenon DEF Serialized, WorkflowType
  <2>4. send'[s].pc = "lock" /\ send'[s].gate = gates
    BY <2>3, Zenon DEF Serialized, WorkflowType, WorkflowState
  <2>5. GateHeld'
    BY <1>1, <2>1, <2>3, <2>4, Zenon DEF Serialized, GateHeld, Alive
  <2>6. OneWorkflow'
    BY <2>3, <2>4, Zenon DEF Serialized, OneWorkflow, Guarded
  <2>7. QED
    BY <2>2, <2>5, <2>6, Zenon DEF Serialized
<1>2. CASE ~Alive(gates)
  <2>1. /\ send' = [send EXCEPT ![s] = [send[s] EXCEPT !.pc = "lock", !.gate = made + 1]]
        /\ gates' = made + 1 /\ made' = made + 1
    BY <1>2, Zenon DEF send_gate
  <2>2. WorkflowType'
    BY <2>1 DEF Serialized, WorkflowType, WorkflowState, send_gate, Attached
  <2>3. \A r \in Sends : send'[r] = IF r = s THEN [send[s] EXCEPT !.pc = "lock", !.gate = made + 1] ELSE send[r]
    BY <2>1, Zenon DEF Serialized, WorkflowType
  <2>4. send'[s].pc = "lock" /\ send'[s].gate = made + 1
    BY <2>3, Zenon DEF Serialized, WorkflowType, WorkflowState
  <2>5. \A r \in Sends : send[r].pc \notin Attached
    BY <1>2, Zenon DEF Serialized, GateHeld, Alive, Holders
  <2>6. GateHeld' /\ OneWorkflow'
    BY <2>1, <2>3, <2>4, <2>5 DEF Serialized, WorkflowType, GateHeld, OneWorkflow, Attached, Guarded
  <2>7. QED
    BY <2>2, <2>6, Zenon DEF Serialized
<1>3. QED
  BY <1>1, <1>2, Zenon

\* Locks: whoever is in the guarded part holds the same gate, so that the lock
\* is free only when nobody is.
LEMMA LocksKeepsSerialized ==
    ASSUME Serialized, NEW s \in Sends, Locks(s)
    PROVE  Serialized'
<1>1. send' = [send EXCEPT ![s] = [send[s] EXCEPT !.pc = "context"]] /\ UNCHANGED <<gates, made, task, lives>>
  BY Zenon DEF Locks, SendGoes, gating
<1>2. WorkflowType'
  BY <1>1 DEF Serialized, WorkflowType, WorkflowState, Attached, Guarded
<1>3. \A r \in Sends : send'[r] = IF r = s THEN [send[s] EXCEPT !.pc = "context"] ELSE send[r]
  BY <1>1, Zenon DEF Serialized, WorkflowType
<1>4. send'[s].pc = "context" /\ send'[s].gate = send[s].gate
  BY <1>3, Zenon DEF Serialized, WorkflowType, WorkflowState
<1>5. \A r \in Sends : send[r].pc \notin Guarded
  BY Zenon DEF Serialized, GateHeld, Locks, SendAt, Holders, Attached
<1>6. GateHeld'
  BY <1>1, <1>3, <1>4, Zenon DEF Serialized, GateHeld, Locks, SendAt, Attached
<1>7. OneWorkflow'
  BY <1>3, <1>5, Zenon DEF OneWorkflow
<1>8. QED
  BY <1>2, <1>6, <1>7, Zenon DEF Serialized

\* release_send_gate: the entry is removed only when no other workflow holds
\* its gate.
LEMMA ReleaseKeepsSerialized ==
    ASSUME Serialized, NEW s \in Sends, release_send_gate(s)
    PROVE  Serialized'
<1>1. /\ send' = [send EXCEPT ![s] = [send[s] EXCEPT !.pc = "leave"]]
      /\ gates' = (IF Removable(s) THEN 0 ELSE gates) /\ UNCHANGED <<made, task, lives>>
  BY Zenon DEF release_send_gate, SendGoes
<1>2. WorkflowType'
  BY <1>1 DEF Serialized, WorkflowType, WorkflowState, Attached, Guarded
<1>3. \A r \in Sends : send'[r] = IF r = s THEN [send[s] EXCEPT !.pc = "leave"] ELSE send[r]
  BY <1>1, Zenon DEF Serialized, WorkflowType
<1>4. send'[s].pc = "leave"
  BY <1>3, Zenon DEF Serialized, WorkflowType, WorkflowState
<1>5. Removable(s) => \A r \in Sends \ {s} : send[r].pc \notin Attached
  BY Zenon DEF Serialized, GateHeld, Removable, Holders
<1>6. GateHeld'
  BY <1>1, <1>3, <1>4, <1>5, Zenon DEF Serialized, GateHeld, Attached, Guarded
<1>7. OneWorkflow'
  BY <1>3, <1>4, Zenon DEF Serialized, OneWorkflow, Guarded
<1>8. QED
  BY <1>2, <1>6, <1>7, Zenon DEF Serialized

LEMMA ReturnsKeepsSerialized ==
    ASSUME Serialized, NEW s \in Sends, Returns(s)
    PROVE  Serialized'
<1>1. send' = [send EXCEPT ![s] = [send[s] EXCEPT !.pc = "done", !.gate = 0]] /\ UNCHANGED <<gates, made, task, lives>>
  BY Zenon DEF Returns, gating
<1>2. WorkflowType'
  BY <1>1, Zenon DEF Serialized, WorkflowType, WorkflowState, Attached, Guarded
<1>3. \A r \in Sends : send'[r] = IF r = s THEN [send[s] EXCEPT !.pc = "done", !.gate = 0] ELSE send[r]
  BY <1>1, Zenon DEF Serialized, WorkflowType
<1>4. send'[s].pc = "done"
  BY <1>3, Zenon DEF Serialized, WorkflowType, WorkflowState
<1>5. GateHeld' /\ OneWorkflow'
  BY <1>1, <1>3, <1>4 DEF Serialized, GateHeld, OneWorkflow, Attached, Guarded
<1>6. QED
  BY <1>2, <1>5, Zenon DEF Serialized

Onward == Guarded \cup {"release", "leave"}

\* w with its phase changed, and perhaps one thing more, but not its gate.
MovesOn(w, v) == v \in WorkflowState /\ v.pc \in Onward /\ v.gate = w.gate

LEMMA RecordChanges ==
    ASSUME NEW w \in WorkflowState, NEW pc \in Onward, NEW context \in Contexts,
           NEW life \in Nat, NEW result \in Results
    PROVE  /\ MovesOn(w, [w EXCEPT !.pc = pc])
           /\ MovesOn(w, [w EXCEPT !.pc = pc, !.context = context])
           /\ MovesOn(w, [w EXCEPT !.pc = pc, !.life = life])
           /\ MovesOn(w, [w EXCEPT !.pc = pc, !.result = result])
<1>1. pc \in {"idle", "leave", "done"} \cup Attached
  BY Zenon DEF Onward, Attached
<1>2. MovesOn(w, [w EXCEPT !.pc = pc])
  BY <1>1, Zenon DEF MovesOn, WorkflowState
<1>3. MovesOn(w, [w EXCEPT !.pc = pc, !.context = context])
  BY <1>1, Zenon DEF MovesOn, WorkflowState
<1>4. MovesOn(w, [w EXCEPT !.pc = pc, !.life = life])
  BY <1>1, Zenon DEF MovesOn, WorkflowState
<1>5. MovesOn(w, [w EXCEPT !.pc = pc, !.result = result])
  BY <1>1, Zenon DEF MovesOn, WorkflowState, Results
<1>6. QED
  BY <1>2, <1>3, <1>4, <1>5, Zenon

\* A guarded workflow moves on, keeps its gate and disturbs nobody.
LEMMA GuardedKeepsSerialized ==
    ASSUME Serialized, NEW s \in Sends, send[s].pc \in Guarded,
           NEW w, MovesOn(send[s], w), send' = [send EXCEPT ![s] = w],
           UNCHANGED gating, lives' \in Nat,
           task' \in {Absent} \cup [life : Nat, context : Contexts, other : BOOLEAN, ended : BOOLEAN]
    PROVE  Serialized'
<1>1. send' \in [Sends -> WorkflowState] /\ GateHeld' /\ OneWorkflow'
  BY KeepsItsPlace, Zenon DEF Attached, MovesOn, gating
<1>2. QED
  BY <1>1, Zenon DEF Serialized, WorkflowType, gating

\* Goes and Finishes, which most of the guarded steps are made of.
LEMMA GoesOrFinishes ==
    ASSUME Serialized, NEW s \in Sends, send[s].pc \in Guarded, NEW pc \in Onward,
           SendGoes(s, pc) \/ \E result \in Results : Finishes(s, pc, result),
           UNCHANGED <<task, lives, gating>>
    PROVE  Serialized'
<1>1. send[s] \in WorkflowState
  BY Zenon DEF Serialized, WorkflowType
<1>2. Absent \in Contexts /\ 0 \in Nat /\ "none" \in Results
  BY Zenon DEF Contexts, Results
<1>3. CASE SendGoes(s, pc)
  <2>1. send' = [send EXCEPT ![s] = [send[s] EXCEPT !.pc = pc]]
    BY <1>3, Zenon DEF SendGoes
  <2>2. MovesOn(send[s], [send[s] EXCEPT !.pc = pc])
    BY <1>1, <1>2, RecordChanges, Zenon
  <2>3. QED
    BY <2>1, <2>2, GuardedKeepsSerialized, Zenon DEF Serialized, WorkflowType
<1>4. ASSUME NEW result \in Results, Finishes(s, pc, result)
      PROVE  Serialized'
  <2>1. send' = [send EXCEPT ![s] = [send[s] EXCEPT !.pc = pc, !.result = result]]
    BY <1>4, Zenon DEF Finishes
  <2>2. MovesOn(send[s], [send[s] EXCEPT !.pc = pc, !.result = result])
    BY <1>1, <1>2, RecordChanges, Zenon
  <2>3. QED
    BY <2>1, <2>2, GuardedKeepsSerialized, Zenon DEF Serialized, WorkflowType
<1>5. QED
  BY <1>3, <1>4, Zenon

\* Every other step of a workflow is taken in the guarded part.
LEMMA WorkflowKeepsSerialized ==
    ASSUME Serialized, NEW s \in Sends,
           \/ Rejected(s) \/ ReadFails(s) \/ prepare_send(s) \/ start_or_resume(s) \/ enqueue(s)
           \/ Started(s) \/ ReadStored(s) \/ SubscribeActive(s) \/ Follows(s)
           \/ admit_execution(s) \/ run_admitted_unary(s)
    PROVE  Serialized'
<1>1. send[s] \in WorkflowState
  BY Zenon DEF Serialized, WorkflowType
<1>2. Absent \in Contexts /\ 0 \in Nat /\ "none" \in Results
  BY Zenon DEF Contexts, Results
<1>3. CASE Rejected(s) \/ ReadFails(s)
  BY <1>3, GoesOrFinishes, Zenon DEF Rejected, ReadFails, SendAt, Guarded, Onward, Results
<1>4. CASE prepare_send(s)
  <2>1. send' = [send EXCEPT ![s] = [send[s] EXCEPT !.pc = "decide", !.context = ContextOf(s)]]
    BY <1>4, Zenon DEF prepare_send
  <2>2. ContextOf(s) \in Contexts
    BY Zenon DEF ContextOf, Contexts, Serialized, WorkflowType
  <2>3. MovesOn(send[s], [send[s] EXCEPT !.pc = "decide", !.context = ContextOf(s)])
    BY <1>1, <1>2, <2>2, RecordChanges, Zenon DEF Onward, Guarded
  <2>4. QED
    BY <1>4, <2>1, <2>3, GuardedKeepsSerialized, Zenon DEF prepare_send, SendAt, Guarded, Serialized, WorkflowType
<1>5. CASE start_or_resume(s)
  <2>1. CASE SendGoes(s, "enqueue") \/ Finishes(s, "release", "conflict")
    BY <1>5, <2>1, GoesOrFinishes, Zenon DEF start_or_resume, SendAt, Guarded, Onward, Results
  <2>2. CASE task # Absent /\ send' = [send EXCEPT ![s].pc = Resumed(s), ![s].life = task.life]
    <3>1. send' = [send EXCEPT ![s] = [send[s] EXCEPT !.pc = Resumed(s), !.life = task.life]]
      BY <2>2, Zenon
    <3>2. task.life \in Nat /\ Resumed(s) \in Onward
      BY <2>2, Zenon DEF Serialized, WorkflowType, Resumed, Guarded, Onward
    <3>3. MovesOn(send[s], [send[s] EXCEPT !.pc = Resumed(s), !.life = task.life])
      BY <1>1, <1>2, <3>2, RecordChanges, Zenon
    <3>4. QED
      BY <1>5, <3>1, <3>3, GuardedKeepsSerialized, Zenon DEF start_or_resume, SendAt, Guarded, Serialized, WorkflowType
  <2>3. QED
    BY <1>5, <2>1, <2>2, Zenon DEF start_or_resume
<1>6. CASE enqueue(s)
  <2>1. send' = [send EXCEPT ![s] = [send[s] EXCEPT !.pc = "snapshot", !.life = lives + 1]]
    BY <1>6, Zenon DEF enqueue
  <2>2. lives + 1 \in Nat
    BY DEF Serialized, WorkflowType
  <2>3. MovesOn(send[s], [send[s] EXCEPT !.pc = "snapshot", !.life = lives + 1])
    BY <1>1, <1>2, <2>2, RecordChanges, Zenon DEF Onward, Guarded
  <2>4. task' \in [life : Nat, context : Contexts, other : BOOLEAN, ended : BOOLEAN]
    BY <1>1, <1>6, <2>2 DEF enqueue, WorkflowState
  <2>5. QED
    BY <1>6, <2>1, <2>2, <2>3, <2>4, GuardedKeepsSerialized, Zenon DEF enqueue, SendAt, Guarded
<1>7. CASE Started(s) \/ ReadStored(s)
  BY <1>7, GoesOrFinishes, Zenon DEF Started, ReadStored, SendAt, Guarded, Onward, Results
<1>8. CASE SubscribeActive(s) \/ Follows(s)
  BY <1>8, GoesOrFinishes, Zenon DEF SubscribeActive, Follows, SendAt, Guarded, Onward, Results
<1>9. CASE admit_execution(s) \/ run_admitted_unary(s)
  BY <1>9, GoesOrFinishes, Zenon DEF admit_execution, run_admitted_unary, SendAt, Guarded, Onward, Results
<1>10. QED
  BY <1>3, <1>4, <1>5, <1>6, <1>7, <1>8, <1>9, Zenon

LEMMA StepKeepsSerialized == Serialized /\ [SendNext]_sendVars => Serialized'
<1> SUFFICES ASSUME Serialized, [SendNext]_sendVars PROVE Serialized'
  BY Zenon
<1>1. ASSUME NEW s \in Sends,
             begin_execution(s) \/ ExecutionFails(s) \/ ExecutionEnds(s) \/ DropStream(s)
      PROVE  Serialized'
  BY <1>1, ElsewhereKeepsSerialized, Zenon
  DEF begin_execution, ExecutionFails, ExecutionEnds, DropStream, gating, Serialized, WorkflowType
<1>2. ASSUME NEW u \in Subscribers, require_owner_and_recipient(u) \/ Subscription(u)
      PROVE  Serialized'
  BY <1>2, ElsewhereKeepsSerialized, Zenon
  DEF require_owner_and_recipient, Subscription, subscribe_to_task, SubFollows, SubReads, SubWaits,
      gating, Serialized, WorkflowType
<1>3. CASE TaskEnds
  BY <1>3, ElsewhereKeepsSerialized, Zenon DEF TaskEnds, gating, Serialized, WorkflowType
<1>4. CASE TaskDeleted
  BY <1>4, ElsewhereKeepsSerialized, Zenon DEF TaskDeleted, gating, Serialized, WorkflowType
<1>5. CASE UNCHANGED sendVars
  BY <1>5, ElsewhereKeepsSerialized, Zenon DEF sendVars, gating, Serialized, WorkflowType
<1>6. QED
  BY <1>1, <1>2, <1>3, <1>4, <1>5, SendGateKeepsSerialized, LocksKeepsSerialized,
     ReleaseKeepsSerialized, ReturnsKeepsSerialized, WorkflowKeepsSerialized, Zenon
  DEF SendNext, Workflow, Execution

-----------------------------------------------------------------------------
\* At most one of the sends to a task id is between the lock of its gate and
\* the end of its workflow, although the map of send_gate (a2a.rs) holds gates
\* weakly and drops and remakes them, for any number of concurrent sends.
THEOREM WorkflowsSerialized == SendSpec => []OneWorkflow
<1>1. Serialized => OneWorkflow
  BY Zenon DEF Serialized
<1>2. QED
  BY <1>1, InitSerialized, StepKeepsSerialized, PTL DEF SendSpec

-----------------------------------------------------------------------------
(* The projections: what the A2A side shows is what the ledger says.       *)

TablesType ==
    /\ ledger \in [Tasks -> Rows \cup {None}]
    /\ outbox \in [Tasks -> Entries \cup {None}]
    /\ stored \in [Tasks -> Entries \cup {None}]
    /\ spent \in [Tasks -> Nat]

Consistent == TablesType /\ ProjectionFollowsLedger

\* ProjectionFollowsLedger for one task with row l, outbox entry o, projection s.
FollowsRow(l, o, s) ==
    IF l = None THEN s = None /\ o = None
    ELSE \/ o = None /\ s = Entry(l)
         \/ o = Entry(l) /\ (s = None \/ s.version < l.version)

-----------------------------------------------------------------------------
LEMMA TaskByTask ==
    /\ ProjectionFollowsLedger <=> \A t \in Tasks : FollowsRow(ledger[t], outbox[t], stored[t])
    /\ ProjectionFollowsLedger' <=> \A t \in Tasks : FollowsRow(ledger'[t], outbox'[t], stored'[t])
BY Zenon DEF ProjectionFollowsLedger, FollowsRow

\* The entry of a row is an entry, of the row's version.
LEMMA EntryOfRow ==
    ASSUME ProjectionBounds, NEW row \in Rows
    PROVE  Entry(row) \in Entries /\ Entry(row) # None /\ Entry(row).version = row.version
<1>1. Face(row.state) \in {"submitted", "working", "terminal"}
  BY Zenon DEF Face
<1>2. View(row) \in [life : Nat, face : {"submitted", "working", "terminal"}, time : Nat]
  BY <1>1, Zenon DEF View, Rows
<1>3. Entry(row) \in Entries
  BY <1>2, Zenon DEF Entry, Entries, Rows
<1>4. QED
  BY <1>3, Zenon DEF ProjectionBounds, Entry

LEMMA InitConsistent == ProjectionInit => Consistent
BY DEF ProjectionInit, Consistent, TablesType, ProjectionFollowsLedger

\* Steps of the executions that touch no table.
LEMMA ElsewhereKeepsConsistent ==
    ASSUME Consistent, UNCHANGED tables
    PROVE  Consistent'
BY Zenon DEF Consistent, TablesType, ProjectionFollowsLedger, tables

\* apply_pending_projections over tables that follow the ledger, or fail to be
\* written: either way they follow it.
LEMMA ProjectKeepsConsistent ==
    ASSUME ProjectionBounds,
           NEW s \in [Tasks -> Entries \cup {None}], NEW o \in [Tasks -> Entries \cup {None}],
           ledger' \in [Tasks -> Rows \cup {None}], spent' \in [Tasks -> Nat],
           \A t \in Tasks : FollowsRow(ledger'[t], o[t], s[t]),
           \/ stored' = Projected(s, o) /\ outbox' = [t \in Tasks |-> None]
           \/ stored' = s /\ outbox' = o
    PROVE  Consistent'
<1>1. CASE stored' = s /\ outbox' = o
  BY <1>1, TaskByTask, Zenon DEF Consistent, TablesType
<1>2. CASE stored' = Projected(s, o) /\ outbox' = [t \in Tasks |-> None]
  <2>1. TablesType'
    BY <1>2, Zenon DEF TablesType, Projected
  <2>2. ASSUME NEW t \in Tasks PROVE FollowsRow(ledger'[t], outbox'[t], stored'[t])
    <3>1. outbox'[t] = None /\ stored'[t] = IF o[t] = None THEN s[t] ELSE o[t]
      BY <1>2, Zenon DEF Projected
    <3>2. FollowsRow(ledger'[t], o[t], s[t])
      BY Zenon
    <3>3. QED
      BY <3>1, <3>2, Zenon DEF FollowsRow
  <2>3. QED
    BY <2>1, <2>2, TaskByTask, Zenon DEF Consistent
<1>3. QED
  BY <1>1, <1>2, Zenon

\* A commit writes the row and its entry together, with a version above the
\* projection's.
LEMMA CommitKeepsConsistent ==
    ASSUME ProjectionBounds, Consistent, NEW t \in Tasks, NEW row \in Rows,
           ledger[t] # None => row.version > ledger[t].version,
           Commit(t, row), spent' \in [Tasks -> Nat]
    PROVE  Consistent'
<1> DEFINE o == [outbox EXCEPT ![t] = Entry(row)]
<1>1. Entry(row) \in Entries /\ Entry(row) # None
  BY EntryOfRow, Zenon
<1>2. ledger' \in [Tasks -> Rows \cup {None}] /\ o \in [Tasks -> Entries \cup {None}]
  BY <1>1, Zenon DEF Commit, Consistent, TablesType
<1>3. ASSUME NEW u \in Tasks, u # t PROVE FollowsRow(ledger'[u], o[u], stored[u])
  <2>1. ledger'[u] = ledger[u] /\ o[u] = outbox[u]
    BY <1>3, Zenon DEF Commit, Consistent, TablesType
  <2>2. QED
    BY <2>1, TaskByTask, Zenon DEF Consistent
<1>4. FollowsRow(ledger'[t], o[t], stored[t])
  <2>1. ledger'[t] = row /\ o[t] = Entry(row) /\ row # None
    BY Zenon DEF Commit, Consistent, TablesType, ProjectionBounds
  <2>2. stored[t] = None \/ stored[t].version < row.version
    <3>1. CASE ledger[t] = None
      BY <3>1, TaskByTask, Zenon DEF Consistent, FollowsRow
    <3>2. CASE ledger[t] # None
      <4>1. ledger[t] \in Rows
        BY <3>2, Zenon DEF Consistent, TablesType
      <4>2. ledger[t].version \in Nat /\ row.version \in Nat /\ Entry(ledger[t]).version = ledger[t].version
        BY <4>1, EntryOfRow, Zenon DEF Rows
      <4>3. stored[t] = None \/ stored[t] = Entry(ledger[t]) \/ stored[t].version < ledger[t].version
        BY <3>2, TaskByTask, Zenon DEF Consistent, FollowsRow
      <4>4. stored[t] # None => stored[t].version \in Nat
        BY Zenon DEF Consistent, TablesType, Entries
      <4>5. QED
        BY <3>2, <4>2, <4>3, <4>4
    <3>3. QED
      BY <3>1, <3>2, Zenon
  <2>3. QED
    BY <2>1, <2>2, Zenon DEF FollowsRow
<1>5. \A u \in Tasks : FollowsRow(ledger'[u], o[u], stored[u])
  BY <1>3, <1>4, Zenon
<1>6. \/ stored' = Projected(stored, o) /\ outbox' = [u \in Tasks |-> None]
      \/ stored' = stored /\ outbox' = o
  BY Zenon DEF Commit, Project
<1>7. QED
  BY <1>2, <1>5, <1>6, ProjectKeepsConsistent, Zenon DEF Consistent, TablesType

LEMMA InsertKeepsConsistent ==
    ASSUME ProjectionBounds, Consistent, NEW t \in Tasks, Insert(t)
    PROVE  Consistent'
<1> DEFINE row == [life |-> spent[t] + 1, state |-> "queued", version |-> 1, time |-> 0]
<1>1. row \in Rows /\ spent' \in [Tasks -> Nat]
  BY DEF Insert, Rows, Consistent, TablesType
<1>2. QED
  BY <1>1, CommitKeepsConsistent, Zenon DEF Insert

LEMMA TransitionKeepsConsistent ==
    ASSUME ProjectionBounds, Consistent, NEW t \in Tasks, Transition(t)
    PROVE  Consistent'
<1>1. ledger[t] \in Rows
  BY Zenon DEF Transition, Consistent, TablesType
<1>2. PICK s \in Successors(ledger[t].state), later \in {0, 1} :
        Commit(t, [ledger[t] EXCEPT !.state = s, !.version = @ + 1, !.time = @ + later])
  BY Zenon DEF Transition
<1> DEFINE row == [ledger[t] EXCEPT !.state = s, !.version = @ + 1, !.time = @ + later]
<1>3. s \in {"queued", "leased", "acknowledged", "ended"}
  BY <1>1, Zenon DEF Successors, Rows
<1>4. row \in Rows /\ row.version = ledger[t].version + 1
  <2>1. ledger[t].version + 1 \in Nat /\ ledger[t].time + later \in Nat
    BY <1>1 DEF Rows
  <2>2. row = [ledger[t] EXCEPT !.state = s, !.version = ledger[t].version + 1,
                                !.time = ledger[t].time + later]
    BY <1>1, Zenon DEF Rows
  <2>3. \A v, w \in Nat :
          /\ [ledger[t] EXCEPT !.state = s, !.version = v, !.time = w] \in Rows
          /\ [ledger[t] EXCEPT !.state = s, !.version = v, !.time = w].version = v
    BY <1>1, <1>3, Zenon DEF Rows
  <2>4. QED
    BY <2>1, <2>2, <2>3, Zenon
<1>5. row.version > ledger[t].version
  BY <1>1, <1>4 DEF Rows
<1>6. spent' \in [Tasks -> Nat]
  BY Zenon DEF Transition, Consistent, TablesType
<1> HIDE DEF row
<1>7. Commit(t, row)
  BY <1>2, Zenon DEF row
<1>8. QED
  BY <1>4, <1>5, <1>6, <1>7, CommitKeepsConsistent, Zenon

\* Retention removes the row, its view and its entry together.
LEMMA DeleteKeepsConsistent ==
    ASSUME ProjectionBounds, Consistent, NEW t \in Tasks, Delete(t)
    PROVE  Consistent'
<1> DEFINE s == [stored EXCEPT ![t] = None]
           o == [outbox EXCEPT ![t] = None]
<1>1. /\ s \in [Tasks -> Entries \cup {None}] /\ o \in [Tasks -> Entries \cup {None}]
      /\ ledger' \in [Tasks -> Rows \cup {None}] /\ spent' \in [Tasks -> Nat]
  BY Zenon DEF Delete, Consistent, TablesType
<1>2. ASSUME NEW u \in Tasks PROVE FollowsRow(ledger'[u], o[u], s[u])
  <2>1. CASE u = t
    BY <2>1, Zenon DEF Delete, Consistent, TablesType, FollowsRow
  <2>2. CASE u # t
    <3>1. ledger'[u] = ledger[u] /\ o[u] = outbox[u] /\ s[u] = stored[u]
      BY <2>2, Zenon DEF Delete, Consistent, TablesType
    <3>2. QED
      BY <3>1, TaskByTask, Zenon DEF Consistent
  <2>3. QED
    BY <2>1, <2>2, Zenon
<1>3. \/ stored' = Projected(s, o) /\ outbox' = [u \in Tasks |-> None]
      \/ stored' = s /\ outbox' = o
  BY Zenon DEF Delete, Project
<1>4. QED
  BY <1>1, <1>2, <1>3, ProjectKeepsConsistent, Zenon

LEMMA ReconcileKeepsConsistent ==
    ASSUME ProjectionBounds, Consistent, Reconcile \/ Restart
    PROVE  Consistent'
<1>1. stored' = Projected(stored, outbox) /\ outbox' = [t \in Tasks |-> None]
  BY Zenon DEF Reconcile, Restart
<1>2. ledger' = ledger /\ spent' = spent
  BY Zenon DEF Reconcile, Restart
<1>3. \A t \in Tasks : FollowsRow(ledger'[t], outbox[t], stored[t])
  BY <1>2, TaskByTask, Zenon DEF Consistent
<1>4. QED
  BY <1>1, <1>2, <1>3, ProjectKeepsConsistent, Zenon DEF Consistent, TablesType

\* The SDK writes at most the entry that is pending, however late it comes.
LEMMA SdkWriteKeepsConsistent ==
    ASSUME ProjectionBounds, Consistent, NEW e \in Executions, apply_sdk_projection(e)
    PROVE  Consistent'
<1> DEFINE t == run[e].task
<1>1. ledger' = ledger /\ spent' = spent
  BY Zenon DEF apply_sdk_projection
<1>2. \/ UNCHANGED <<stored, outbox>>
      \/ /\ outbox[t] # None
         /\ stored' = [stored EXCEPT ![t] = outbox[t]]
         /\ outbox' = [outbox EXCEPT ![t] = None]
  BY Zenon DEF apply_sdk_projection, Applies
<1>3. CASE UNCHANGED <<stored, outbox>>
  BY <1>1, <1>3, ElsewhereKeepsConsistent, Zenon DEF tables
<1>4. CASE /\ outbox[t] # None
           /\ stored' = [stored EXCEPT ![t] = outbox[t]]
           /\ outbox' = [outbox EXCEPT ![t] = None]
  <2>1. \A u \in Tasks : /\ stored'[u] = IF u = t THEN outbox[u] ELSE stored[u]
                         /\ outbox'[u] = IF u = t THEN None ELSE outbox[u]
    BY <1>4, Zenon DEF Consistent, TablesType
  <2>2. TablesType'
    BY <1>1, <1>4, <2>1, Zenon DEF Consistent, TablesType
  <2>3. ASSUME NEW u \in Tasks PROVE FollowsRow(ledger'[u], outbox'[u], stored'[u])
    <3>1. FollowsRow(ledger[u], outbox[u], stored[u])
      BY TaskByTask, Zenon DEF Consistent
    <3>2. QED
      BY <1>1, <1>4, <2>1, <3>1, Zenon DEF FollowsRow
  <2>4. QED
    BY <2>2, <2>3, TaskByTask, Zenon DEF Consistent
<1>5. QED
  BY <1>2, <1>3, <1>4, Zenon

LEMMA StepKeepsConsistent ==
    ASSUME ProjectionBounds, Consistent, [ProjectionNext]_projectionVars
    PROVE  Consistent'
<1>1. CASE UNCHANGED projectionVars
  BY <1>1, ElsewhereKeepsConsistent, Zenon DEF projectionVars
<1>2. ASSUME NEW e \in Executions,
             \/ \E t \in Tasks : Execute(e, t)
             \/ authorize_sdk_projection(e) \/ record(e) \/ WriteRefused(e) \/ WriteFails(e)
             \/ Completion(e) \/ Ends(e)
      PROVE  Consistent'
  <2>1. UNCHANGED tables
    BY <1>2, Zenon DEF Execute, authorize_sdk_projection, record, WriteRefused, WriteFails, Completion, Ends
  <2>2. QED
    BY <2>1, ElsewhereKeepsConsistent, Zenon
<1>3. QED
  BY <1>1, <1>2, InsertKeepsConsistent, TransitionKeepsConsistent, DeleteKeepsConsistent,
     ReconcileKeepsConsistent, SdkWriteKeepsConsistent, Zenon DEF ProjectionNext

-----------------------------------------------------------------------------
\* The table tasks (store.rs) shows the current row of the ledger, or the
\* outbox holds what it is to show next: for any number of tasks and of late
\* writes of the SDK, failed projections, deletions and restarts.
THEOREM ProjectionsFollow ==
    ASSUME ProjectionBounds
    PROVE  ProjectionSpec => []ProjectionFollowsLedger
<1>1. ProjectionInit => Consistent
  BY InitConsistent, Zenon
<1>2. Consistent /\ [ProjectionNext]_projectionVars => Consistent'
  BY StepKeepsConsistent, Zenon
<1>3. Consistent => ProjectionFollowsLedger
  BY Zenon DEF Consistent
<1>4. QED
  BY <1>1, <1>2, <1>3, PTL DEF ProjectionSpec

\* What the broker finds when it starts again always passes its own check
\* (validate_store in ledger.rs), whatever was interrupted before.
THEOREM StoreStaysValid ==
    ASSUME ProjectionBounds
    PROVE  ProjectionSpec => []validate_store
<1>1. Consistent => validate_store
  <2>1. ASSUME Consistent, NEW t \in Tasks
        PROVE  /\ outbox[t] # None => validate_outbox_entry(t)
               /\ ledger[t] # None => stored[t] = Entry(ledger[t]) \/ outbox[t] # None
    <3>1. FollowsRow(ledger[t], outbox[t], stored[t])
      BY <2>1, TaskByTask, Zenon DEF Consistent
    <3>2. ledger[t] # None => Entry(ledger[t]) # None
      BY <2>1, EntryOfRow, Zenon DEF Consistent, TablesType
    <3>3. QED
      BY <3>1, <3>2, Zenon DEF FollowsRow, validate_outbox_entry
  <2>2. QED
    BY <2>1, Zenon DEF validate_store
<1>2. ProjectionInit => Consistent
  BY InitConsistent, Zenon
<1>3. Consistent /\ [ProjectionNext]_projectionVars => Consistent'
  BY StepKeepsConsistent, Zenon
<1>4. QED
  BY <1>1, <1>2, <1>3, PTL DEF ProjectionSpec

-----------------------------------------------------------------------------
(* The directory: a name is the name of one process.                       *)

Seen == [name : Names, process : Processes]
Paths == STRING \cup {""}

RequestRecord ==
    [op : {"none", "register", "renew", "lookup"},
     pc : {"idle", "verify", "resolve", "admit", "read"},
     process : Processes \cup {<<>>}, role : Labels \cup {""}, path : Paths,
     name : Names \cup {<<>>}, left : SUBSET Seen,
     found : SUBSET [name : Names, role : Labels, process : Processes]]

\* What a request at work on a process knows of it.
Working(r) ==
    /\ r.pc \in {"verify", "resolve", "admit"} => r.process \in Processes
    /\ r.pc = "resolve" => r.role \in Labels

DirectoryType ==
    /\ sight \in [Panes -> Sights]
    /\ DOMAIN identities \subseteq Processes
    /\ identities \in [DOMAIN identities -> [name : Names, slug : Slugs, role : Labels]]
    /\ DOMAIN live \subseteq Names
    /\ live \in [DOMAIN live -> [process : Processes, path : Paths]]
    /\ request \in [Requests -> RequestRecord]
    /\ \A q \in Requests : Working(request[q])
    /\ work \subseteq Seen

Named(n, k) == k \in DOMAIN identities /\ identities[k].name = n

\* A request that admits has the row of its process; one that reads holds
\* registrations and agents that have theirs.
Sound(r) ==
    /\ r.pc = "admit" => Named(r.name, r.process)
    /\ \A g \in r.left : Named(g.name, g.process)
    /\ \A a \in r.found : Named(a.name, a.process)

\* A name is in one row, and whoever goes by it has that row.
NamesBound ==
    /\ \A j, k \in DOMAIN identities : identities[j].name = identities[k].name => j = k
    /\ \A n \in DOMAIN live : Named(n, live[n].process)
    /\ \A w \in work : Named(w.name, w.process)
    /\ \A q \in Requests : Sound(request[q])

DirectoryInv == DirectoryType /\ NamesBound /\ validate_rows

\* An idle request knows nothing.
LEMMA IdleRequest ==
    NoRequest \in RequestRecord /\ Working(NoRequest) /\ Sound(NoRequest)
  BY Zenon DEF NoRequest, RequestRecord, Paths, Working, Sound

\* At first there are no rows, no registrations and no requests.
LEMMA InitDirectory == DirectoryInit => DirectoryInv
  BY IdleRequest, Zenon DEF DirectoryInit, DirectoryInv, DirectoryType, NamesBound, validate_rows

\* A step of one request that leaves the tables alone (Verify, the lookups and
\* every way a handler ends) keeps names bound if what the request holds is.
LEMMA RequestKeepsNames ==
    ASSUME DirectoryInv, NEW q \in Requests, NEW r \in RequestRecord, Working(r), Sound(r),
           request' = [request EXCEPT ![q] = r],
           UNCHANGED <<sight, identities, live, work>>
    PROVE  DirectoryInv'
<1>1. \A p \in Requests : request'[p] = IF p = q THEN r ELSE request[p]
  BY Zenon DEF DirectoryInv, DirectoryType
<1>2. \A p \in Requests : Working(request'[p]) /\ Sound(request'[p])
  BY <1>1, Zenon DEF DirectoryInv, DirectoryType, NamesBound
<1>3. \A p \in Requests : Sound(request[p])'
  BY <1>2, Zenon DEF Sound, Named
<1>4. DirectoryType'
  BY <1>1, <1>2, Zenon DEF DirectoryInv, DirectoryType, Working
<1>5. NamesBound'
  BY <1>3, Zenon DEF DirectoryInv, NamesBound, Named
<1>6. validate_rows'
  BY Zenon DEF DirectoryInv, validate_rows
<1>7. QED
  BY <1>4, <1>5, <1>6, Zenon DEF DirectoryInv

\* Starting a request.
LEMMA BeginKeepsNames ==
    ASSUME DirectoryInv, NEW q \in Requests,
           \/ \E k \in Processes : BeginRegister(q, k)
           \/ \E n \in DOMAIN live : BeginRenew(q, n)
           \/ BeginLookup(q)
    PROVE  DirectoryInv'
<1>1. CASE \E k \in Processes : BeginRegister(q, k)
  <2>1. PICK k \in Processes : BeginRegister(q, k)
    BY <1>1, Zenon
  <2> DEFINE r == [NoRequest EXCEPT !.op = "register", !.pc = "verify", !.process = k]
  <2>2. r \in RequestRecord /\ Working(r) /\ Sound(r)
    BY IdleRequest, Zenon DEF NoRequest, RequestRecord, Working, Sound
  <2>3. QED
    BY <2>1, <2>2, RequestKeepsNames, Zenon DEF BeginRegister, RequestGoes
<1>2. CASE \E n \in DOMAIN live : BeginRenew(q, n)
  <2>1. PICK n \in DOMAIN live : BeginRenew(q, n)
    BY <1>2, Zenon
  <2> DEFINE r == [NoRequest EXCEPT !.op = "renew", !.pc = "verify", !.process = live[n].process,
                                    !.path = live[n].path, !.name = n]
  <2>2. n \in Names /\ live[n].process \in Processes /\ live[n].path \in Paths
    BY Zenon DEF DirectoryInv, DirectoryType
  <2>3. r \in RequestRecord /\ Working(r) /\ Sound(r)
    BY <2>2, IdleRequest, Zenon DEF NoRequest, RequestRecord, Working, Sound
  <2>4. QED
    BY <2>1, <2>3, RequestKeepsNames, Zenon DEF BeginRenew, RequestGoes
<1>3. CASE BeginLookup(q)
  <2> DEFINE r == [NoRequest EXCEPT !.op = "lookup", !.pc = "read", !.left = Registered]
  <2>1. Registered \subseteq Seen /\ \A g \in Registered : Named(g.name, g.process)
    BY DEF Registered, Seen, DirectoryInv, DirectoryType, NamesBound
  <2>2. r \in RequestRecord /\ Working(r) /\ Sound(r)
    BY <2>1, IdleRequest, Zenon DEF NoRequest, RequestRecord, Working, Sound
  <2>3. QED
    BY <1>3, <2>2, RequestKeepsNames, Zenon DEF BeginLookup, RequestGoes
<1>4. QED
  BY <1>1, <1>2, <1>3, Zenon

\* A request that ends without having changed anything.
LEMMA EndKeepsNames ==
    ASSUME DirectoryInv, NEW q \in Requests, RequestEnds(q),
           UNCHANGED <<sight, identities, live, work>>
    PROVE  DirectoryInv'
  BY IdleRequest, RequestKeepsNames, Zenon DEF RequestEnds, RequestGoes

\* Herdr's answer to a request.
LEMMA VerifyKeepsNames ==
    ASSUME DirectoryInv, NEW q \in Requests, Verify(q)
    PROVE  DirectoryInv'
<1> DEFINE s == sight[request[q].process[1]]
           r == [request[q] EXCEPT !.pc = "resolve", !.role = RoleOf(s.label), !.path = s.path]
<1>1. CASE Verified(q, s)
  <2>1. request[q] \in RequestRecord /\ Sound(request[q]) /\ request[q].process \in Processes
    BY Zenon DEF DirectoryInv, DirectoryType, NamesBound, Working, Verify, RequestAt
  <2>2. s \in Sights
    BY <2>1, Zenon DEF DirectoryInv, DirectoryType, Processes
  <2>3. RoleOf(s.label) \in Labels /\ s.path \in Paths
    BY <2>2, DirectoryConstants, Zenon DEF RoleOf, Paths
  <2>4. r \in RequestRecord /\ Working(r) /\ Sound(r)
    BY <2>1, <2>3, Zenon DEF RequestRecord, Working, Sound
  <2>5. QED
    BY <1>1, <2>4, RequestKeepsNames, Zenon DEF Verify, RequestGoes
<1>2. CASE ~Verified(q, s)
  BY <1>2, EndKeepsNames, Zenon DEF Verify
<1>3. QED
  BY <1>1, <1>2, Zenon

\* One identity of a directory that is being read: the row of the
\* registration is the only one of that name.
LEMMA ReadKeepsNames ==
    ASSUME DirectoryInv, NEW q \in Requests, NEW g \in request[q].left, directory_agent(q, g)
    PROVE  DirectoryInv'
<1>1. CASE Row(g) = {}
  BY <1>1, EndKeepsNames, Zenon DEF directory_agent
<1>2. CASE Row(g) # {}
  <2>1. PICK k : k = CHOOSE j \in Row(g) : TRUE
    BY Zenon
  <2>2. k \in DOMAIN identities
    BY <1>2, <2>1, Zenon DEF Row
  <2> DEFINE a == [name |-> g.name, role |-> identities[k].role, process |-> g.process]
             r == [request[q] EXCEPT !.left = @ \ {g}, !.found = @ \cup {a}]
  <2>3. request[q] \in RequestRecord /\ Sound(request[q]) /\ Working(request[q])
    BY Zenon DEF DirectoryInv, DirectoryType, NamesBound
  <2>4. identities[k].role \in Labels /\ g.name \in Names /\ g.process \in Processes
    BY <2>2, <2>3, Zenon DEF DirectoryInv, DirectoryType, RequestRecord, Seen
  <2>5. Named(g.name, g.process)
    BY <2>3, Zenon DEF Sound
  <2>6. PICK left, found : left = request[q].left \ {g} /\ found = request[q].found \cup {a}
    BY Zenon
  <2>7. left \in SUBSET Seen /\ found \in SUBSET [name : Names, role : Labels, process : Processes]
    <3>1. /\ request[q].left \in SUBSET Seen
          /\ request[q].found \in SUBSET [name : Names, role : Labels, process : Processes]
      BY <2>3, Zenon DEF RequestRecord
    <3>2. a \in [name : Names, role : Labels, process : Processes]
      BY <2>4, Zenon
    <3> HIDE DEF a, r
    <3>3. QED
      BY <2>6, <3>1, <3>2, Zenon
  <2>8. /\ \A h \in left : Named(h.name, h.process)
        /\ \A b \in found : Named(b.name, b.process)
    BY <2>3, <2>5, <2>6 DEF Sound
  <2>9. r = [request[q] EXCEPT !.left = left, !.found = found]
    BY <2>6, Zenon
  <2>10. r \in RequestRecord /\ r.left = left /\ r.found = found /\ r.pc = request[q].pc
         /\ r.process = request[q].process /\ r.name = request[q].name /\ r.role = request[q].role
    <3> HIDE DEF r, a
    <3> QED
      BY <2>3, <2>7, <2>9, Zenon DEF RequestRecord
  <2>11. Working(r) /\ Sound(r)
    <3> HIDE DEF r, a
    <3> QED
      BY <2>3, <2>8, <2>10, Zenon DEF Working, Sound
  <2>12. QED
    BY <1>2, <2>1, <2>10, <2>11, RequestKeepsNames, Zenon DEF directory_agent, RequestGoes
<1>3. QED
  BY <1>1, <1>2, Zenon

\* What a handler knows once it has been told a name that its process has.
LEMMA IdentifiedRequest ==
    ASSUME DirectoryInv, NEW q \in Requests, NEW n \in Names, RequestAt(q, "resolve"),
           Identified(q, n)
    PROVE  \E r \in RequestRecord :
             /\ request' = [request EXCEPT ![q] = r]
             /\ \/ Working(r) /\ r.left = request[q].left /\ r.found = request[q].found
                \/ r = NoRequest
             /\ r.pc = "admit" => r.name = n /\ r.process = request[q].process
<1>1. request[q] \in RequestRecord /\ Working(request[q]) /\ request[q].process \in Processes
  BY Zenon DEF DirectoryInv, DirectoryType, Working, RequestAt
<1>2. CASE RequestEnds(q)
  BY <1>2, IdleRequest, Zenon DEF RequestEnds, RequestGoes, NoRequest
<1>3. CASE RequestGoes(q, [request[q] EXCEPT !.pc = "admit", !.role = "", !.name = n])
  <2> DEFINE r == [request[q] EXCEPT !.pc = "admit", !.role = "", !.name = n]
  <2>1. r \in RequestRecord /\ Working(r)
    BY <1>1, Zenon DEF RequestRecord, Working
  <2>2. r.left = request[q].left /\ r.found = request[q].found /\ r.name = n
        /\ r.process = request[q].process
    BY <1>1, Zenon DEF RequestRecord
  <2>3. QED
    BY <1>3, <2>1, <2>2, Zenon DEF RequestGoes
<1>4. QED
  BY <1>2, <1>3, Zenon DEF Identified

\* Rows that are added, and roles that change, leave every name with the
\* process that has it, so whatever relied on a row still can.
LEMMA RowsKeepNames ==
    ASSUME DirectoryInv, NEW q \in Requests, NEW n \in Names, NEW c, c = request[q].process,
           RequestAt(q, "resolve"), Identified(q, n),
           UNCHANGED <<sight, live, work>>,
           Named(n, c)',
           DOMAIN identities \subseteq DOMAIN identities',
           \A k \in DOMAIN identities : identities'[k].name = identities[k].name,
           DOMAIN identities' \subseteq Processes,
           identities' \in [DOMAIN identities' -> [name : Names, slug : Slugs, role : Labels]],
           validate_rows',
           \A j, k \in DOMAIN identities' : identities'[j].name = identities'[k].name => j = k
    PROVE  DirectoryInv'
<1>1. \A m, k : Named(m, k) => Named(m, k)'
  BY Zenon DEF Named
<1>2. PICK r \in RequestRecord :
        /\ request' = [request EXCEPT ![q] = r]
        /\ \/ Working(r) /\ r.left = request[q].left /\ r.found = request[q].found
           \/ r = NoRequest
        /\ r.pc = "admit" => r.name = n /\ r.process = request[q].process
  BY IdentifiedRequest, Zenon
<1>3. \A p \in Requests : request'[p] = IF p = q THEN r ELSE request[p]
  BY <1>2, Zenon DEF DirectoryInv, DirectoryType
<1>4. Working(r)
  BY <1>2, IdleRequest, Zenon
<1>5. DirectoryType'
  BY <1>2, <1>3, <1>4, Zenon DEF DirectoryInv, DirectoryType, Working
<1>6. \A p \in Requests : Sound(request[p])
  BY Zenon DEF DirectoryInv, NamesBound
<1>7. \A p \in Requests : Sound(request[p])'
  <2> SUFFICES ASSUME NEW p \in Requests PROVE Sound(request[p])'
    BY Zenon
  <2>1. CASE p # q
    BY <1>1, <1>3, <1>6, <2>1, Zenon DEF Sound
  <2>2. CASE p = q /\ r = NoRequest
    <3>1. request'[p] = NoRequest
      BY <1>3, <2>2, Zenon
    <3>2. NoRequest.pc # "admit" /\ NoRequest.left = {} /\ NoRequest.found = {}
      BY Zenon DEF NoRequest
    <3>3. QED
      BY <3>1, <3>2, Zenon DEF Sound
  <2>3. CASE p = q /\ r.left = request[q].left /\ r.found = request[q].found
    <3>1. (r.pc = "admit" => Named(r.name, r.process)')
      BY <1>2, Zenon DEF Named
    <3>2. (\A g \in r.left : Named(g.name, g.process)')
          /\ (\A a \in r.found : Named(a.name, a.process)')
      BY <1>1, <1>6, <2>3, Zenon DEF Sound
    <3>3. QED
      BY <1>3, <2>3, <3>1, <3>2, Zenon DEF Sound
  <2>4. QED
    BY <1>2, <2>1, <2>2, <2>3, Zenon
<1>8. NamesBound'
  BY <1>1, <1>7, Zenon DEF DirectoryInv, NamesBound
<1>9. QED
  BY <1>5, <1>8, Zenon DEF DirectoryInv

\* resolve_or_create for a process that has a row: only its role changes.
LEMMA KnownKeepsNames ==
    ASSUME DirectoryInv, NEW q \in Requests, ResolveKnown(q)
    PROVE  DirectoryInv'
<1>1. PICK k : k = request[q].process
  BY Zenon
<1>2. /\ k \in DOMAIN identities /\ RequestAt(q, "resolve")
      /\ identities' = [identities EXCEPT ![k].role = request[q].role]
      /\ Identified(q, identities[k].name)
      /\ UNCHANGED <<sight, live, work>>
  BY <1>1, Zenon DEF ResolveKnown
<1>3. request[q].role \in Labels
  BY <1>2, Zenon DEF DirectoryInv, DirectoryType, Working, RequestAt
<1>4. PICK n : n = identities[k].name
  BY Zenon
<1>5. /\ DOMAIN identities' = DOMAIN identities
      /\ \A j \in DOMAIN identities : /\ identities'[j].name = identities[j].name
                                      /\ identities'[j].slug = identities[j].slug
                                      /\ identities'[j].role \in Labels
                                      /\ identities'[j] \in [name : Names, slug : Slugs, role : Labels]
  BY <1>2, <1>3, Zenon DEF DirectoryInv, DirectoryType
<1>6. identities' \in [DOMAIN identities' -> [name : Names, slug : Slugs, role : Labels]]
  BY <1>2, <1>5, Zenon DEF DirectoryInv, DirectoryType
<1>7. n \in Names /\ Named(n, k)' /\ DOMAIN identities' \subseteq Processes
  BY <1>2, <1>4, <1>5, Zenon DEF Named, DirectoryInv, DirectoryType
<1>8. validate_rows'
  BY <1>5, Zenon DEF DirectoryInv, validate_rows
<1>9. \A i, j \in DOMAIN identities' : identities'[i].name = identities'[j].name => i = j
  BY <1>5, Zenon DEF DirectoryInv, NamesBound
<1>10. QED
  BY <1>1, <1>2, <1>4, <1>5, <1>6, <1>7, <1>8, <1>9, RowsKeepNames, Zenon

\* resolve_or_create for a process that has none: the name that is drawn is
\* in no row.
LEMMA NewKeepsNames ==
    ASSUME DirectoryInv, NEW q \in Requests, ResolveNew(q)
    PROVE  DirectoryInv'
<1>1. PICK k : k = request[q].process
  BY Zenon
<1>2. PICK slug : slug = SlugOf[request[q].role]
  BY Zenon
<1>3. PICK x \in Endings :
        /\ ~Taken(<<slug, x>>)
        /\ identities' = [j \in DOMAIN identities \cup {k} |->
                            IF j = k THEN [name |-> <<slug, x>>, slug |-> slug, role |-> request[q].role]
                            ELSE identities[j]]
        /\ Identified(q, <<slug, x>>)
  BY <1>1, <1>2, Zenon DEF ResolveNew
<1>4. RequestAt(q, "resolve") /\ k \notin DOMAIN identities /\ UNCHANGED <<sight, live, work>>
  BY <1>1, Zenon DEF ResolveNew
<1>5. request[q].role \in Labels /\ k \in Processes
  BY <1>1, <1>4, Zenon DEF DirectoryInv, DirectoryType, Working, RequestAt
<1>6. slug \in Slugs
  BY <1>2, <1>5, Zenon DEF Slugs
<1>7. PICK n : n = <<slug, x>>
  BY Zenon
<1>8. n \in Names /\ n[1] = slug
  BY <1>6, <1>7, Zenon DEF Names
<1>9. PICK row : row = [name |-> n, slug |-> slug, role |-> request[q].role]
  BY Zenon
<1>10. /\ row \in [name : Names, slug : Slugs, role : Labels]
       /\ row.name = n /\ row.slug = slug /\ row.role \in Labels
  BY <1>5, <1>6, <1>8, <1>9, Zenon
<1>11. /\ DOMAIN identities' = DOMAIN identities \cup {k}
       /\ identities'[k] = row
       /\ \A j \in DOMAIN identities : identities'[j] = identities[j]
  BY <1>3, <1>4, <1>7, <1>9, Zenon
<1>12. \A j \in DOMAIN identities : identities[j].name # n
  BY <1>3, <1>7, Zenon DEF Taken
<1>13. identities' \in [DOMAIN identities' -> [name : Names, slug : Slugs, role : Labels]]
  <2>1. \A j \in DOMAIN identities' : identities'[j] \in [name : Names, slug : Slugs, role : Labels]
    BY <1>10, <1>11, Zenon DEF DirectoryInv, DirectoryType
  <2>2. identities' = [j \in DOMAIN identities' |-> identities'[j]]
    BY <1>3, Zenon
  <2>3. QED
    BY <2>1, <2>2, Zenon
<1>14. validate_rows'
  BY <1>8, <1>10, <1>11, <1>6, Zenon DEF DirectoryInv, validate_rows
<1>15. \A i, j \in DOMAIN identities' : identities'[i].name = identities'[j].name => i = j
  BY <1>10, <1>11, <1>12, Zenon DEF DirectoryInv, NamesBound
<1>16. Named(n, k)'
  BY <1>10, <1>11, Zenon DEF Named
<1>17. DOMAIN identities' \subseteq Processes /\ DOMAIN identities \subseteq DOMAIN identities'
  BY <1>5, <1>11, Zenon DEF DirectoryInv, DirectoryType
<1>18. Identified(q, n) /\ \A j \in DOMAIN identities : identities'[j].name = identities[j].name
  BY <1>3, <1>7, <1>11, Zenon
<1>19. QED
  BY <1>1, <1>4, <1>8, <1>13, <1>14, <1>15, <1>16, <1>17, <1>18, RowsKeepNames, Zenon

\* broker.register: the name is that of the process that is registered.
LEMMA AdmitKeepsNames ==
    ASSUME DirectoryInv, NEW q \in Requests, Admit(q)
    PROVE  DirectoryInv'
<1>1. CASE request[q].op = "renew"
  BY <1>1, EndKeepsNames, Zenon DEF Admit
<1>2. CASE request[q].op # "renew"
  <2>1. PICK n, g : n = request[q].name
                    /\ g = [process |-> request[q].process, path |-> request[q].path]
    BY Zenon
  <2>2. /\ live' = [m \in DOMAIN live \cup {n} |-> IF m = n THEN g ELSE live[m]]
        /\ RequestAt(q, "admit") /\ request' = [request EXCEPT ![q] = NoRequest]
        /\ UNCHANGED <<sight, identities, work>>
    BY <1>2, <2>1, Zenon DEF Admit, RequestEnds, RequestGoes
  <2>3. /\ request[q].process \in Processes /\ request[q].path \in Paths
        /\ Named(n, request[q].process)
    BY <2>1, <2>2, Zenon DEF DirectoryInv, DirectoryType, Working, RequestAt, NamesBound, Sound, RequestRecord
  <2>4. n \in Names
    BY <2>3, Zenon DEF Named, DirectoryInv, DirectoryType
  <2>5. g \in [process : Processes, path : Paths] /\ Named(n, g.process)
    BY <2>1, <2>3, Zenon
  <2>6. /\ DOMAIN live' = DOMAIN live \cup {n} /\ live'[n] = g
        /\ \A m \in DOMAIN live : m # n => live'[m] = live[m]
    BY <2>2, Zenon
  <2>7. live' \in [DOMAIN live' -> [process : Processes, path : Paths]]
    <3>1. \A m \in DOMAIN live' : live'[m] \in [process : Processes, path : Paths]
      BY <2>5, <2>6, Zenon DEF DirectoryInv, DirectoryType
    <3>2. live' = [m \in DOMAIN live' |-> live'[m]]
      BY <2>2, Zenon
    <3>3. QED
      BY <3>1, <3>2, Zenon
  <2>8. \A p \in Requests : request'[p] = IF p = q THEN NoRequest ELSE request[p]
    BY <2>2, Zenon DEF DirectoryInv, DirectoryType
  <2>9. DirectoryType'
    BY <2>2, <2>4, <2>6, <2>7, <2>8, IdleRequest, Zenon DEF DirectoryInv, DirectoryType, Working
  <2>10. \A m, k : Named(m, k) <=> Named(m, k)'
    BY <2>2, Zenon DEF Named
  <2>11. \A p \in Requests : Sound(request[p])'
    BY <2>8, <2>10, IdleRequest, Zenon DEF Sound, DirectoryInv, NamesBound
  <2>12. NamesBound'
    BY <2>2, <2>5, <2>6, <2>10, <2>11, Zenon DEF DirectoryInv, NamesBound
  <2>13. QED
    BY <2>2, <2>9, <2>12, Zenon DEF DirectoryInv, validate_rows
<1>3. QED
  BY <1>1, <1>2, Zenon

\* A registration that ends.
LEMMA DeregisterKeepsNames ==
    ASSUME DirectoryInv, NEW n \in DOMAIN live, Deregister(n)
    PROVE  DirectoryInv'
<1>1. /\ DOMAIN live' \subseteq DOMAIN live
      /\ \A m \in DOMAIN live' : live'[m] = live[m]
      /\ live' = [m \in DOMAIN live' |-> live'[m]]
  BY Zenon DEF Deregister
<1>2. live' \in [DOMAIN live' -> [process : Processes, path : Paths]]
  BY <1>1, Zenon DEF DirectoryInv, DirectoryType
<1>3. DirectoryType'
  BY <1>1, <1>2, Zenon DEF DirectoryInv, DirectoryType, Deregister, Working
<1>4. NamesBound'
  BY <1>1 DEF DirectoryInv, NamesBound, Deregister, Named, Sound
<1>5. QED
  BY <1>3, <1>4, Zenon DEF DirectoryInv, validate_rows, Deregister

\* The recipient of new work is an agent that the directory showed.
LEMMA ResolveKeepsNames ==
    ASSUME DirectoryInv, NEW q \in Requests, NEW target, resolve_agent(q, target)
    PROVE  DirectoryInv'
<1>1. PICK found : found = request[q].found
  BY Zenon
<1>2. /\ found \subseteq [name : Names, role : Labels, process : Processes]
      /\ \A a \in found : Named(a.name, a.process)
  BY <1>1, Zenon DEF DirectoryInv, DirectoryType, NamesBound, Sound, RequestRecord
<1>3. Candidates(found, target) \subseteq found
  BY Zenon DEF Candidates
<1>4. \A w \in work' : w \in work \/ \E a \in found : w = [name |-> a.name, process |-> a.process]
  BY <1>1, <1>3, Zenon DEF resolve_agent
<1>5. \A w \in work' : w \in Seen /\ Named(w.name, w.process)
  BY <1>2, <1>4 DEF Seen, DirectoryInv, DirectoryType, NamesBound
<1>6. /\ request' = [request EXCEPT ![q] = NoRequest]
      /\ UNCHANGED <<sight, identities, live>>
  BY Zenon DEF resolve_agent, RequestEnds, RequestGoes
<1>7. \A p \in Requests : request'[p] = IF p = q THEN NoRequest ELSE request[p]
  BY <1>6, Zenon DEF DirectoryInv, DirectoryType
<1>8. DirectoryType'
  BY <1>5, <1>6, <1>7, IdleRequest, Zenon DEF DirectoryInv, DirectoryType, Working
<1>9. \A m, k : Named(m, k) <=> Named(m, k)'
  BY <1>6, Zenon DEF Named
<1>10. \A p \in Requests : Sound(request[p])'
  BY <1>7, <1>9, IdleRequest, Zenon DEF Sound, DirectoryInv, NamesBound
<1>11. NamesBound'
  BY <1>5, <1>6, <1>9, <1>10, Zenon DEF DirectoryInv, NamesBound
<1>12. QED
  BY <1>6, <1>8, <1>11, Zenon DEF DirectoryInv, validate_rows

\* A restart loses the registrations and the requests, not the rows.
LEMMA RestartKeepsNames ==
    ASSUME DirectoryInv, BrokerRestarts
    PROVE  DirectoryInv'
<1>1. DOMAIN live' = {} /\ live' \in [DOMAIN live' -> [process : Processes, path : Paths]]
  BY Zenon DEF BrokerRestarts
<1>2. \A p \in Requests : request'[p] = NoRequest
  BY Zenon DEF BrokerRestarts
<1>3. request' \in [Requests -> RequestRecord]
  BY IdleRequest, Zenon DEF BrokerRestarts
<1>4. DirectoryType'
  BY <1>1, <1>2, <1>3, IdleRequest, Zenon DEF DirectoryInv, DirectoryType, BrokerRestarts, Working
<1>5. \A m, k : Named(m, k) <=> Named(m, k)'
  BY Zenon DEF Named, BrokerRestarts
<1>6. \A p \in Requests : Sound(request[p])'
  BY <1>2, <1>5, IdleRequest, Zenon DEF Sound
<1>7. NamesBound'
  BY <1>1, <1>5, <1>6, Zenon DEF DirectoryInv, NamesBound, BrokerRestarts
<1>8. QED
  BY <1>4, <1>7, Zenon DEF DirectoryInv, validate_rows, BrokerRestarts

\* A step of Herdr, or of nobody.
LEMMA OthersKeepNames ==
    ASSUME DirectoryInv, UNCHANGED <<identities, live, request, work>>,
           sight' \in [Panes -> Sights]
    PROVE  DirectoryInv'
  BY Zenon DEF DirectoryInv, DirectoryType, NamesBound, validate_rows, Named, Sound, Working

LEMMA StepKeepsNames == DirectoryInv /\ [DirectoryNext]_directoryVars => DirectoryInv'
<1> SUFFICES ASSUME DirectoryInv, [DirectoryNext]_directoryVars PROVE DirectoryInv'
  BY Zenon
<1>1. ASSUME NEW q \in Requests, \/ \E k \in Processes : BeginRegister(q, k)
                                 \/ \E n \in DOMAIN live : BeginRenew(q, n)
                                 \/ BeginLookup(q)
      PROVE  DirectoryInv'
  BY <1>1, BeginKeepsNames, Zenon
<1>2. ASSUME NEW q \in Requests, Verify(q) PROVE DirectoryInv'
  BY <1>2, VerifyKeepsNames, Zenon
<1>3. ASSUME NEW q \in Requests, ResolveKnown(q) PROVE DirectoryInv'
  BY <1>3, KnownKeepsNames, Zenon
<1>4. ASSUME NEW q \in Requests, ResolveNew(q) PROVE DirectoryInv'
  BY <1>4, NewKeepsNames, Zenon
<1>5. ASSUME NEW q \in Requests, AllocationExhausted(q) \/ RequestFails(q) PROVE DirectoryInv'
  BY <1>5, EndKeepsNames, Zenon DEF AllocationExhausted, RequestFails
<1>6. ASSUME NEW q \in Requests, Admit(q) PROVE DirectoryInv'
  BY <1>6, AdmitKeepsNames, Zenon
<1>7. ASSUME NEW q \in Requests, NEW g \in request[q].left, directory_agent(q, g)
      PROVE  DirectoryInv'
  BY <1>7, ReadKeepsNames, Zenon
<1>8. ASSUME NEW q \in Requests, NEW target \in Targets, resolve_agent(q, target)
      PROVE  DirectoryInv'
  BY <1>8, ResolveKeepsNames, Zenon
<1>9. ASSUME NEW n \in DOMAIN live, Deregister(n) PROVE DirectoryInv'
  BY <1>9, DeregisterKeepsNames, Zenon
<1>10. ASSUME NEW p \in Panes, NEW s \in Sights, HerdrMoves(p, s) PROVE DirectoryInv'
  <2>1. sight' \in [Panes -> Sights]
    BY <1>10, Zenon DEF HerdrMoves, DirectoryInv, DirectoryType
  <2>2. QED
    BY <1>10, <2>1, OthersKeepNames, Zenon DEF HerdrMoves
<1>11. ASSUME BrokerRestarts PROVE DirectoryInv'
  BY <1>11, RestartKeepsNames, Zenon
<1>12. ASSUME UNCHANGED directoryVars PROVE DirectoryInv'
  <2>1. sight' \in [Panes -> Sights]
    BY <1>12, Zenon DEF directoryVars, DirectoryInv, DirectoryType
  <2>2. QED
    BY <1>12, <2>1, OthersKeepNames, Zenon DEF directoryVars
<1>13. QED
  BY <1>1, <1>2, <1>3, <1>4, <1>5, <1>6, <1>7, <1>8, <1>9, <1>10, <1>11, <1>12, Zenon
     DEF DirectoryNext

LEMMA DirectoryInvHolds == DirectorySpec => []DirectoryInv
<1>1. DirectoryInit => DirectoryInv
  BY InitDirectory, Zenon
<1>2. DirectoryInv /\ [DirectoryNext]_directoryVars => DirectoryInv'
  BY StepKeepsNames, Zenon
<1>3. QED
  BY <1>1, <1>2, PTL DEF DirectorySpec

\* A canonical name means one process for good: work that was resolved to a
\* name never meets another agent under it, and every registration that a
\* reading of the directory shows has its row.
THEOREM NamesMeanOneAgent == DirectorySpec => []NameMeansOneAgent
<1>1. DirectoryInv => NameMeansOneAgent
  <2> SUFFICES ASSUME DirectoryInv PROVE NameMeansOneAgent
    BY Zenon
  <2>1. ASSUME NEW w \in work, w.name \in DOMAIN live PROVE live[w.name].process = w.process
    BY <2>1 DEF DirectoryInv, NamesBound, Named
  <2>2. \A g : Named(g.name, g.process) => Row(g) # {}
    BY Zenon DEF Named, Row
  <2>3. \A g \in Registered : Row(g) # {}
    BY <2>2, Zenon DEF Registered, DirectoryInv, NamesBound
  <2>4. \A q \in Requests : \A g \in request[q].left : Row(g) # {}
    BY <2>2, Zenon DEF DirectoryInv, NamesBound, Sound
  <2>5. QED
    BY <2>1, <2>3, <2>4, Zenon DEF NameMeansOneAgent
<1>2. QED
  BY <1>1, DirectoryInvHolds, PTL

\* Whatever was registered, and in whatever state the process stops, the
\* table passes validate_rows: the store opens again.
THEOREM IdentitiesReopen == DirectorySpec => []validate_rows
<1>1. DirectoryInv => validate_rows
  BY Zenon DEF DirectoryInv
<1>2. QED
  BY <1>1, DirectoryInvHolds, PTL
=============================================================================
