----------------------------- MODULE Projections -----------------------------
(***************************************************************************)
(* The A2A view of the tasks: the table "tasks" (herdr-a2a-broker          *)
(* store.rs), fed from the ledger through projection_outbox (ledger.rs)    *)
(* and written as well by the A2A SDK, which stores every task event an    *)
(* execution emits (a2a.rs) some time after it was read.  The registry of  *)
(* SDK projection admissions decides which late writes are harmless.       *)
(*                                                                         *)
(* A ledger row is its incarnation, state, version and the time of its     *)
(* last transition; View is what the projection shows of it.  A lease that *)
(* is released shows the first view again, and two transitions in one      *)
(* millisecond may show the same.                                          *)
(*                                                                         *)
(* PerTask and Total stand for the limits of the registry.  MaxVersion,    *)
(* MaxIncarnation, MaxRuns and MaxFaults bound the transitions of a row,   *)
(* the lives of a task id, the executions and the failures.                *)
(***************************************************************************)
EXTENDS Integers, FiniteSets, Sequences, SequencesExt, FiniteSetsExt

CONSTANTS Tasks, Executions, PerTask, Total, MaxVersion, MaxIncarnation, MaxRuns, MaxFaults, None

Rows ==
    [life : Nat, state : {"queued", "leased", "acknowledged", "ended"}, version : Nat, time : Nat]

Entries ==
    [version : Nat, view : [life : Nat, face : {"submitted", "working", "terminal"}, time : Nat]]

ProjectionBounds ==
    /\ None \notin Tasks /\ None \notin Rows /\ None \notin Entries
    /\ {PerTask, Total, MaxVersion, MaxIncarnation, MaxRuns} \subseteq Nat \ {0}
    /\ MaxFaults \in Nat

VARIABLES
    ledger,      \* task -> delivery_tasks row, or None
    outbox,      \* task -> [version, view] waiting to be projected, or None
    stored,      \* task -> [version, view] of the table tasks, or None
    spent,       \* task -> incarnations so far
    registry,    \* the admissions, in the order of their queues
    sequence,    \* next_sequence
    run,         \* execution -> what it is at
    runs, faults

tables == <<ledger, outbox, stored, spent>>
admissions == <<registry, sequence>>
projectionVars == <<tables, admissions, run, runs, faults>>

Idle == [pc |-> "idle"]
Fault == faults < MaxFaults /\ faults' = faults + 1

(* projection_json *)
Face(state) ==
    CASE state = "queued" -> "submitted"
      [] state = "ended" -> "terminal"
      [] OTHER -> "working"

View(row) ==
    [life |-> row.life, face |-> Face(row.state), time |-> IF row.state = "queued" THEN 0 ELSE row.time]

ProjectionInit ==
    /\ ledger = [t \in Tasks |-> None] /\ outbox = [t \in Tasks |-> None]
    /\ stored = [t \in Tasks |-> None] /\ spent = [t \in Tasks |-> 0]
    /\ registry = <<>> /\ sequence = 0
    /\ run = [e \in Executions |-> Idle]
    /\ runs = 0 /\ faults = 0

-----------------------------------------------------------------------------
(* The scheduler's commits.  The row and its outbox entry are written in   *)
(* one transaction; a second one projects everything that is pending.      *)

Entry(row) == [version |-> row.version, view |-> View(row)]

Projected(s, o) == [t \in Tasks |-> IF o[t] = None THEN s[t] ELSE o[t]]

Project(s, o) ==
    \/ /\ stored' = Projected(s, o)
       /\ outbox' = [t \in Tasks |-> None]
       /\ UNCHANGED faults
    \/ Fault /\ stored' = s /\ outbox' = o

Commit(t, row) ==
    /\ ledger' = [ledger EXCEPT ![t] = row]
    /\ Project(stored, [outbox EXCEPT ![t] = Entry(row)])
    /\ UNCHANGED <<admissions, run, runs>>

Insert(t) ==
    /\ ledger[t] = None /\ spent[t] < MaxIncarnation
    /\ spent' = [spent EXCEPT ![t] = @ + 1]
    /\ Commit(t, [life |-> spent[t] + 1, state |-> "queued", version |-> 1, time |-> 0])

Successors(state) ==
    CASE state = "queued" -> {"leased", "ended"}
      [] state = "leased" -> {"queued", "acknowledged", "ended"}
      [] state = "acknowledged" -> {"ended"}
      [] OTHER -> {}

Transition(t) ==
    /\ ledger[t] # None /\ ledger[t].version < MaxVersion
    /\ \E s \in Successors(ledger[t].state), later \in {0, 1} :
        Commit(t, [ledger[t] EXCEPT !.state = s, !.version = @ + 1, !.time = @ + later])
    /\ UNCHANGED spent

(* Retention deletes the row with its view and retires its admissions.     *)
Delete(t) ==
    /\ ledger[t] # None /\ ledger[t].state = "ended"
    /\ ledger' = [ledger EXCEPT ![t] = None]
    /\ Project([stored EXCEPT ![t] = None], [outbox EXCEPT ![t] = None])
    /\ registry' = SelectSeq(registry, LAMBDA a : a.task # t)
    /\ UNCHANGED <<spent, sequence, run, runs>>

(* validate_store, before a start and at every load: an outbox entry is    *)
(* the view of its row, and a projection that is not is to be repaired.    *)
validate_outbox_entry(t) ==
    ledger[t] # None /\ outbox[t] = Entry(ledger[t])

validate_store ==
    \A t \in Tasks :
        /\ outbox[t] # None => validate_outbox_entry(t)
        /\ ledger[t] # None => stored[t] = Entry(ledger[t]) \/ outbox[t] # None

(* Reconciliation, and every later commit, projects what is still pending. *)
Reconcile ==
    /\ \E t \in Tasks : outbox[t] # None
    /\ stored' = Projected(stored, outbox)
    /\ outbox' = [t \in Tasks |-> None]
    /\ UNCHANGED <<ledger, spent, admissions, run, runs, faults>>

-----------------------------------------------------------------------------
(* SdkProjectionAdmissionRegistry.                                         *)

Oldest(as) == CHOOSE a \in as : \A b \in as : a.sequence <= b.sequence

Without(reg, as) == IF as = {} THEN reg ELSE SelectSeq(reg, LAMBDA a : a # Oldest(as))

OfTask(reg, t) == {a \in ToSet(reg) : a.task = t}

Evict(reg, t) ==
    LET inTask == IF Cardinality(OfTask(reg, t)) = PerTask THEN Without(reg, OfTask(reg, t)) ELSE reg
    IN  IF Len(inTask) = Total THEN Without(inTask, ToSet(inTask)) ELSE inTask

Admits(a, t, view, row, superseded) ==
    /\ a.task = t /\ a.view = view /\ a.life = row.life
    /\ IF superseded THEN a.version < row.version ELSE a.version <= row.version

Matching(t, view, row, superseded) ==
    {i \in 1..Len(registry) : Admits(registry[i], t, view, row, superseded)}

-----------------------------------------------------------------------------
(* An execution: read the projection, have it admitted, emit it; wait for  *)
(* the end of the task, and once more.                                     *)

Goes(e, rec) == run' = [run EXCEPT ![e] = rec]
At(e, pc) == run[e].pc = pc

Execute(e, t) ==
    /\ At(e, "idle") /\ runs < MaxRuns
    /\ runs' = runs + 1
    /\ stored[t] # None
    /\ Goes(e, [pc |-> "authorize", task |-> t, view |-> stored[t].view])
    /\ UNCHANGED <<tables, admissions, faults>>

Clean(t) ==
    /\ ledger[t] # None /\ outbox[t] = None
    /\ stored[t] = Entry(ledger[t])

authorize_sdk_projection(e) ==
    /\ At(e, "authorize")
    /\ LET t == run[e].task
       IN  IF Clean(t) /\ View(ledger[t]) = run[e].view
           THEN Goes(e, [pc |-> "record", task |-> t, view |-> run[e].view,
                         version |-> ledger[t].version, life |-> ledger[t].life])
           ELSE Goes(e, Idle)              \* the execution fails
    /\ UNCHANGED <<tables, admissions, runs, faults>>

record(e) ==
    /\ At(e, "record")
    /\ LET kept == Evict(registry, run[e].task)
       IN  /\ registry' = Append(kept, [task |-> run[e].task, view |-> run[e].view,
                                        version |-> run[e].version, life |-> run[e].life,
                                        sequence |-> sequence])
    /\ sequence' = sequence + 1
    /\ Goes(e, [run[e] EXCEPT !.pc = "write"])
    /\ UNCHANGED <<tables, runs, faults>>

(* apply_authorized_projection: the pending view, or the very view that is *)
(* stored, is the SDK's to write.                                          *)
Authorized(t, view) ==
    IF outbox[t] # None THEN outbox[t].view = view
                        ELSE stored[t] # None /\ stored[t].view = view

Applies_Mutant(t, view) ==                 \* the SDK writes what it has
    /\ stored' = [stored EXCEPT ![t] = [version |-> ledger[t].version, view |-> view]]
    /\ outbox' = [outbox EXCEPT ![t] = None]

Applies(t, view) ==
    IF outbox[t] # None /\ outbox[t].view = view
    THEN /\ stored' = [stored EXCEPT ![t] = outbox[t]]
         /\ outbox' = [outbox EXCEPT ![t] = None]
    ELSE UNCHANGED <<stored, outbox>>

Refused(t, view) ==
    /\ ~Authorized(t, view)
    /\ Clean(t) => Matching(t, view, ledger[t], TRUE) = {}

Outcome(e, result) ==
    Goes(e, [pc |-> result, task |-> run[e].task, view |-> run[e].view,
             version |-> run[e].version, life |-> run[e].life])

(* apply_sdk_projection: the write is applied, or the task has moved on    *)
(* and the admission makes it a success without effect.                    *)
apply_sdk_projection(e) ==
    /\ At(e, "write")
    /\ LET t == run[e].task
           superseded == ~Authorized(t, run[e].view)
           found == Matching(t, run[e].view, ledger[t], superseded)
       IN  /\ ~Refused(t, run[e].view)
           /\ Applies(t, run[e].view)
           /\ registry' = IF found = {} THEN registry ELSE RemoveAt(registry, Min(found))
    /\ Outcome(e, "accepted")
    /\ UNCHANGED <<ledger, spent, sequence, runs, faults>>

WriteRefused(e) ==
    /\ At(e, "write") /\ Refused(run[e].task, run[e].view)
    /\ Outcome(e, "refused")
    /\ UNCHANGED <<tables, admissions, runs, faults>>

(* The commit fails: the admission that was taken goes to the end of its   *)
(* queue with its old sequence.                                            *)
WriteFails(e) ==
    /\ At(e, "write") /\ Fault
    /\ LET t == run[e].task
           superseded == ~Authorized(t, run[e].view)
           found == Matching(t, run[e].view, ledger[t], superseded)
           rest == IF found = {} THEN registry ELSE RemoveAt(registry, Min(found))
           kept == Evict(rest, t)
       IN  /\ ~Refused(t, run[e].view)
           /\ registry' = IF found = {} THEN registry ELSE Append(kept, registry[Min(found)])
    /\ Goes(e, Idle)
    /\ UNCHANGED <<tables, sequence, runs>>

(* After the working event the execution waits for the reply and emits the *)
(* task again.                                                             *)
Completion(e) ==
    /\ At(e, "accepted") /\ run[e].view.face # "terminal"
    /\ LET t == run[e].task
       IN  /\ ledger[t] # None /\ ledger[t].state = "ended" /\ stored[t] # None
           /\ Goes(e, [pc |-> "authorize", task |-> t, view |-> stored[t].view])
    /\ UNCHANGED <<tables, admissions, runs, faults>>

(* The stream of the execution is over, or dropped where it stands.        *)
Ends(e) ==
    /\ ~At(e, "idle")
    /\ Goes(e, Idle)
    /\ UNCHANGED <<tables, admissions, runs, faults>>

(* A restart: the registry is empty, the store is valid or the broker stays *)
(* down, the outbox is projected.                                          *)
Restart ==
    /\ Fault /\ validate_store
    /\ stored' = Projected(stored, outbox) /\ outbox' = [t \in Tasks |-> None]
    /\ registry' = <<>> /\ sequence' = 0
    /\ run' = [e \in Executions |-> Idle]
    /\ UNCHANGED <<ledger, spent, runs>>

ProjectionNext ==
    \/ \E t \in Tasks : Insert(t) \/ Transition(t) \/ Delete(t)
    \/ Reconcile \/ Restart
    \/ \E e \in Executions :
        \/ \E t \in Tasks : Execute(e, t)
        \/ authorize_sdk_projection(e) \/ record(e)
        \/ apply_sdk_projection(e) \/ WriteRefused(e) \/ WriteFails(e)
        \/ Completion(e) \/ Ends(e)

ProjectionSpec == ProjectionInit /\ [][ProjectionNext]_projectionVars

-----------------------------------------------------------------------------

(* What the A2A side reads is the ledger's truth: the projection is the    *)
(* view of the current row, or the outbox holds that view and the          *)
(* projection is an older one.  No write of the SDK, however late, changes *)
(* this.                                                                   *)
ProjectionFollowsLedger ==
    \A t \in Tasks :
        IF ledger[t] = None THEN stored[t] = None /\ outbox[t] = None
        ELSE \/ outbox[t] = None /\ stored[t] = Entry(ledger[t])
             \/ outbox[t] = Entry(ledger[t]) /\ (stored[t] = None \/ stored[t].version < ledger[t].version)

=============================================================================
