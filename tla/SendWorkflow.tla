----------------------------- MODULE SendWorkflow -----------------------------
(***************************************************************************)
(* The A2A front end of the broker (herdr-a2a-broker a2a.rs) for one task  *)
(* id: message/send and message/stream, each a spawned workflow behind the *)
(* send gate of the task id, start_or_resume (herdr-a2a-core broker.rs),   *)
(* the admission tokens an execution must present, and subscriptions.      *)
(*                                                                         *)
(* A gate is a number; the map of gates holds it weakly, every workflow    *)
(* that has fetched it holds it strongly until it returns.  The SDK is     *)
(* external: it runs an execution it was given, lets others subscribe      *)
(* while that runs, and goes on with it whether or not its stream is read. *)
(*                                                                         *)
(* A request that gives no context id takes the one of the task, or a      *)
(* fresh one: here the sender's workflow itself.  Other are the sends with *)
(* another recipient or payload.  MaxLives bounds how often the task id is *)
(* used, MaxFailures lost registrations and failing reads and writes.      *)
(***************************************************************************)
EXTENDS Integers, FiniteSets

CONSTANTS Sends, Subscribers, Streaming, Immediate, Other, MaxLives, MaxFailures, Absent

WorkflowConstants ==
    /\ Streaming \subseteq Sends /\ Immediate \subseteq Sends \ Streaming /\ Other \subseteq Sends
    /\ Absent \notin Sends
    /\ MaxLives \in Nat \ {0} /\ MaxFailures \in Nat

VARIABLES
    task,       \* None, or [life, context, other, ended]
    lives,      \* lives of the task id so far
    gates,      \* the entry of send_gates: 0 or a gate
    made,       \* gates created so far
    send,       \* send -> its workflow
    pending,    \* the admissions not yet consumed
    exec,       \* send -> the execution it has started
    stream,     \* the streaming sends whose stream is open
    sub,        \* subscriber -> where it is
    failures

gating == <<gates, made>>
running == <<pending, exec, stream>>
sendVars == <<task, lives, gating, send, running, sub, failures>>

Failure == failures < MaxFailures /\ failures' = failures + 1

SendInit ==
    /\ task = Absent /\ lives = 0
    /\ gates = 0 /\ made = 0
    /\ send = [s \in Sends |-> [pc |-> "idle", gate |-> 0, context |-> Absent, life |-> 0, result |-> "none"]]
    /\ pending = {} /\ exec = [s \in Sends |-> "none"] /\ stream = {}
    /\ sub = [u \in Subscribers |-> "idle"]
    /\ failures = 0

SendAt(s, pc) == send[s].pc = pc
SendGoes(s, pc) == send' = [send EXCEPT ![s].pc = pc]

(* The result is known: the guard is dropped and the gate still held.      *)
Finishes(s, pc, result) == send' = [send EXCEPT ![s].pc = pc, ![s].result = result]

-----------------------------------------------------------------------------
(* The gate.                                                               *)

Holders(g) == {s \in Sends : send[s].gate = g}

(* The weak reference can be upgraded.                                     *)
Alive(g) == g # 0 /\ Holders(g) # {}

Guarded == {"context", "decide", "enqueue", "snapshot", "read", "subscribe", "follow", "admit", "run"}

send_gate(s) ==
    /\ SendAt(s, "idle")
    /\ IF Alive(gates)
       THEN /\ send' = [send EXCEPT ![s].pc = "lock", ![s].gate = gates]
            /\ UNCHANGED gating
       ELSE /\ made' = made + 1 /\ gates' = made + 1
            /\ send' = [send EXCEPT ![s].pc = "lock", ![s].gate = made + 1]
    /\ UNCHANGED <<task, lives, running, sub, failures>>

Locks(s) ==
    /\ SendAt(s, "lock")
    /\ \A r \in Holders(send[s].gate) : send[r].pc \notin Guarded
    /\ SendGoes(s, "context")
    /\ UNCHANGED <<task, lives, gating, running, sub, failures>>

(* Removed when it is the current gate and nobody else holds it.           *)
Removable_Mutant(s) == gates = send[s].gate       \* waiters are forgotten

Removable(s) == gates = send[s].gate /\ Holders(send[s].gate) = {s}

release_send_gate(s) ==
    /\ SendAt(s, "release")
    /\ gates' = IF Removable(s) THEN 0 ELSE gates
    /\ SendGoes(s, "leave")
    /\ UNCHANGED <<task, lives, made, running, sub, failures>>

(* The workflow returns: the gate is dropped and the answer handed over.   *)
Returns(s) ==
    /\ SendAt(s, "leave")
    /\ send' = [send EXCEPT ![s].pc = "done", ![s].gate = 0]
    /\ UNCHANGED <<task, lives, gating, running, sub, failures>>

-----------------------------------------------------------------------------
(* prepare_send and start_or_resume.                                       *)

Rejected(s) ==                             \* authentication, validation or the ledger says no
    /\ \E pc \in {"context", "decide", "enqueue", "snapshot"} : SendAt(s, pc)
    /\ Failure
    /\ Finishes(s, "release", "error")
    /\ UNCHANGED <<task, lives, gating, running, sub>>

ContextOf(s) == IF task # Absent THEN task.context ELSE s

prepare_send(s) ==
    /\ SendAt(s, "context")
    /\ send' = [send EXCEPT ![s].pc = "decide", ![s].context = ContextOf(s)]
    /\ UNCHANGED <<task, lives, gating, running, sub, failures>>

SameRequest(s) == task.other = (s \in Other) /\ task.context = send[s].context

Resumed(s) ==
    IF task.ended \/ s \in Immediate THEN "read" ELSE "subscribe"

start_or_resume(s) ==
    /\ SendAt(s, "decide")
    /\ IF task = Absent THEN SendGoes(s, "enqueue")
       ELSE IF ~SameRequest(s) THEN Finishes(s, "release", "conflict")
       ELSE send' = [send EXCEPT ![s].pc = Resumed(s), ![s].life = task.life]
    /\ UNCHANGED <<task, lives, gating, running, sub, failures>>

(* Only gated workflows enqueue, so that the task is still absent and the  *)
(* second round of start_or_resume is not needed.                          *)
enqueue(s) ==
    /\ SendAt(s, "enqueue") /\ task = Absent /\ lives < MaxLives
    /\ lives' = lives + 1
    /\ task' = [life |-> lives + 1, context |-> send[s].context, other |-> s \in Other, ended |-> FALSE]
    /\ send' = [send EXCEPT ![s].pc = "snapshot", ![s].life = lives + 1]
    /\ UNCHANGED <<gating, running, sub, failures>>

Started(s) ==
    /\ SendAt(s, "snapshot")
    /\ IF task = Absent THEN Finishes(s, "release", "error") ELSE SendGoes(s, "admit")
    /\ UNCHANGED <<task, lives, gating, running, sub, failures>>

(* A terminal task, or an active one whose sender does not wait, is        *)
(* answered from the store; a read that fails returns at once.             *)
ReadStored(s) ==
    /\ SendAt(s, "read")
    /\ IF task = Absent
       THEN Finishes(s, IF s \in Streaming THEN "leave" ELSE "release", "error")
       ELSE Finishes(s, "release", "task")
    /\ UNCHANGED <<task, lives, gating, running, sub, failures>>

ReadFails(s) ==
    /\ SendAt(s, "read") /\ Failure
    /\ Finishes(s, "leave", "error")
    /\ UNCHANGED <<task, lives, gating, running, sub>>

Subscribable == \E r \in Sends : exec[r] = "running"

(* An active task: join the execution that runs, or run it once more.      *)
SubscribeActive(s) ==
    /\ SendAt(s, "subscribe")
    /\ IF ~Subscribable THEN SendGoes(s, "admit")
       ELSE IF s \in Streaming THEN Finishes(s, "release", "stream")
       ELSE SendGoes(s, "follow")
    /\ UNCHANGED <<task, lives, gating, running, sub, failures>>

(* The joined stream ends with the task, with nothing, or with an error.   *)
Follows(s) ==
    /\ SendAt(s, "follow") /\ ~Subscribable
    /\ \/ Finishes(s, "release", "task")
       \/ SendGoes(s, "admit")
       \/ Finishes(s, "leave", "error")
    /\ UNCHANGED <<task, lives, gating, running, sub, failures>>

-----------------------------------------------------------------------------
(* Admissions and executions.                                              *)

admit_execution(s) ==
    /\ SendAt(s, "admit")
    /\ pending' = pending \cup {s}
    /\ exec' = [exec EXCEPT ![s] = "ready"]
    /\ IF s \in Streaming
       THEN stream' = stream \cup {s} /\ Finishes(s, "release", "stream")
       ELSE UNCHANGED stream /\ SendGoes(s, "run")
    /\ UNCHANGED <<task, lives, gating, sub, failures>>

(* begin_execution consumes the admission and looks at the task again.     *)
begin_execution(s) ==
    /\ exec[s] = "ready"
    /\ pending' = pending \ {s}
    /\ exec' = [exec EXCEPT ![s] =
                   IF s \in pending /\ task # Absent /\ task.life = send[s].life THEN "running" ELSE "failed"]
    /\ UNCHANGED <<task, lives, gating, send, stream, sub, failures>>

ExecutionFails(s) ==                       \* its projection has moved, a read fails
    /\ exec[s] \in {"ready", "running"} /\ Failure
    /\ pending' = pending \ {s}
    /\ exec' = [exec EXCEPT ![s] = "failed"]
    /\ UNCHANGED <<task, lives, gating, send, stream, sub>>

ExecutionEnds(s) ==
    /\ exec[s] = "running"
    /\ task # Absent => (task.ended \/ task.life # send[s].life)
    /\ exec' = [exec EXCEPT ![s] = IF task = Absent THEN "failed" ELSE "over"]
    /\ UNCHANGED <<task, lives, gating, send, pending, stream, sub, failures>>

Answered_Mutant(s) ==                      \* an error event is not an answer
    IF s \in Immediate THEN exec[s] \in {"running", "over"} ELSE exec[s] = "over"

Answered(s) ==
    IF s \in Immediate THEN exec[s] \in {"running", "over", "failed"} ELSE exec[s] \in {"over", "failed"}

Dropped(s) == pending \ {s}

run_admitted_unary(s) ==
    /\ SendAt(s, "run") /\ Answered(s)
    /\ pending' = Dropped(s)
    /\ Finishes(s, "release", IF exec[s] = "failed" THEN "error" ELSE "task")
    /\ UNCHANGED <<task, lives, gating, exec, stream, sub, failures>>

(* The stream has ended, or the caller drops it at any time; the execution *)
(* that has begun goes on.                                                 *)
DropStream(s) ==
    /\ s \in stream /\ SendAt(s, "done")
    /\ stream' = stream \ {s}
    /\ pending' = Dropped(s)
    /\ UNCHANGED <<task, lives, gating, send, exec, sub, failures>>

-----------------------------------------------------------------------------
(* subscribe_to_task.                                                      *)

SubGoes(u, pc) == sub' = [sub EXCEPT ![u] = pc]

require_owner_and_recipient(u) ==
    /\ sub[u] = "idle"
    /\ SubGoes(u, IF task = Absent THEN "error" ELSE "inner")
    /\ UNCHANGED <<task, lives, gating, send, running, failures>>

subscribe_to_task(u) ==
    /\ sub[u] = "inner"
    /\ SubGoes(u, IF Subscribable THEN "follow" ELSE "read")
    /\ UNCHANGED <<task, lives, gating, send, running, failures>>

SubFollows(u) ==
    /\ sub[u] = "follow" /\ ~Subscribable
    /\ \E end \in {"terminal", "error"} : SubGoes(u, end)
    /\ UNCHANGED <<task, lives, gating, send, running, failures>>

SubReads(u) ==
    /\ sub[u] = "read"
    /\ SubGoes(u, IF task = Absent THEN "error" ELSE IF task.ended THEN "terminal" ELSE "wait")
    /\ UNCHANGED <<task, lives, gating, send, running, failures>>

Completed(u) == task # Absent => task.ended

SubWaits(u) ==
    /\ sub[u] = "wait" /\ Completed(u)
    /\ SubGoes(u, IF task = Absent THEN "error" ELSE "terminal")
    /\ UNCHANGED <<task, lives, gating, send, running, failures>>

-----------------------------------------------------------------------------
(* The scheduler: the task ends, and is deleted some time after.           *)

TaskEnds ==
    /\ task # Absent /\ ~task.ended
    /\ task' = [task EXCEPT !.ended = TRUE]
    /\ UNCHANGED <<lives, gating, send, running, sub, failures>>

TaskDeleted ==
    /\ task # Absent /\ task.ended /\ lives < MaxLives
    /\ task' = Absent
    /\ UNCHANGED <<lives, gating, send, running, sub, failures>>

Workflow(s) ==
    \/ Locks(s) \/ release_send_gate(s) \/ Returns(s)
    \/ prepare_send(s) \/ start_or_resume(s) \/ enqueue(s) \/ Started(s)
    \/ ReadStored(s) \/ SubscribeActive(s) \/ Follows(s)
    \/ admit_execution(s) \/ run_admitted_unary(s)

Execution(s) == begin_execution(s) \/ ExecutionEnds(s)

Subscription(u) == subscribe_to_task(u) \/ SubFollows(u) \/ SubReads(u) \/ SubWaits(u)

SendNext ==
    \/ \E s \in Sends :
        \/ send_gate(s) \/ Workflow(s) \/ Execution(s) \/ DropStream(s)
        \/ Rejected(s) \/ ReadFails(s) \/ ExecutionFails(s)
    \/ \E u \in Subscribers : require_owner_and_recipient(u) \/ Subscription(u)
    \/ TaskEnds \/ TaskDeleted

SendSpec == SendInit /\ [][SendNext]_sendVars

(* tokio polls the spawned workflows whether or not the caller waits, the  *)
(* SDK its executions, hyper the streams; the delivery deadline ends every *)
(* task.                                                                   *)
SendFairness ==
    /\ \A s \in Sends : WF_sendVars(Workflow(s)) /\ WF_sendVars(Execution(s))
    /\ \A u \in Subscribers : WF_sendVars(Subscription(u))
    /\ WF_sendVars(TaskEnds)

-----------------------------------------------------------------------------
(* Between the lock of the gate and the end of the workflow there is one   *)
(* send per task id, although gates are removed and made again meanwhile.  *)
OneWorkflow ==
    \A r, s \in Sends : (send[r].pc \in Guarded /\ send[s].pc \in Guarded) => r = s

(* Every send ends by the end of its task, also when others wait for the   *)
(* same gate and nobody reads the streams.                                 *)
SendEnds ==
    \A s \in Sends : send[s].pc = "lock" ~> send[s].pc = "done"

=============================================================================
