---------------------------- MODULE TaskOperation ----------------------------
(***************************************************************************)
(* One send_message of a session process (herdr-a2a-cli session.rs): the   *)
(* first attempt, and the loop of run_task_attempts that recovers the      *)
(* connection, resolves the agent, inspects the task, sends once more,     *)
(* streams and subscribes, against a broker that may die, lose answers and *)
(* report errors.  A send the session no longer waits for may still be     *)
(* executed by the instance it was sent to.                                *)
(*                                                                         *)
(* The connection manager appears by what Recovery shows of it: a failed   *)
(* connection is replaced by one to another instance, a refused            *)
(* registration by a fresh one with the instance that serves.              *)
(*                                                                         *)
(* WaitModes are the forms of the call that are explored.  MaxInstance     *)
(* bounds the restarts of the broker, MaxFaults the lapses of the          *)
(* registration, the absences of the recipient, the errors before and      *)
(* after the commit of the task, the lost answers and the failing streams, *)
(* as far as FaultKinds admits them.                                       *)
(***************************************************************************)
EXTENDS Integers, FiniteSets

CONSTANTS WaitModes, FaultKinds, MaxInstance, MaxFaults

OperationBounds ==
    /\ WaitModes \subseteq {"terminal", "immediate", "resume"}
    /\ FaultKinds \subseteq {"lapse", "leave", "refuse", "lose", "fail", "deadline"}
    /\ {MaxInstance, MaxFaults} \subseteq Nat /\ MaxInstance > 0

VARIABLES
    instance, up,  \* the broker that runs or ran last
    task,          \* its durable row: "none", "working" or "done"
    sent,          \* sends on their way: [number, instance]
    answer,        \* what the broker answered to the send the session waits for
    fenced,        \* the registration of the connection is no longer accepted
    present,       \* the recipient is registered, its card is served
    op,            \* the TaskOperation, its attempt state and its memory
    faults

broker == <<instance, up, task, sent>>
peer == <<fenced, present>>
vars == <<broker, answer, peer, op, faults>>

\* An answer is that of the call, or a stream that begins with an error.
Answer(what) == [over |-> "call", says |-> what]
NoAnswer == Answer("none")
Streamed(what) == answer = [over |-> "stream", says |-> what]

Results == {"terminal", "immediate", "stream_lost", "timeout", "error"}

To(state) == op' = [op EXCEPT !.state = state]
At(state) == op.state = state
Ended == op.state \in Results

\* An Err is returned to the harness; why: what the session had learnt it from.
Fails(why) == op' = [op EXCEPT !.state = "error", !.why = why]
Recover(mode) == op' = [op EXCEPT !.state = "recover", !.mode = mode]

Reached == up /\ op.conn = instance       \* the connection's broker answers
Authentic == Reached /\ ~fenced
resolve_card == Reached /\ present        \* the recipient's card is served

Init ==
    /\ instance = 1 /\ up = TRUE
    /\ sent = {} /\ answer = NoAnswer
    /\ fenced = FALSE /\ present = TRUE
    /\ faults = 0
    /\ \E w \in WaitModes :
        /\ task = IF w = "resume" THEN "working" ELSE "none"
        /\ op = [state |-> "resolve_first", wait |-> w, conn |-> 1, mode |-> "none",
                 confirmed |-> FALSE, resent |-> FALSE, preError |-> FALSE,
                 sends |-> 0, resubscribe |-> FALSE, why |-> "none"]

Unserved == UNCHANGED <<broker, answer, peer, faults>>
Fault(kind) == kind \in FaultKinds /\ faults < MaxFaults /\ faults' = faults + 1

-----------------------------------------------------------------------------
(* The broker and the recipient.                                           *)

BrokerDies ==
    /\ up /\ instance < MaxInstance /\ up' = FALSE
    /\ UNCHANGED <<instance, task, sent, answer, peer, op, faults>>

BrokerStarts ==
    /\ ~up /\ up' = TRUE /\ instance' = instance + 1
    /\ fenced' = TRUE /\ present' = FALSE    \* registrations are not kept
    /\ UNCHANGED <<task, sent, answer, op, faults>>

RegistrationLapses ==
    /\ Fault("lapse") /\ fenced' = TRUE
    /\ UNCHANGED <<broker, answer, present, op>>

RecipientLeaves ==
    /\ Fault("leave") /\ present /\ present' = FALSE
    /\ UNCHANGED <<broker, answer, fenced, op>>

RecipientRegisters ==
    /\ ~present /\ present' = TRUE
    /\ UNCHANGED <<broker, answer, fenced, op, faults>>

Reply ==
    /\ up /\ task = "working" /\ task' = "done"
    /\ UNCHANGED <<instance, up, sent, answer, peer, op, faults>>

Answers(s, a) == answer' = IF At("send") /\ s.number = op.sends THEN a ELSE answer

(* start_or_resume: a row of this id already there is taken up, otherwise  *)
(* one is inserted.                                                        *)
Enqueue == task' = IF task = "none" THEN "working" ELSE task

(* A refusal of prepare_send is the answer of a unary send, and the first  *)
(* event of the stream that answers a streaming one.                       *)
Refusal(what) == [over |-> IF op.wait = "terminal" THEN "stream" ELSE "call", says |-> what]

Admitted == ~fenced /\ (task # "none" \/ present)

(* prepare_send, in the order of its checks (the registration, the request,*)
(* the recipient), and the row.  prepare_send and the call may each fail   *)
(* on either side of the commit: a row written without its projection is   *)
(* an error of enqueue.                                                    *)
BrokerHandles(s) ==
    /\ up /\ s \in sent /\ s.instance = instance
    /\ sent' = sent \ {s}
    /\ \/ /\ fenced /\ Answers(s, Refusal("auth_lost"))
          /\ UNCHANGED <<task, faults>>
       \/ /\ ~fenced /\ ~Admitted /\ Answers(s, Refusal("error"))
          /\ UNCHANGED <<task, faults>>
       \/ /\ Admitted /\ Enqueue /\ Answers(s, Answer("ok")) /\ UNCHANGED faults
       \/ /\ \E a \in {Refusal("error"), Answer("error")} : Answers(s, a)
          /\ Fault("refuse")
          /\ \/ UNCHANGED task
             \/ Admitted /\ Enqueue
    /\ UNCHANGED <<instance, up, peer, op>>

-----------------------------------------------------------------------------
(* The first attempt.                                                      *)

ResolveFirst ==
    /\ At("resolve_first") /\ Unserved
    /\ \/ ~Reached /\ Recover("replacement")
       \/ Reached /\ ~present /\ Fails("unresolved")
       \/ resolve_card /\ op.wait = "resume" /\ To("get_first")

SendFirst ==
    /\ At("resolve_first") /\ resolve_card /\ op.wait # "resume"
    /\ sent' = sent \cup {[number |-> 1, instance |-> op.conn]}
    /\ op' = [op EXCEPT !.state = "send", !.sends = 1]
    /\ answer' = NoAnswer
    /\ UNCHANGED <<instance, up, task, peer, faults>>

(* resume_message looks the task up before it subscribes.                  *)
GetFirst ==
    /\ At("get_first") /\ Unserved
    /\ \/ ~Reached /\ Recover("replacement")
       \/ Reached /\ fenced /\ Recover("refresh")
       \/ Authentic /\ task = "none" /\ Fails("missing")
       \/ Authentic /\ task = "done" /\ To("terminal")
       \/ Authentic /\ task = "working" /\ op' = [op EXCEPT !.state = "subscribe", !.confirmed = TRUE]

Lost ==                                    \* the transport gives up on the answer
    \/ op.conn # instance /\ UNCHANGED faults
    \/ ~up /\ UNCHANGED faults
    \/ Fault("lose")

Opened == op' = [op EXCEPT !.state = IF op.wait = "terminal" THEN "stream" ELSE "immediate"]

SendAnswered_Mutant ==                     \* an error is believed without a look
    /\ At("send") /\ Reached
    /\ \/ (answer = Answer("ok") \/ answer.over = "stream") /\ Opened
       \/ answer = Answer("auth_lost") /\ Recover("refresh")
       \/ answer = Answer("error") /\ Fails("missing")
    /\ Unserved

(* The answer of a send, first or second, in either mode: a stream is      *)
(* read, whatever its first event; a lost registration is renewed; any     *)
(* other error of the call is remembered until the task has been inspected.*)
SendAnswered ==
    /\ At("send") /\ Reached
    /\ \/ (answer = Answer("ok") \/ answer.over = "stream") /\ Opened
       \/ answer = Answer("auth_lost") /\ Recover("refresh")
       \/ /\ answer = Answer("error")
          /\ op' = [op EXCEPT !.state = "inspect", !.preError = TRUE, !.resent = TRUE]
    /\ Unserved

SendLost ==
    /\ At("send") /\ Lost /\ Recover("replacement")
    /\ UNCHANGED <<broker, answer, peer>>

-----------------------------------------------------------------------------
(* run_task_attempts, one action per TaskAttemptState.                     *)

Recovered_Mutant ==                        \* the same broker again is good enough
    /\ At("recover") /\ up
    /\ op' = [op EXCEPT !.state = "resolve", !.conn = instance]
    /\ fenced' = FALSE
    /\ UNCHANGED <<broker, answer, present, faults>>

Recovered ==
    /\ At("recover") /\ up
    /\ op.mode = "replacement" => instance # op.conn
    /\ op' = [op EXCEPT !.state = "resolve", !.conn = instance]
    /\ fenced' = FALSE
    /\ UNCHANGED <<broker, answer, present, faults>>

Resolve ==
    /\ At("resolve") /\ Unserved
    /\ \/ ~Reached /\ Recover("replacement")
       \/ resolve_card /\ To("inspect")
       \/ Reached /\ ~present /\ op' = op       \* AgentUnavailable: again after a delay

Missing_Final_Mutant ==                    \* a lost send is not sent again
    /\ At("inspect") /\ Authentic /\ task = "none"
    /\ Fails("missing")
    /\ Unserved

(* TASK_NOT_FOUND: the error of a send is final, a send that may have been *)
(* lost is sent once more under the same task id.                          *)
Missing ==
    /\ At("inspect") /\ Authentic /\ task = "none"
    /\ IF op.preError \/ op.confirmed \/ op.wait = "resume" \/ op.resent
       THEN Fails("missing") /\ UNCHANGED <<sent, answer>>
       ELSE /\ op' = [op EXCEPT !.state = "send", !.resent = TRUE, !.sends = @ + 1]
            /\ sent' = sent \cup {[number |-> op.sends + 1, instance |-> op.conn]}
            /\ answer' = NoAnswer
    /\ UNCHANGED <<instance, up, task, peer, faults>>

Inspect ==
    /\ At("inspect") /\ Unserved
    /\ \/ ~Reached /\ Recover("replacement")
       \/ Reached /\ fenced /\ Recover("refresh")
       \/ /\ Authentic /\ task # "none"
          /\ op' = [op EXCEPT !.confirmed = TRUE, !.preError = FALSE,
                       !.state = CASE task = "done" -> "terminal"
                                   [] op.wait = "immediate" -> "immediate"
                                   [] OTHER -> "subscribe"]

(* An event of the stream of the send, or of the subscription: the task,   *)
(* or its end.                                                             *)
StreamEvent ==
    /\ Reached
    /\ \/ At("stream") /\ answer = Answer("ok")
       \/ At("subscribed")
    /\ op' = [op EXCEPT !.confirmed = TRUE,
                        !.state = IF task = "done" THEN "terminal" ELSE @]
    /\ Unserved

StreamEnds ==
    /\ \/ op.state \in {"stream", "subscribed"} /\ Lost
       \/ At("stream") /\ Streamed("auth_lost") /\ UNCHANGED faults
    /\ op' = [op EXCEPT !.state = "check", !.resubscribe = At("stream")]
    /\ UNCHANGED <<broker, answer, peer>>

(* An error in the stream that recovery does not repair: the refusal of    *)
(* the send, or a failure of the execution that has begun.  Once an event  *)
(* has shown the task it is inspected, before that the error is returned.  *)
StreamFails ==
    /\ Reached
    /\ \/ /\ At("stream") /\ (Fault("fail") \/ (Streamed("error") /\ UNCHANGED faults))
          /\ IF op.confirmed THEN To("inspect") ELSE Fails("stream")
       \/ At("subscribed") /\ Fault("fail") /\ Fails("subscription")
    /\ UNCHANGED <<broker, answer, peer>>

Subscribe ==
    /\ At("subscribe")
    /\ \/ Authentic /\ To("subscribed") /\ UNCHANGED faults
       \/ Reached /\ Fault("fail") /\ Fails("subscription")
       \/ /\ ~Authentic /\ op' = [op EXCEPT !.state = "check", !.resubscribe = FALSE]
          /\ UNCHANGED faults
    /\ UNCHANGED <<broker, answer, peer>>

CheckReplacement ==
    /\ At("check")
    /\ \/ /\ up /\ instance # op.conn
          /\ op' = [op EXCEPT !.state = "resolve", !.conn = instance]
          /\ fenced' = FALSE
       \/ (~up \/ instance = op.conn) /\ To("final_get") /\ UNCHANGED fenced
    /\ UNCHANGED <<broker, answer, present, faults>>

FinalGet ==
    /\ At("final_get") /\ Unserved
    /\ \/ ~Reached /\ Recover("replacement")
       \/ Reached /\ fenced /\ Recover("refresh")
       \/ Authentic /\ task = "none" /\ Fails("missing")
       \/ Authentic /\ task = "done" /\ To("terminal")
       \/ /\ Authentic /\ task = "working"
          /\ IF op.resubscribe
             THEN op' = [op EXCEPT !.state = "subscribe", !.confirmed = TRUE]
             ELSE To("stream_lost")

(* The deadline of the operation bounds every wait; the manager may also   *)
(* refuse for good, or be shut down.                                       *)
DeadlineExpires ==
    /\ "deadline" \in FaultKinds /\ ~Ended /\ op.state # "resolve_first"
    /\ To("timeout") /\ Unserved

(* recover gives up after ten seconds of its own.                          *)
RecoveryExpires ==
    /\ "deadline" \in FaultKinds /\ At("recover") /\ (~up \/ (op.mode = "replacement" /\ instance = op.conn))
    /\ To("timeout") /\ Unserved

RecoveryRefused == "deadline" \in FaultKinds /\ At("recover") /\ Fails("recovery") /\ Unserved

Environment ==
    \/ BrokerDies \/ BrokerStarts \/ RegistrationLapses
    \/ RecipientLeaves \/ RecipientRegisters \/ Reply
    \/ \E s \in sent : BrokerHandles(s)

Attempts ==
    \/ ResolveFirst \/ SendFirst \/ GetFirst \/ SendAnswered \/ SendLost
    \/ Recovered \/ Resolve \/ Missing \/ Inspect
    \/ StreamEvent \/ StreamEnds \/ StreamFails
    \/ Subscribe \/ CheckReplacement \/ FinalGet

Next == Environment \/ Attempts \/ DeadlineExpires \/ RecoveryExpires \/ RecoveryRefused

Spec == Init /\ [][Next]_vars

(* As long as no deadline strikes: the broker is started again and answers,*)
(* the recipient registers again and replies, the session takes its steps. *)
Fairness ==
    /\ WF_vars(BrokerStarts) /\ WF_vars(RecipientRegisters) /\ WF_vars(Reply)
    /\ WF_vars(\E s \in sent : BrokerHandles(s))
    /\ WF_vars(Attempts)

-----------------------------------------------------------------------------

(* A message is sent at most twice, and the second time only when the      *)
(* first can no longer be executed: no row of the task exists and no       *)
(* earlier send is on its way to a broker that could still insert one.     *)
ResendIsSafe ==
    [][(op'.sends > op.sends /\ op.sends > 0) =>
          /\ op'.sends = 2
          /\ task = "none"
          /\ ~\E s \in sent : up /\ s.instance = instance]_vars

(* What the harness is told is true, now and later: a result that names    *)
(* the outcome or a running task has a task behind it; a send that ends    *)
(* with an error because its recipient was not found, or because the       *)
(* broker has been asked and knows no such task, never runs after all; and *)
(* an error met in a stream is returned only before an event has shown the *)
(* task.  An error that comes as the first event, though the task has been *)
(* committed, is what FailedStreamIsFollowed is about; the errors of a     *)
(* recovery and of a subscription say nothing about the task.              *)
ResultsAreTrue ==
    /\ op.state = "terminal" => task = "done"
    /\ op.state \in {"immediate", "stream_lost"} => task # "none"
    /\ op.confirmed => task # "none"
    /\ (op.state = "error" /\ op.why \in {"unresolved", "missing"} /\ op.wait # "resume") =>
          task = "none"
    /\ (op.state = "error" /\ op.why = "stream") => ~op.confirmed

(* The caller of a send whose stream fails after the task is durable is    *)
(* not given the error: the session follows the running task.              *)
FailedStreamIsFollowed ==
    (op.state = "error" /\ op.why = "stream") => task = "none"

(* One turnover is harmless: an operation that meets one broker restart, or *)
(* one lapse of its registration, at any step, and nothing else ends with   *)
(* what it was asked for.                                                   *)
SurvivesOneTurnover ==
    <>(op.state \in {"terminal", "immediate"} \/ (instance > 1 /\ faults > 0))
=============================================================================
