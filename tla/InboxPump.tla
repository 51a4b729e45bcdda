----------------------------- MODULE InboxPump ------------------------------
(***************************************************************************)
(* The inbox pump of the Pi adapter (inbox-pump.ts) and the parts of the   *)
(* extension (herdr-a2a.ts) that drive it: one delivery at a time is given *)
(* to the agent, which must reply to it; an agent that settles without a   *)
(* reply is reminded once, and then the pump replies for it.               *)
(*                                                                         *)
(* JavaScript runs to the next await, so an action is a stretch between    *)
(* two awaits, and the continuation of a settled promise is a step of its  *)
(* own.  The session client and the broker are external: a wait answers    *)
(* with a delivery (a task is acknowledged in one delivery only, so both   *)
(* are a member of Deliveries), with something malformed or with an error; *)
(* a reply is stored if its task is open, and its answer may be lost.      *)
(***************************************************************************)
EXTENDS Integers, Sequences, FiniteSets

CONSTANTS Deliveries,
          NoDelivery,
          MaxRecent,      \* MAX_RECENT_DELIVERY_IDS
          MaxFailures,    \* WAIT_RETRY_MS.length
          MaxPumps        \* bound on the pumps of one session

InboxPumpAssumption ==
    /\ NoDelivery \notin Deliveries
    /\ MaxRecent \in Nat \ {0} /\ MaxFailures \in Nat \ {0} /\ MaxPumps \in Nat

VARIABLES
    pump,      \* number of the current InboxPump object
    ctl,       \* its #controller: "off" (undefined), "on" or "aborted"
    loop,      \* where its #run is
    got,       \* what its port.wait has answered
    active,    \* #activeDelivery, and with it #activeTaskId and #completion
    reminded,  \* #settlementCount = 1
    failing,   \* #fallback is defined
    waiter,    \* #explicitWaiter is defined
    failures,  \* consecutiveFailures of #run
    recent,    \* RecentInboxDeliveries, oldest first, shared by the pumps
    ended,     \* session_shutdown has run
    fallingBack, \* replyFailure calls of settled() in progress
    replying,  \* a2a_reply calls in progress
    fate,      \* what the broker has stored for a task
    given,     \* tasks the session has handed out
    shown, dropped   \* history: see the properties

brokerVars == <<fate, given>>
activeVars == <<active, reminded, failing>>
history == <<shown, dropped>>
vars == <<pump, ctl, loop, got, activeVars, waiter, failures, recent, ended,
          fallingBack, replying, brokerVars, history>>

Nothing == [kind |-> "nothing", d |-> NoDelivery]
WaitErrors == {[kind |-> k, d |-> NoDelivery] : k \in {"timeout", "recoverable", "terminal"}}
Garbled == [kind |-> "malformed", d |-> NoDelivery]
Answers(k, D) == {[kind |-> k, d |-> d] : d \in D}

-----------------------------------------------------------------------------
(* Starting and stopping.                                                  *)

ClearActive == active' = NoDelivery /\ reminded' = FALSE /\ failing' = FALSE

\* ensureInboxPump replaces a stopped pump and starts the new one.
EnsureInboxPump ==
    /\ ~ended /\ ctl = "off" /\ pump < MaxPumps
    /\ pump' = pump + 1
    /\ ctl' = "on" /\ loop' = "wait" /\ failures' = 0 /\ waiter' = FALSE
    /\ UNCHANGED <<got, activeVars, recent, ended, fallingBack, replying, brokerVars, history>>

\* stop() up to its await of the loop.
Stop ==
    /\ waiter' = FALSE
    /\ ctl' = IF ctl = "off" THEN "off" ELSE "aborted"
    /\ dropped' = dropped \cup ({active} \ {NoDelivery})
    /\ ClearActive

SessionShutdown ==
    /\ ~ended
    /\ ended' = TRUE
    /\ Stop
    /\ UNCHANGED <<pump, loop, got, failures, recent, fallingBack, replying, brokerVars,
                   shown>>

\* complete(task): only the active task's completion is resolved.
Complete_Mutant(d) == ClearActive     \* whichever task is active
Complete(d) == IF active = d THEN ClearActive ELSE UNCHANGED activeVars

-----------------------------------------------------------------------------
(* The loop of #run.                                                       *)

\* The test at the head of the loop, and the port.wait after it.
Again == loop' = IF ctl = "on" THEN "wait" ELSE "done"

\* The session's answer.  A replay is a delivery it has handed out before.
WaitAnswers ==
    /\ loop = "wait" /\ ctl = "on"
    /\ got' \in WaitErrors \cup {Garbled} \cup Answers("delivery", Deliveries)
                  \cup Answers("malformed", Deliveries \ given)
    /\ given' = given \cup ({got'.d} \ {NoDelivery})
    /\ loop' = "got"
    /\ UNCHANGED <<pump, ctl, activeVars, waiter, failures, recent, ended, fallingBack,
                   replying, fate, history>>

\* abort() rejects the pending wait or sleep.
WaitAborted ==
    /\ loop \in {"wait", "sleep"} /\ ctl = "aborted"
    /\ loop' = "done"
    /\ UNCHANGED <<pump, ctl, got, activeVars, waiter, failures, recent, ended, fallingBack,
                   replying, brokerVars, history>>

GiveUp(count) == count = MaxFailures

HandleError ==
    /\ loop = "got" /\ got \in WaitErrors
    /\ LET count == failures + 1
       IN  \/ /\ ctl = "aborted" \/ got.kind = "terminal"
              /\ loop' = "done" /\ UNCHANGED failures
           \/ /\ ctl = "on" /\ got.kind = "timeout"
              /\ loop' = "wait" /\ UNCHANGED failures
           \/ /\ ctl = "on" /\ got.kind = "recoverable"
              /\ failures' = count
              /\ loop' = IF GiveUp(count) THEN "done" ELSE "sleep"
    /\ got' = Nothing
    /\ UNCHANGED <<pump, ctl, activeVars, waiter, recent, ended, fallingBack, replying,
                   brokerVars, history>>

SleepEnds ==
    /\ loop = "sleep" /\ ctl = "on"
    /\ loop' \in {"wait", "done"}      \* the timer may fail
    /\ UNCHANGED <<pump, ctl, got, activeVars, waiter, failures, recent, ended, fallingBack,
                   replying, brokerVars, history>>

HandleMalformed ==
    /\ loop = "got" /\ got.kind = "malformed"
    /\ IF got.d = NoDelivery THEN Again /\ got' = Nothing
                             ELSE loop' = "reject" /\ UNCHANGED got
    /\ UNCHANGED <<pump, ctl, activeVars, waiter, failures, recent, ended, fallingBack,
                   replying, brokerVars, history>>

\* The broker on a reply by the pump: stored, refused, or unreachable.
PumpReplies(d) == fate' = [fate EXCEPT ![d] = IF @ = "open" THEN "failed" ELSE @]

\* The replyFailure for a malformed delivery.
RejectMalformed ==
    /\ loop = "reject"
    /\ \/ PumpReplies(got.d) /\ ~ended /\ Again
       \/ UNCHANGED fate /\ ended /\ Again
       \/ (PumpReplies(got.d) \/ UNCHANGED fate) /\ loop' = "done"
    /\ got' = Nothing
    /\ UNCHANGED <<pump, ctl, activeVars, waiter, failures, recent, ended, fallingBack,
                   replying, given, history>>

Remembered(d) == \E i \in 1 .. Len(recent) : recent[i] = d
Admit(d) == recent' = IF Len(recent) = MaxRecent THEN Append(Tail(recent), d)
                                                 ELSE Append(recent, d)

\* An explicit waiter gets the delivery, or it is injected, which does
\* nothing once the session has ended.
HandleDelivery ==
    /\ loop = "got" /\ got.kind = "delivery"
    /\ failures' = 0
    /\ IF Remembered(got.d)
         THEN Again /\ UNCHANGED <<activeVars, waiter, recent, shown>>
         ELSE /\ Admit(got.d)
              /\ active' = got.d /\ reminded' = FALSE /\ failing' = FALSE
              /\ waiter' = FALSE
              /\ shown' = [shown EXCEPT ![got.d] = IF waiter \/ ~ended THEN @ + 1 ELSE @]
              /\ loop' = "active"
    /\ got' = Nothing
    /\ UNCHANGED <<pump, ctl, ended, fallingBack, replying, brokerVars, dropped>>

\* The completion has been resolved.
Resume ==
    /\ loop = "active" /\ active = NoDelivery
    /\ Again
    /\ UNCHANGED <<pump, ctl, got, activeVars, waiter, failures, recent, ended, fallingBack,
                   replying, brokerVars, history>>

\* The finally of start().
LoopEnds ==
    /\ loop = "done"
    /\ loop' = "off" /\ ctl' = "off"
    /\ ClearActive
    /\ UNCHANGED <<pump, got, waiter, failures, recent, ended, fallingBack, replying,
                   brokerVars, history>>

-----------------------------------------------------------------------------
(* The agent settles: settled() and its fallback.                          *)

Remind ==
    /\ ~ended /\ active # NoDelivery /\ ctl = "on" /\ ~reminded
    /\ reminded' = TRUE
    /\ UNCHANGED <<pump, ctl, loop, got, active, failing, waiter, failures, recent,
                   ended, fallingBack, replying, brokerVars, history>>

FallBack ==
    /\ ~ended /\ active # NoDelivery /\ ctl = "on" /\ reminded /\ ~failing
    /\ failing' = TRUE
    /\ fallingBack' = fallingBack \cup {[d |-> active, pump |-> pump, st |-> "sent"]}
    /\ UNCHANGED <<pump, ctl, loop, got, active, reminded, waiter, failures, recent,
                   ended, replying, brokerVars, shown, dropped>>

\* The broker's answer; a task that has ended already counts as answered.
FallbackAnswered(c) ==
    /\ c.st = "sent"
    /\ \E st \in {"ok", "error"} :
         /\ fallingBack' = (fallingBack \ {c}) \cup {[c EXCEPT !.st = st]}
         /\ PumpReplies(c.d) \/ (st = "error" /\ UNCHANGED fate)
    /\ UNCHANGED <<pump, ctl, loop, got, activeVars, waiter, failures, recent, ended,
                   replying, given, history>>

FallbackFailed_Mutant(c) == Stop   \* whatever is active by now
FallbackFailed_Silent_Mutant(c) == UNCHANGED <<ctl, activeVars, waiter, dropped>>
FallbackFailed(c) ==
    IF active = c.d /\ ctl = "on" THEN Stop
                                  ELSE UNCHANGED <<ctl, activeVars, waiter, dropped>>

\* The continuations of replyFailure.  Those of a replaced pump find it empty.
FallbackReturns(c) ==
    /\ c.st # "sent"
    /\ fallingBack' = fallingBack \ {c}
    /\ IF c.pump # pump
         THEN UNCHANGED <<ctl, activeVars, waiter, dropped>>
         ELSE IF c.st = "ok"
           THEN Complete(c.d) /\ UNCHANGED <<ctl, waiter, dropped>>
           ELSE FallbackFailed(c)
    /\ UNCHANGED <<pump, loop, got, failures, recent, ended, replying, brokerVars,
                   shown>>

-----------------------------------------------------------------------------
(* The tools of the agent, and the end of a task elsewhere.                *)

WaitExplicit ==
    /\ ~ended /\ ctl # "off" /\ ~waiter
    /\ waiter' = TRUE
    /\ UNCHANGED <<pump, ctl, loop, got, activeVars, failures, recent, ended, fallingBack,
                   replying, brokerVars, history>>

\* Its timeout, or the abort of the tool call.
ExplicitGivesUp ==
    /\ waiter
    /\ waiter' = FALSE
    /\ UNCHANGED <<pump, ctl, loop, got, activeVars, failures, recent, ended, fallingBack,
                   replying, brokerVars, history>>

A2AReply(d) ==
    /\ ~ended /\ ctl # "off" /\ shown[d] > 0
    /\ \A c \in replying : c.d # d
    /\ replying' = replying \cup {[d |-> d, st |-> "sent"]}
    /\ UNCHANGED <<pump, ctl, loop, got, activeVars, waiter, failures, recent, ended,
                   fallingBack, brokerVars, history>>

\* The broker stores the reply of an open task or repeats its answer to the
\* same reply; the tool may see an error in any case.
ReplyAnswered(c) ==
    /\ c.st = "sent"
    /\ fate' = [fate EXCEPT ![c.d] = IF @ = "open" THEN "replied" ELSE @]
    /\ \/ replying' = replying \ {c}
       \/ /\ fate'[c.d] = "replied"
          /\ replying' = (replying \ {c}) \cup {[c EXCEPT !.st = "ok"]}
    /\ UNCHANGED <<pump, ctl, loop, got, activeVars, waiter, failures, recent, ended,
                   fallingBack, given, history>>

ReplyReturns(c) ==
    /\ c.st = "ok"
    /\ replying' = replying \ {c}
    /\ IF ended THEN UNCHANGED activeVars ELSE Complete(c.d)
    /\ UNCHANGED <<pump, ctl, loop, got, waiter, failures, recent, ended, fallingBack,
                   brokerVars, history>>

\* The sender cancels, or the delivery deadline passes.
TaskEnds(d) ==
    /\ d \in given /\ fate[d] = "open"
    /\ fate' = [fate EXCEPT ![d] = "ended"]
    /\ UNCHANGED <<pump, ctl, loop, got, activeVars, waiter, failures, recent, ended,
                   fallingBack, replying, given, history>>

-----------------------------------------------------------------------------
Init ==
    /\ pump = 0 /\ ctl = "off" /\ loop = "off" /\ got = Nothing
    /\ active = NoDelivery /\ reminded = FALSE /\ failing = FALSE
    /\ waiter = FALSE /\ failures = 0 /\ recent = <<>> /\ ended = FALSE
    /\ fallingBack = {} /\ replying = {}
    /\ fate = [d \in Deliveries |-> "open"] /\ given = {} /\ dropped = {}
    /\ shown = [d \in Deliveries |-> 0]

LoopStep == \/ WaitAborted \/ HandleError \/ SleepEnds \/ HandleMalformed
            \/ RejectMalformed \/ HandleDelivery \/ Resume \/ LoopEnds
Settled == Remind \/ FallBack
FallbackStep == \E c \in fallingBack : FallbackAnswered(c) \/ FallbackReturns(c)

Next ==
    \/ EnsureInboxPump \/ SessionShutdown
    \/ WaitAnswers \/ LoopStep
    \/ Settled \/ FallbackStep
    \/ WaitExplicit \/ ExplicitGivesUp
    \/ \E d \in Deliveries : A2AReply(d) \/ TaskEnds(d)
    \/ \E c \in replying : ReplyAnswered(c) \/ ReplyReturns(c)

\* The runtime runs every continuation, calls return, and an agent that was
\* handed a task settles; nobody has to send, reply or shut down.
Fairness == WF_vars(LoopStep) /\ WF_vars(Settled) /\ WF_vars(FallbackStep)

Spec == Init /\ [][Next]_vars

FairSpec == Spec /\ Fairness

-----------------------------------------------------------------------------
(* Properties.                                                             *)

\* Deliveries are serialized: a task the pump has accepted is the active one,
\* or the broker has its end (a reply, the fallback, a cancellation), or it
\* was active when the pump stopped.  No late reply or fallback of one task
\* lets the pump go on while another is unanswered.
AnsweredInOrder ==
    \A i \in 1 .. Len(recent) :
        recent[i] = active \/ fate[recent[i]] # "open" \/ recent[i] \in dropped

\* A pump is stopped by the end of the session or by the failed fallback of
\* the delivery that is still active, never by a late failure about a
\* delivery that has been completed.
StopsForItsOwn ==
    [][ctl = "on" /\ ctl' = "aborted" =>
         \/ ended'
         \/ \E c \in fallingBack : c.d = active /\ c.pump = pump /\ c.st = "error"]_vars

\* Every delivery given to the agent is resolved: it does not stay active for
\* ever, whether the agent replies, forgets, or the broker is unreachable.
Resolved == \A d \in Deliveries : active = d /\ ctl = "on" ~> active # d

\* stop() returns: the loop of an aborted pump ends.  The test of stop in
\* inbox-pump.test.ts asks that shutdown does not hang behind a task.
StopEnds == ctl = "aborted" ~> ctl = "off"
=============================================================================
