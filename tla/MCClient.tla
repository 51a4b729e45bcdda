------------------------------ MODULE MCClient ------------------------------
(***************************************************************************)
(* Instances of the client's protocols for TLC: the connection recovery,   *)
(* the operations of the session process, the team creation and the inbox  *)
(* pump of the Pi adapter.  They share no state in the models, so that     *)
(* their interleavings say nothing new: a behaviour exercises one of them, *)
(* in one setting, and the variables of the others keep their first        *)
(* values.  MCEnds has the narrower settings, for liveness.                *)
(***************************************************************************)
EXTENDS Recovery, SessionInbox

CONSTANTS Settings, m1, m2

VARIABLES
    setting,
    task, sent, answer, fenced, present, op,
    pane, splits, member, team, wait, notified, unrecorded,
    pump, ctl, loop, got, active, reminded, failing, waiter, failures, recent, ended,
    fallingBack, replying, fate, given, shown, dropped

connectionVars == <<watermark, enrolled, orphans, current, gate, cancelled, exited,
                    calls>>
operationVars == <<task, sent, answer, fenced, present, op>>
teamVars == <<pane, splits, member, team, wait, notified, unrecorded>>
pumpVars == <<pump, ctl, loop, got, active, reminded, failing, waiter, failures, recent,
              ended, fallingBack, replying, fate, given, shown, dropped>>
brokerVars == <<instance, up, faults>>
vars == <<setting, brokerVars, connectionVars, operationVars, sessionVars, teamVars, pumpVars>>

Operation == INSTANCE TaskOperation WITH
    WaitModes <- {"terminal", "immediate", "resume"},
    FaultKinds <- {"lapse", "leave", "refuse", "lose", "fail", "deadline"},
    MaxInstance <- 3, MaxFaults <- 3

Team == INSTANCE TeamCreation WITH Roles <- 3, SelfRole <- TRUE, MaxFaults <- 3

Pumps == INSTANCE InboxPump WITH
    Deliveries <- {m1, m2}, NoDelivery <- None, MaxRecent <- 2, MaxFailures <- 2, MaxPumps <- 3

ASSUME ClientAssumption ==
    /\ RecoveryBounds /\ InboxBounds
    /\ Operation!OperationBounds
    /\ Team!TeamBounds
    /\ Pumps!InboxPumpAssumption

-----------------------------------------------------------------------------
Init ==
    /\ setting \in Settings
    /\ RecoveryInit /\ SessionInit /\ Pumps!Init
    /\ Operation!Init /\ (setting # "operation" => op.wait = "terminal")
    /\ Team!Init

ConnectionNext ==
    /\ setting = "connection" /\ RecoveryNext
    /\ UNCHANGED <<setting, operationVars, sessionVars, teamVars, pumpVars>>

OperationNext ==
    /\ setting = "operation" /\ Operation!Next
    /\ UNCHANGED <<setting, connectionVars, sessionVars, teamVars, pumpVars>>

InboxNext ==
    /\ setting = "inbox" /\ SessionNext
    /\ UNCHANGED <<setting, brokerVars, connectionVars, operationVars, teamVars, pumpVars>>

TeamNext ==
    /\ setting = "team" /\ Team!Next
    /\ UNCHANGED <<setting, instance, connectionVars, operationVars, sessionVars, pumpVars>>

PumpNext ==
    /\ setting = "pumps" /\ Pumps!Next
    /\ UNCHANGED <<setting, brokerVars, connectionVars, operationVars, sessionVars, teamVars>>

Next == ConnectionNext \/ OperationNext \/ InboxNext \/ TeamNext \/ PumpNext

Spec == Init /\ [][Next]_vars

-----------------------------------------------------------------------------
(* The properties of the components, each in the settings it is about.     *)
(* InstalledMovesForward and HandedIsAcknowledged are those of Recovery    *)
(* and SessionInbox, whose variables do not move in other settings.        *)

\* What a send or a resume reports to the harness is true of the task.
ResultsAreTrue == setting = "operation" => Operation!ResultsAreTrue

\* A message is sent a second time only when its first sending has not made and
\* will not make a task.
ResendIsSafe == Operation!ResendIsSafe

\* create_team never makes a second pane for a role or a second Pi in a pane,
\* though the answers to its commands may be lost.
MutationsOnce == setting = "team" => Team!MutationsOnce

\* wait_for_agents never sleeps through the registration it waits for.
WaitNotOverslept == setting = "team" => Team!WaitNotOverslept

\* Deliveries of a session are serialized, through replaced and stopped pumps.
AnsweredInOrder == setting = "pumps" => Pumps!AnsweredInOrder

\* A pump drops its active delivery for a reason that concerns this delivery.
StopsForItsOwn == Pumps!StopsForItsOwn

=============================================================================
