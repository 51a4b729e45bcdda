------------------------------- MODULE MCEnds -------------------------------
(***************************************************************************)
(* Instances for TLC of what must eventually happen outside the broker: in *)
(* the session process, in the Pi adapter, in a plain removal and in the   *)
(* processes of a scope.  As in MCClient and MCManaged a behaviour         *)
(* exercises one component, in one setting, with few failures: liveness is *)
(* promised once they are over.                                            *)
(***************************************************************************)
EXTENDS Recovery, SessionInbox, Supervision

CONSTANTS Settings, m1, m2, r1, r2

VARIABLES
    setting,
    task, sent, answer, fenced, present, op,
    pump, ctl, loop, got, active, reminded, failing, waiter, failures, recent, ended,
    fallingBack, replying, fate, given, shown, dropped,
    rec, purgeJournal, data, files, enabled, pair, lock, run, stops, installs

connectionVars == <<watermark, enrolled, orphans, current, gate, cancelled, exited, calls>>
operationVars == <<task, sent, answer, fenced, present, op>>
pumpVars == <<pump, ctl, loop, got, active, reminded, failing, waiter, failures, recent,
              ended, fallingBack, replying, fate, given, shown, dropped>>
removalVars == <<rec, purgeJournal, data, files, enabled, pair, lock, run, stops, installs>>
brokerVars == <<instance, up, faults>>
clientVars == <<brokerVars, connectionVars, operationVars, sessionVars, pumpVars>>
vars == <<setting, clientVars, removalVars, supervisionVars>>

OneTurnover == INSTANCE TaskOperation WITH
    WaitModes <- {"terminal", "immediate", "resume"},
    FaultKinds <- {"lapse"}, MaxInstance <- 2, MaxFaults <- 1
OnePump == INSTANCE InboxPump WITH
    Deliveries <- {m1, m2}, NoDelivery <- None, MaxRecent <- 2, MaxFailures <- 2, MaxPumps <- 1
PlainRemoval == INSTANCE ManagedRemoval WITH
    Removers <- {r1, r2}, Purges <- {FALSE}, Copies <- TRUE, MaxStops <- 2, MaxWrites <- 1, MaxInstalls <- 1

ASSUME EndsAssumption ==
    /\ RecoveryBounds /\ InboxBounds /\ SupervisionAssumption
    /\ OneTurnover!OperationBounds /\ OnePump!InboxPumpAssumption /\ PlainRemoval!RemovalAssumption

-----------------------------------------------------------------------------
Init ==
    /\ setting \in Settings
    /\ RecoveryInit /\ SessionInit /\ SupervisionInit
    /\ OneTurnover!Init /\ (setting # "turnover" => op.wait = "terminal")
    /\ OnePump!Init
    /\ PlainRemoval!Init /\ (setting # "plain removal" => pair)

ClientNext ==
    /\ \/ setting = "healing" /\ RecoveryNext /\ UNCHANGED <<operationVars, sessionVars, pumpVars>>
       \/ setting = "turnover" /\ OneTurnover!Next /\ UNCHANGED <<connectionVars, sessionVars, pumpVars>>
       \/ setting = "acks kept" /\ SessionNext /\ UNCHANGED <<brokerVars, connectionVars, operationVars, pumpVars>>
       \/ setting = "one pump" /\ OnePump!Next /\ UNCHANGED <<brokerVars, connectionVars, operationVars, sessionVars>>
    /\ UNCHANGED <<setting, removalVars, supervisionVars>>

RemovalNext ==
    /\ setting = "plain removal" /\ PlainRemoval!Next
    /\ UNCHANGED <<setting, clientVars, supervisionVars>>

ProcessNext ==
    /\ setting = "stops" /\ SupervisionNext
    /\ UNCHANGED <<setting, clientVars, removalVars>>

Next == ClientNext \/ RemovalNext \/ ProcessNext

Spec == Init /\ [][Next]_vars

-----------------------------------------------------------------------------
(* A component promises its liveness under its own fairness.               *)

\* Restarts, lapses and lost answers once over, a session that is not stopped
\* comes to hold a live connection for good (ConnectionManager::recover).
HealsInTime == setting = "healing" /\ RecoveryFairness => SessionHeals

\* An operation that meets one restart or one lapse ends with its outcome.
SurvivesOneTurnover ==
    setting = "turnover" /\ OneTurnover!Fairness => OneTurnover!SurvivesOneTurnover

\* A message is leased again until it has been acknowledged and handed over.
HandedInTime == setting = "acks kept" /\ SessionFairness => MessagesAreHanded

\* Every delivery a pump has accepted is resolved.
Resolved == setting = "one pump" /\ OnePump!Fairness => OnePump!Resolved

\* A plain removal that was begun ends with the installation removed.
PlainRemovalCompletes ==
    setting = "plain removal" /\ PlainRemoval!Fairness => PlainRemoval!PlainRemovalCompletes

\* A broker whose coordinator has ended ends by itself.
BrokersExit == setting = "stops" /\ BrokerFairness => OrphansExit

=============================================================================
