----------------------------- MODULE MCManaged ------------------------------
(***************************************************************************)
(* Instances of the managed installation for TLC: the install transaction, *)
(* the removal, and the supervision of the processes that both must        *)
(* respect.  As in MCClient a behaviour exercises one of them, in one      *)
(* setting, while the variables of the others keep their first values.     *)
(***************************************************************************)
EXTENDS Supervision, TLC

CONSTANTS Settings, g1, g2, g3, r1, r2, None

VARIABLES
    setting,
    disk, journal, job, undone, deferred, jobs, deaths, faults,
    rec, purgeJournal, data, files, enabled, pair, lock, run, stops, installs

installVars == <<disk, journal, job, undone, deferred, jobs, deaths, faults>>
removalVars == <<rec, purgeJournal, data, files, enabled, pair, lock, run, stops, installs>>
vars == <<setting, installVars, removalVars, supervisionVars>>

Updates == INSTANCE InstallTransaction WITH
    Gens <- {g1, g2, g3}, First <- g1, NoGen <- None, Installed <- {"None", "Ready", "Removed"},
    Offered <- {g2, g3}, MaxRetained <- 1, CleanupMayFail <- FALSE, Predecessor <- FALSE,
    MaxJobs <- 3, MaxDeaths <- 2, MaxFaults <- 1
Predecessors == INSTANCE InstallTransaction WITH
    Gens <- {g1, g2, g3}, First <- g1, NoGen <- None, Installed <- {},
    Offered <- {g2, g3}, MaxRetained <- 2, CleanupMayFail <- FALSE, Predecessor <- TRUE,
    MaxJobs <- 3, MaxDeaths <- 2, MaxFaults <- 0
Cleanups == INSTANCE InstallTransaction WITH
    Gens <- {g1, g2, g3}, First <- g1, NoGen <- None, Installed <- {"Ready"},
    Offered <- {g1, g2, g3}, MaxRetained <- 2, CleanupMayFail <- TRUE, Predecessor <- FALSE,
    MaxJobs <- 4, MaxDeaths <- 1, MaxFaults <- 1

Removal == INSTANCE ManagedRemoval WITH
    Removers <- {r1, r2}, Purges <- BOOLEAN, Copies <- TRUE, MaxStops <- 2, MaxWrites <- 1, MaxInstalls <- 1

\* Removers and coordinators are interchangeable.
ProcessSymmetry == Permutations(Coordinators) \cup Permutations({r1, r2})

ASSUME ManagedAssumption ==
    /\ Updates!InstallAssumption /\ Predecessors!InstallAssumption /\ Cleanups!InstallAssumption
    /\ Removal!RemovalAssumption
    /\ SupervisionAssumption

-----------------------------------------------------------------------------
Init ==
    /\ setting \in Settings
    /\ CASE setting = "predecessors" -> Predecessors!Init
         [] setting = "updates" -> Updates!Init
         [] OTHER -> Cleanups!Init
    /\ Removal!Init /\ (setting # "removal" => pair)
    /\ SupervisionInit

InstallNext ==
    /\ \/ setting = "updates" /\ Updates!Next
       \/ setting = "predecessors" /\ Predecessors!Next
       \/ setting = "cleanups" /\ Cleanups!Next
    /\ UNCHANGED <<setting, removalVars, supervisionVars>>

RemovalNext ==
    /\ setting = "removal" /\ Removal!Next
    /\ UNCHANGED <<setting, installVars, supervisionVars>>

ProcessNext ==
    /\ setting = "processes" /\ SupervisionNext
    /\ UNCHANGED <<setting, installVars, removalVars>>

Next == InstallNext \/ RemovalNext \/ ProcessNext

Spec == Init /\ [][Next]_vars

-----------------------------------------------------------------------------
(* The properties of the components, each in the settings it is about.     *)
(* OneBrokerOwnsTheStore and DrainLeavesNoPair are those of Supervision,   *)
(* whose variables do not move in other settings.                          *)

\* With no journal left and no command running, an installation is complete or
\* absent, whatever died or failed, the cleanup of a committed install
\* included, whichever release wrote the journal.
AllOrNothing ==
    /\ setting = "updates" => Updates!AllOrNothing
    /\ setting = "predecessors" => Predecessors!AllOrNothing
    /\ setting = "cleanups" => Cleanups!AllOrNothing

\* A journal left by a death in any phase is one the next command accepts.
EveryPhaseRecovers ==
    /\ setting = "updates" => Updates!EveryPhaseRecovers
    /\ setting = "predecessors" => Predecessors!EveryPhaseRecovers
    /\ setting = "cleanups" => Cleanups!EveryPhaseRecovers

\* Every step of the installer is one atomic change of the catalog, or none.
ImplementsCatalog == Cleanups!ImplementsCatalog

\* A purge interrupted with its tree intact or gone can be resumed.
PurgeResumable == setting = "removal" => Removal!PurgeResumable

=============================================================================
