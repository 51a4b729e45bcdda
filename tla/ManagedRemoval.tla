---- MODULE ManagedRemoval ----
(***************************************************************************)
(* `managed remove [--purge]` (remove_inner of managed.rs).                 *)
(*                                                                          *)
(* The command marks the installation as Removing, gives the install lock   *)
(* up while it drains the workspace processes, takes it again, removes the  *)
(* Pi entry, the owned files, with --purge the durable workspace data, then *)
(* unregisters the plugin from Herdr, removes the helper files that needs,  *)
(* and marks the installation Removed.  A purge keeps a journal.  A command *)
(* may fail or die before any of its steps and be run again; several        *)
(* commands may run at once; brokers write the data the purge deletes.      *)
(***************************************************************************)
EXTENDS Naturals

CONSTANTS Removers,   \* concurrent runs of the command
          Purges,     \* values of --purge the operator uses: a subset of BOOLEAN
          Copies,     \* the operator has the recorded binary in another place too
          MaxStops,   \* bound on failed or killed runs
          MaxWrites,  \* bound on the revisions brokers give the task database
          MaxInstalls,\* bound on installations after the first
          None

RemovalAssumption ==
    /\ Purges \subseteq BOOLEAN /\ Copies \in BOOLEAN
    /\ {MaxStops, MaxWrites, MaxInstalls} \subseteq Nat
    /\ None \notin Removers

VARIABLES
    rec,       \* state of the ownership record
    purgeJournal, \* removal-transaction.json, or NoJournal
    data,      \* the plugin state root: a set of <<file, revision>>, {} when absent
    files,     \* which owned things exist: "pi", "assets", "registries", and
               \* "helper": the stable binary, the dispatcher and its pointer
    enabled,   \* Herdr still lists the plugin
    pair,      \* a managed coordinator and broker are registered and alive
    lock,      \* holder of the install lock
    run,       \* run[r]: the progress and the memory of one command
    stops, installs

vars == <<rec, purgeJournal, data, files, enabled, pair, lock, run, stops, installs>>

NoJournal == [phase |-> "none", snap |-> {}, skip |-> FALSE]
Idle == [pc |-> "idle", purge |-> FALSE, skip |-> FALSE, seen |-> "Ready",
         txn |-> NoJournal, snap |-> {}]
Everything == {"pi", "assets", "helper", "registries"}

Interrupted == {"Removing", "UnregisterPending", "Unregistering", "FinalizingRemoval"}

\* Entries are told apart as the snapshot does, by identity and content: a root
\* made for a later installation is another root.
Root(n) == <<"root", n>>
Database(n) == <<"tasks", n>>
Kinds == {d[1] : d \in data}
Roots == {d \in data : d[1] = "root"}

Init ==
    /\ rec = "Ready"
    /\ purgeJournal = NoJournal
    /\ data = {Root(0), Database(0)}
    /\ files = Everything
    /\ enabled = TRUE
    /\ pair \in BOOLEAN
    /\ lock = None
    /\ run = [r \in Removers |-> Idle]
    /\ stops = 0
    /\ installs = 0

----------------------------------------------------------------------------
(* Admission                                                                *)

\* A purge whose tree is already gone is refused.
Admissible_Mutant(purge, skip) ==
    /\ rec # "Removed"
    /\ ~purge => purgeJournal = NoJournal
    /\ purge => data # {}
    /\ purge /\ purgeJournal # NoJournal => skip = purgeJournal.skip /\ data = purgeJournal.snap

\* Only a removal that had not begun to unregister is resumed.
Admissible_Fresh_Mutant(purge, skip) ==
    /\ rec \in {"Ready", "Removing"}
    /\ ~purge => purgeJournal = NoJournal
    /\ purge => data # {} /\ purgeJournal = NoJournal

\* validate_purge_root, for a purge that begins: the recorded root is there.
PurgeRootPresent == data # {}

\* validate_record_for_removal wants every owned file, validate_removal_inventory
\* takes those that are left.
Inventoried == rec \in Interrupted \/ {"assets", "helper"} \subseteq files

\* What remove_inner requires of the record, the owned files, the journal and
\* the data before it changes anything.
Admissible(purge, skip) ==
    /\ rec # "Removed"
    /\ Inventoried
    /\ ~purge => purgeJournal = NoJournal
    /\ purge /\ purgeJournal = NoJournal => PurgeRootPresent
    /\ purge /\ purgeJournal # NoJournal =>
          /\ skip = purgeJournal.skip
          /\ IF data = {} THEN purgeJournal.phase # "Intent"
             ELSE purgeJournal.phase # "Deleted" /\ data = purgeJournal.snap

\* validate_removal_executable can be met: the command is run from a binary with
\* the recorded digest, the installed one or a copy.
Executable == "helper" \in files \/ Copies

\* A purge that begins writes its journal.
Journaled(purge, skip) ==
    IF purge /\ purgeJournal = NoJournal
    THEN [phase |-> "Intent", snap |-> data, skip |-> skip] ELSE purgeJournal

\* Takes the install lock, admits the command and writes or reads the journal.
Admit(r, purge, skip) ==
    /\ run[r].pc = "idle"
    /\ lock = None
    /\ purge \in Purges
    /\ Admissible(purge, skip) /\ Executable
    /\ lock' = r
    /\ purgeJournal' = Journaled(purge, skip)
    /\ run' = [run EXCEPT ![r] = [pc |-> "admitted", purge |-> purge, skip |-> skip,
                                  seen |-> rec, txn |-> purgeJournal', snap |-> data]]
    /\ UNCHANGED <<rec, data, files, enabled, pair, stops, installs>>

\* Another binary is refused, after the journal of its purge has been written.
RefuseExecutable(purge, skip) ==
    /\ lock = None
    /\ purge \in Purges
    /\ Admissible(purge, skip)
    /\ purgeJournal' = Journaled(purge, skip)
    /\ UNCHANGED <<rec, data, files, enabled, pair, lock, run, stops, installs>>

Goes(r, from, to) ==
    /\ run[r].pc = from
    /\ run' = [run EXCEPT ![r].pc = to]

\* Records Removing, unless a removal is being resumed, reads the registries
\* and drops the install lock.
MarkRemoving(r) ==
    /\ run[r].pc = "admitted"
    /\ rec' = IF rec \in Interrupted THEN rec ELSE "Removing"
    /\ run' = [run EXCEPT ![r].pc = IF pair THEN "draining" ELSE "drained", ![r].seen = rec']
    /\ lock' = None
    /\ UNCHANGED <<purgeJournal, data, files, enabled, pair, stops, installs>>

\* drain_managed_processes returned: no registered pair is left.
Drain(r) ==
    /\ Goes(r, "draining", "drained")
    /\ pair' = FALSE
    /\ UNCHANGED <<rec, purgeJournal, data, files, enabled, lock, stops, installs>>

\* Takes the lock again; the record and the registries must be as expected.
Relock(r) ==
    /\ run[r].pc = "drained"
    /\ lock = None
    /\ IF rec = run[r].seen /\ ~pair
       THEN lock' = r /\ run' = [run EXCEPT ![r].pc = "pi"]
       ELSE lock' = lock /\ run' = [run EXCEPT ![r] = Idle]
    /\ UNCHANGED <<rec, purgeJournal, data, files, enabled, pair, stops, installs>>

----------------------------------------------------------------------------
(* Removal                                                                  *)

RemovePi(r) ==
    /\ Goes(r, "pi", "assets")
    /\ files' = files \ {"pi"}
    /\ UNCHANGED <<rec, purgeJournal, data, enabled, pair, lock, stops, installs>>

\* remove_recorded_assets_except(unregister_retained_paths): everything but the
\* stable binary, the dispatcher and its pointer.
RemoveAssets(r) ==
    /\ Goes(r, "assets", "registries")
    /\ files' = files \ {"assets"}
    /\ UNCHANGED <<rec, purgeJournal, data, enabled, pair, lock, stops, installs>>

\* The registries go; a purge that is not already past it deletes the data.
RemoveRegistries(r) ==
    /\ Goes(r, "registries",
            IF run[r].purge /\ run[r].txn.phase # "Deleted" THEN "authorize" ELSE "pending")
    /\ files' = files \ {"registries"}
    /\ UNCHANGED <<rec, purgeJournal, data, enabled, pair, lock, stops, installs>>

WritePhase(r, from, to, phase) ==
    /\ Goes(r, from, to)
    /\ purgeJournal' = [run[r].txn EXCEPT !.phase = phase]
    /\ UNCHANGED <<rec, data, files, enabled, pair, lock, stops, installs>>

AuthorizeDeletion(r) == WritePhase(r, "authorize", "delete", "Deleting")

\* validate_stage_snapshot_live
SnapshotLive(r) == data = run[r].snap

\* remove_exact_stage: the tree must be the one of the snapshot taken at
\* admission; files go before directories.  A tree that was absent then is
\* left alone.
DeleteFiles(r) ==
    /\ data = {} \/ run[r].snap = {} \/ SnapshotLive(r)
    /\ Goes(r, "delete", "deleteRoot")
    /\ data' = IF run[r].snap = {} THEN data ELSE Roots
    /\ UNCHANGED <<rec, purgeJournal, files, enabled, pair, lock, stops, installs>>

DeleteRoot(r) ==
    /\ Goes(r, "deleteRoot", "deleted")
    /\ data' = IF run[r].snap = {} THEN data ELSE {}
    /\ UNCHANGED <<rec, purgeJournal, files, enabled, pair, lock, stops, installs>>

RecordDeletion(r) == WritePhase(r, "deleted", "pending", "Deleted")

----------------------------------------------------------------------------
(* Unregistration                                                           *)

MarkPending(r) ==
    /\ Goes(r, "pending", "unregister")
    /\ rec' = IF rec = "Removing" THEN "UnregisterPending" ELSE rec
    /\ UNCHANGED <<purgeJournal, data, files, enabled, pair, lock, stops, installs>>

\* UnregisterPending: record Unregistering, then run Herdr.  Unregistering, left
\* by an earlier run: only look at what Herdr lists.
MarkUnregistering(r) ==
    /\ Goes(r, "unregister",
            CASE rec = "UnregisterPending" -> "external"
              [] rec = "Unregistering"     -> "observe"
              [] OTHER                     -> "final")
    /\ rec' = IF rec = "UnregisterPending" THEN "Unregistering" ELSE rec
    /\ UNCHANGED <<purgeJournal, data, files, enabled, pair, lock, stops, installs>>

\* `herdr plugin uninstall`, unless skipped; its own report decides nothing.
RunHerdr(r) ==
    /\ Goes(r, "external", "observe")
    /\ enabled' \in (IF run[r].skip THEN {enabled} ELSE {enabled, FALSE})
    /\ UNCHANGED <<rec, purgeJournal, data, files, pair, lock, stops, installs>>

\* reconcile_unregistering: `herdr plugin list` decides.
Observe(r) ==
    /\ run[r].pc = "observe"
    /\ rec' = IF enabled THEN "UnregisterPending" ELSE "FinalizingRemoval"
    /\ run' = [run EXCEPT ![r] = IF enabled THEN Idle ELSE [@ EXCEPT !.pc = "final"]]
    /\ lock' = IF enabled THEN None ELSE lock
    /\ UNCHANGED <<purgeJournal, data, files, enabled, pair, stops, installs>>

RemoveHelper(r) ==
    /\ Goes(r, "final", "record")
    /\ files' = files \ {"assets", "helper"}
    /\ UNCHANGED <<rec, purgeJournal, data, enabled, pair, lock, stops, installs>>

MarkRemoved(r) ==
    /\ Goes(r, "record", "clear")
    /\ rec' = "Removed"
    /\ UNCHANGED <<purgeJournal, data, files, enabled, pair, lock, stops, installs>>

Finish(r) ==
    /\ run[r].pc = "clear"
    /\ purgeJournal' = IF run[r].purge THEN NoJournal ELSE purgeJournal
    /\ run' = [run EXCEPT ![r] = Idle]
    /\ lock' = None
    /\ UNCHANGED <<rec, data, files, enabled, pair, stops, installs>>

Step(r) ==
    \/ MarkRemoving(r) \/ Drain(r) \/ Relock(r) \/ RemovePi(r) \/ RemoveAssets(r)
    \/ RemoveRegistries(r) \/ AuthorizeDeletion(r) \/ DeleteFiles(r) \/ DeleteRoot(r)
    \/ RecordDeletion(r) \/ MarkPending(r) \/ MarkUnregistering(r) \/ RunHerdr(r)
    \/ Observe(r) \/ RemoveHelper(r) \/ MarkRemoved(r) \/ Finish(r)

----------------------------------------------------------------------------
(* Faults, the operator's other commands, and the brokers                   *)

\* The command fails at its next step, or its process dies.
Abandon(r) ==
    /\ run[r].pc # "idle"
    /\ stops < MaxStops
    /\ stops' = stops + 1
    /\ run' = [run EXCEPT ![r] = Idle]
    /\ lock' = IF lock = r THEN None ELSE lock
    /\ UNCHANGED <<rec, purgeJournal, data, files, enabled, pair, installs>>

\* A purge whose tree differs from its snapshot stops with an error.
RefuseDeletion(r) ==
    /\ run[r].pc = "delete"
    /\ data \notin {{}, run[r].snap}
    /\ run[r].snap # {}
    /\ run' = [run EXCEPT ![r] = Idle]
    /\ lock' = None
    /\ UNCHANGED <<rec, purgeJournal, data, files, enabled, pair, stops, installs>>

\* The operator unregisters the plugin, as --skip-herdr-unregister expects.
UnregisterByHand ==
    /\ rec \in {"UnregisterPending", "Unregistering"}
    /\ enabled
    /\ enabled' = FALSE
    /\ UNCHANGED <<rec, purgeJournal, data, files, pair, lock, run, stops, installs>>

\* A reinstallation over a removed record (see InstallTransaction); it makes the
\* plugin state root again and does not look for a removal journal.
Reinstall ==
    /\ rec = "Removed"
    /\ lock = None
    /\ installs < MaxInstalls
    /\ installs' = installs + 1
    /\ rec' = "Ready"
    /\ files' = Everything
    /\ enabled' = TRUE
    /\ data' = IF data = {} THEN {Root(installs')} ELSE data
    /\ UNCHANGED <<purgeJournal, pair, lock, run, stops>>

\* A workspace starts its broker, which creates its database if need be: the
\* reservation is granted only by a Ready record (see Supervision).
StartBroker ==
    /\ rec = "Ready"
    /\ lock = None
    /\ ~pair
    /\ pair' = TRUE
    /\ data' = IF Kinds = {"root"} THEN data \cup {Database(0)} ELSE data
    /\ UNCHANGED <<rec, purgeJournal, files, enabled, lock, run, stops, installs>>

\* A live broker commits to its database.
BrokerWrites ==
    /\ pair
    /\ \E n \in 0 .. MaxWrites - 1 :
          Database(n) \in data /\ data' = Roots \cup {Database(n + 1)}
    /\ UNCHANGED <<rec, purgeJournal, files, enabled, pair, lock, run, stops, installs>>

Next ==
    \/ \E r \in Removers :
          \/ \E purge, skip \in BOOLEAN : Admit(r, purge, skip)
          \/ Step(r) \/ Abandon(r) \/ RefuseDeletion(r)
    \/ \E purge, skip \in BOOLEAN : RefuseExecutable(purge, skip)
    \/ UnregisterByHand \/ Reinstall \/ StartBroker \/ BrokerWrites

Spec == Init /\ [][Next]_vars

\* A command that runs is scheduled, the operator repeats an interrupted plain
\* removal, and unregisters by hand what Herdr keeps.
Fairness ==
    /\ \A r \in Removers : WF_vars(Step(r))
    /\ SF_vars(\E r \in Removers : rec \in Interrupted /\ Admit(r, FALSE, FALSE))
    /\ WF_vars(UnregisterByHand)

----------------------------------------------------------------------------
(* Properties                                                               *)

\* A purge interrupted with its tree intact or entirely deleted can be resumed
\* with the same flags, from whatever phase its journal is in, and by the
\* installed binary until the helper files are what remains to be removed.
PurgeResumable ==
    (/\ purgeJournal # NoJournal
     /\ rec \in Interrupted
     /\ \A r \in Removers : run[r].pc = "idle"
     /\ data \in {{}, purgeJournal.snap})
        => /\ Admissible(TRUE, purgeJournal.skip)
           /\ rec # "FinalizingRemoval" => "helper" \in files

\* A plain removal that was begun ends with the installation removed, however
\* many times it fails or dies on the way, if the operator has a copy of the
\* binary to finish it with.
PlainRemovalCompletes == (rec \in Interrupted) ~> (rec \notin Interrupted)
====
