------------------------- MODULE InstallTransaction -------------------------
(***************************************************************************)
(* The managed installer (herdr-a2a-cli/src/managed.rs): install, repair   *)
(* and status over one stable root.  Every file operation is a step, a     *)
(* process can die before any of them, and the next command reads the      *)
(* install journal and either finishes the transaction or undoes it.       *)
(*                                                                         *)
(* A generation (binary and Pi package, named by their digests) is a model *)
(* value; a file that belongs to a generation is named by it.  The install *)
(* lock admits one process at a time, so there is one job.                 *)
(***************************************************************************)
EXTENDS Naturals, FiniteSets

CONSTANTS Gens,            \* the bundles that may be installed
          First,           \* the generation an earlier install has left
          NoGen,           \* an absent file
          Installed,       \* states of the ownership record at the start
          Offered,         \* bundles the user installs
          MaxRetained,     \* MAX_RETAINED_GENERATIONS
          CleanupMayFail,  \* swap.commit() may report an I/O error
          Predecessor,     \* start from a journal of the earlier schema
          MaxJobs, MaxDeaths, MaxFaults

InstallAssumption ==
  /\ First \in Gens /\ Offered \subseteq Gens /\ NoGen \notin Gens
  /\ MaxRetained \in Nat \ {0}

VARIABLES disk,     \* every file the installer owns, and the Pi settings
          journal,  \* install-transaction.json
          job,      \* the running command: program counter and its inputs
          undone,   \* recovery has already restored more than the record
          deferred, \* the cleanup after a committed install was given up
          jobs, deaths, faults

vars == <<disk, journal, job, undone, deferred, jobs, deaths, faults>>

Assets == {"helper", "pointer"}
NoRecord == [gen |-> NoGen, state |-> "None", retained |-> {}]
NoJournal == [phase |-> "None"]
NoStage == {"absent"}      \* the plugin stage: absent, being built, or its files
Building == {"partial"}
Nowhere == [a \in Assets |-> NoGen]
Of(g) == [a \in Assets |-> g]

Live(r) == r.state \notin {"None", "Removed"}
Prior(j) == IF Live(j.prior) THEN j.prior.gen ELSE NoGen

BeforePlugin == {"Intent", "GenerationPublishing", "GenerationPublished"}
Swapping == {"PluginPublishing", "PluginBackingUpHelper", "PluginBackingUpPointer",
             "PluginPublishingHelper", "PluginPublishingPointer"}
WithRecord == {"RescuePublishing", "RecordCommitting", "RecordRenaming", "RecordCommitted"}
Phases == BeforePlugin \cup Swapping \cup {"PluginPublished", "PiMutating", "PiMutated"}
          \cup WithRecord

(***************************************************************************)
(* Records                                                                 *)
(***************************************************************************)

\* A bug retain_prior_generation_authorizations could have: the replaced generation is forgotten.
NewRecord_Mutant(prior, g, state, replacing) ==
  [gen |-> g, state |-> state, retained |-> IF Live(prior) THEN prior.retained ELSE {}]

NewRecord(prior, g, state, replacing) ==
  [gen |-> g, state |-> state,
   retained |-> IF ~Live(prior) THEN {}
                ELSE prior.retained \cup (IF replacing THEN {prior.gen} ELSE {})]

Catalog(r) ==
  /\ Cardinality(r.retained) <= MaxRetained
  /\ r.gen \notin r.retained
  /\ r.retained \subseteq disk.gens

\* validate_record but for the helper and the pointer.
StableRootValid(r) ==
  /\ Catalog(r)
  /\ r.gen \in disk.gens
  /\ disk.notice = r.gen /\ disk.marker = r.gen

RecordValid(r) == StableRootValid(r) /\ disk.live = Of(r.gen)

RemovedValid(r) ==
  /\ ({r.gen} \cup r.retained) \cap disk.gens = {}
  /\ disk.live = Nowhere /\ disk.notice = NoGen /\ disk.marker = NoGen /\ ~disk.temp
  /\ r.gen \notin disk.pi

PriorProved(j) ==
  CASE j.prior.state = "Removed" -> RemovedValid(j.prior)
    [] j.prior.state = "None" -> disk.record = NoRecord /\ disk.live = Nowhere
    [] OTHER -> RecordValid(j.prior)

(***************************************************************************)
(* What recovery accepts: validate_transaction_semantics and the four      *)
(* checks of the live state.                                               *)
(***************************************************************************)

\* An older journal with a complete new record is completed, not undone.
Forward(j) == j.legacy /\ j.phase = "RecordCommitting" /\ Live(j.prior) /\ ~j.rescueKept

GenerationRecorded(j) ==
  CASE j.phase = "Intent" -> ~j.genSnap
    [] j.phase = "GenerationPublishing" /\ j.created -> TRUE
    [] OTHER -> j.genSnap = j.created

PluginStageRecorded(j) ==
  j.stageSnap \in (CASE j.phase \in BeforePlugin -> {"none"}
                     [] j.phase \in Swapping -> {"none", "full"}
                     [] OTHER -> {"none", "residual"})

RescueRecorded(j) ==
  /\ j.phase \in WithRecord <=> j.new # NoRecord
  /\ j.rescueKept => Live(j.prior) /\ j.phase \in WithRecord
  /\ j.phase = "RescuePublishing" /\ Live(j.prior) => j.rescueKept

OwnershipRecorded(j) ==
  /\ j.newSnaps <=> j.phase \notin BeforePlugin \cup Swapping
  /\ j.owned = Prior(j)
  /\ j.owned # NoGen => j.owned \in j.pi
  /\ j.new # NoRecord => j.new.gen = j.gen

JournalExact(j) ==
  GenerationRecorded(j) /\ PluginStageRecorded(j) /\ RescueRecorded(j) /\ OwnershipRecorded(j)

LiveRecordState(j) ==
  CASE j.phase = "RecordCommitted" -> disk.record = j.new
    [] j.phase = "RecordRenaming" \/ Forward(j) -> disk.record \in {j.prior, j.new}
    [] OTHER -> disk.record = j.prior

PriorGenerationState(j) ==
  IF Live(j.prior)
  THEN \/ j.prior.gen \in disk.gens
       \/ j.prior.gen # j.gen /\ j.phase = "RecordCommitted"
  ELSE j.prior.state = "Removed" =>
         j.prior.gen \notin disk.gens \/ j.prior.gen = j.gen

LiveGenerationState(j) ==
  /\ IF disk.genStage # "none"
     THEN /\ j.genSnap /\ disk.genStage = "full"
          /\ j.phase = "GenerationPublishing" /\ j.gen \notin disk.gens
     ELSE \/ j.gen \in disk.gens
          \/ j.created /\ j.phase \in {"Intent", "GenerationPublishing"}
  /\ PriorGenerationState(j)

\* The swap has set aside the files of back and published those of pub.
Moved(j, back, pub) ==
  /\ disk.live = [a \in Assets |-> IF a \in pub THEN j.gen
                                   ELSE IF a \in back THEN NoGen ELSE Prior(j)]
  /\ disk.backup = [a \in Assets |-> IF a \in back THEN Prior(j) ELSE NoGen]
  /\ j.stageSnap = "full" /\ disk.plugStage = Assets \ pub

PriorTargets(j) == disk.live = Of(Prior(j)) /\ disk.backup = Nowhere

Published(j) ==
  /\ j.newSnaps
  /\ disk.live = Of(j.gen) /\ disk.backup = Of(Prior(j))
  /\ disk.plugStage = IF j.stageSnap = "none" THEN NoStage ELSE {}

CommittedAssets(j) ==
  /\ j.newSnaps
  /\ disk.live = Of(j.gen)
  /\ \A a \in Assets : disk.backup[a] \in {NoGen, Prior(j)}
  /\ disk.plugStage = NoStage \/ (j.stageSnap # "none" /\ disk.plugStage = {})

LivePluginState(j) ==
  CASE j.phase \in BeforePlugin -> PriorTargets(j) /\ disk.plugStage = NoStage
    [] j.phase = "PluginPublishing" ->
         \/ j.stageSnap = "none" /\ disk.plugStage = NoStage /\ PriorTargets(j)
         \/ Moved(j, {}, {})
    [] j.phase = "PluginBackingUpHelper" -> Moved(j, {}, {}) \/ Moved(j, {"helper"}, {})
    [] j.phase = "PluginBackingUpPointer" -> Moved(j, {"helper"}, {}) \/ Moved(j, Assets, {})
    [] j.phase = "PluginPublishingHelper" -> Moved(j, Assets, {}) \/ Moved(j, Assets, {"helper"})
    [] j.phase = "PluginPublishingPointer" ->
         Moved(j, Assets, {"helper"}) \/ Moved(j, Assets, Assets)
    [] j.phase = "RecordCommitted" -> CommittedAssets(j)
    [] OTHER -> Published(j)

PostPi(j) == (j.pi \ (IF j.owned # j.gen THEN {j.owned} ELSE {})) \cup {j.gen}

LivePiState(j) ==
  CASE j.phase = "PiMutating" -> disk.pi \in {j.pi, j.pi \cup {j.gen}, PostPi(j)}
    [] j.phase = "PiMutated" -> disk.pi = PostPi(j)
    [] j.phase \in WithRecord ->
         IF j.new.state = "Ready" THEN disk.pi = PostPi(j) ELSE disk.pi = j.pi
    [] OTHER -> disk.pi = j.pi

\* A bug the phase check could have: the crash after the record's rename is not expected.
Recoverable_Mutant(j) ==
  /\ JournalExact(j) /\ (j.phase = "RecordRenaming" => disk.record = j.prior) /\ LiveRecordState(j)
  /\ LiveGenerationState(j) /\ LivePluginState(j) /\ LivePiState(j)

Recoverable(j) ==
  /\ JournalExact(j) /\ LiveRecordState(j)
  /\ LiveGenerationState(j) /\ LivePluginState(j) /\ LivePiState(j)

(***************************************************************************)
(* The job                                                                 *)
(***************************************************************************)

Idle == [pc |-> "idle", kind |-> "none", gen |-> NoGen, pi |-> FALSE]
Go(pc) == job' = [job EXCEPT !.pc = pc]
Resume == job' = CASE job.kind = "install" -> [job EXCEPT !.pc = "prior"]
                   [] job.kind = "repair" -> [job EXCEPT !.pc = "repair"]
                   [] OTHER -> Idle
Steady == UNCHANGED <<deferred, jobs, deaths, faults>>

\* A command takes the install lock and reconciles first; pi says whether Pi is on the path.
Start(kind, g, p) ==
  /\ job = Idle /\ jobs < MaxJobs
  /\ job' = [pc |-> "reconcile", kind |-> kind, gen |-> g, pi |-> p]
  /\ jobs' = jobs + 1
  /\ UNCHANGED <<disk, journal, undone, deferred, deaths, faults>>

\* The process dies: only the files remain, and the lock is free again.
Die ==
  /\ job # Idle /\ deaths < MaxDeaths
  /\ job' = Idle /\ deaths' = deaths + 1
  /\ UNCHANGED <<disk, journal, undone, deferred, jobs, faults>>

(***************************************************************************)
(* reconcile_transaction                                                   *)
(***************************************************************************)

\* The inventory of the rescue directory is exact, or only its two files are looked at.
PublishedNew(j) == disk.notice = j.gen /\ disk.marker = j.gen /\ ~disk.temp
RescueRestored(j) == disk.notice = j.prior.gen /\ disk.marker = j.prior.gen
LivePrior(j) == RescueRestored(j) /\ ~disk.temp

\* A journal of the earlier schema whose rescue files may be the new ones already.
PredecessorPi(j) == j.legacy /\ j.phase = "PiMutating" /\ Live(j.prior)

\* A journal of the earlier schema at PiMutated whose rescue files are already the new ones
\* gets its record built and is completed; an ambiguous one is refused.
PredecessorPending(j) == j.legacy /\ j.phase = "PiMutated" /\ j.prior # NoRecord
PredecessorRecord(j) == NewRecord(j.prior, j.gen, "Ready", TRUE)

Refused(j) ==
  \/ ~Recoverable(j)
  \/ PredecessorPending(j) /\ (PublishedNew(j) <=> LivePrior(j))
  \/ PredecessorPending(j) /\ PublishedNew(j) /\ ~(Live(j.prior) /\ RecordValid(PredecessorRecord(j)))
  \/ Forward(j) /\ ~(RecordValid(j.new) /\ j.new.gen \in disk.pi)
  \/ j.phase = "RecordCommitted" /\ ~RecordValid(j.new)

ReadTransaction ==
  /\ job.pc = "reconcile"
  /\ \/ /\ journal = NoJournal
        /\ Resume /\ UNCHANGED journal
     \/ /\ journal # NoJournal /\ Refused(journal)
        /\ job' = Idle /\ UNCHANGED journal
     \/ /\ journal # NoJournal /\ ~Refused(journal)
        /\ IF PredecessorPending(journal) /\ PublishedNew(journal)
           THEN journal' = [journal EXCEPT !.phase = "RecordCommitting",
                                           !.new = PredecessorRecord(journal)]
           ELSE journal' = journal
        /\ Go(CASE Forward(journal') -> "forwardRecord"
                [] journal'.phase = "RecordCommitted" -> "cleanHelper"
                [] PredecessorPi(journal') -> "restoreRescue"
                [] OTHER -> "undoRecord")
  /\ UNCHANGED <<disk, undone>> /\ Steady

ForwardRecord ==
  /\ job.pc = "forwardRecord"
  /\ disk' = [disk EXCEPT !.record = journal.new]
  /\ Go("forwardPhase")
  /\ UNCHANGED <<journal, undone>> /\ Steady

ForwardPhase ==
  /\ job.pc = "forwardPhase"
  /\ journal' = [journal EXCEPT !.phase = "RecordCommitted"]
  /\ Go("cleanHelper")
  /\ UNCHANGED <<disk, undone>> /\ Steady

\* One restoring step: undone records that it changed something.
Undo(pc, d, next) ==
  /\ job.pc = pc
  /\ disk' = d
  /\ undone' = (undone \/ d # disk)
  /\ Go(next)
  /\ UNCHANGED journal /\ Steady

\* Recovery reports an error and leaves the journal for the next command.
GiveUp(pc) ==
  /\ job.pc = pc
  /\ job' = Idle
  /\ UNCHANGED <<disk, journal, undone>> /\ Steady

\* restore_predecessor_pi_mutating_rescue comes before everything else.
RestorePredecessorRescue ==
  /\ job.pc = "restoreRescue"
  /\ \/ /\ RescueRestored(journal)
        /\ Undo("restoreRescue", disk, "undoRecord")
     \/ /\ ~RescueRestored(journal) /\ PublishedNew(journal)
        /\ Undo("restoreRescue", [disk EXCEPT !.temp = TRUE], "undoNotice")
     \/ /\ ~RescueRestored(journal) /\ ~PublishedNew(journal)
        /\ GiveUp("restoreRescue")

UndoRecord ==
  /\ job.pc = "undoRecord"
  /\ disk' = [disk EXCEPT !.record = journal.prior]
  /\ Go("undoPi")
  /\ UNCHANGED <<journal, undone>> /\ Steady

UndoPi ==
  /\ job.pc = "undoPi"
  /\ \/ /\ disk.pi = journal.pi
        /\ Undo("undoPi", disk, "undoHelper")
     \/ /\ disk.pi # journal.pi /\ job.pi
        /\ Undo("undoPi", [disk EXCEPT !.pi = IF journal.gen \in journal.pi THEN @
                                              ELSE @ \ {journal.gen}], "undoPiOwned")
     \/ /\ disk.pi # journal.pi /\ ~job.pi
        /\ GiveUp("undoPi")

UndoPiOwned ==
  Undo("undoPiOwned", [disk EXCEPT !.pi = @ \cup ({journal.owned} \ {NoGen})], "undoHelper")

UndoPc(a) == IF a = "helper" THEN "undoHelper" ELSE "undoPointer"
AfterUndo(a) == IF a = "helper" THEN "undoPointer" ELSE "undoStages"

\* Remove the published file, then rename the backup over it; without a backup a first install
\* removes its own file and an untouched prior file stays.
UndoAsset(a) ==
  /\ job.pc = UndoPc(a)
  /\ \/ /\ disk.backup[a] # NoGen /\ disk.live[a] # NoGen
        /\ Undo(UndoPc(a), [disk EXCEPT !.live[a] = NoGen], UndoPc(a))
     \/ /\ disk.backup[a] # NoGen /\ disk.live[a] = NoGen
        /\ Undo(UndoPc(a), [disk EXCEPT !.live[a] = disk.backup[a], !.backup[a] = NoGen], AfterUndo(a))
     \/ /\ disk.backup[a] = NoGen
        /\ Undo(UndoPc(a), IF Live(journal.prior) THEN disk ELSE [disk EXCEPT !.live[a] = NoGen],
                AfterUndo(a))

UndoStages ==
  Undo("undoStages", [disk EXCEPT !.plugStage = NoStage, !.genStage = "none"], "undoRescue")

\* restore_prior_rescue_assets.  Without a new record the rescue files are untouched, or have been
\* restored by the first step; otherwise a first install removes them, an update puts them back.
UndoRescue ==
  /\ job.pc = "undoRescue"
  /\ \/ /\ journal.new = NoRecord
        /\ Undo("undoRescue", disk, "undoGeneration")
     \/ /\ journal.new # NoRecord /\ disk.temp
        /\ GiveUp("undoRescue")
     \/ /\ journal.new # NoRecord /\ ~disk.temp /\ Live(journal.prior)
        /\ IF RescueRestored(journal) THEN Undo("undoRescue", disk, "undoGeneration")
           ELSE Undo("undoRescue", [disk EXCEPT !.temp = TRUE], "undoNotice")
     \/ /\ journal.new # NoRecord /\ ~disk.temp /\ ~Live(journal.prior)
        /\ Undo("undoRescue", [disk EXCEPT !.marker = NoGen], "removeNotice")

RemoveNotice == Undo("removeNotice", [disk EXCEPT !.notice = NoGen], "undoGeneration")

\* replace_owned_bytes of the notice and of the marker: a temporary file, then its rename.
ReplaceRescue ==
  \/ Undo("undoNotice", [disk EXCEPT !.temp = FALSE, !.notice = journal.prior.gen], "undoMarkerTemp")
  \/ Undo("undoMarkerTemp", [disk EXCEPT !.temp = TRUE], "undoMarker")
  \/ Undo("undoMarker", [disk EXCEPT !.temp = FALSE, !.marker = journal.prior.gen],
          IF PredecessorPi(journal) THEN "undoRecord" ELSE "undoGeneration")

UndoGeneration ==
  Undo("undoGeneration", [disk EXCEPT !.gens = IF journal.created THEN @ \ {journal.gen} ELSE @],
       "prove")

ProvePriorState ==
  /\ job.pc = "prove"
  /\ \/ PriorProved(journal) /\ Undo("prove", disk, "clear")
     \/ ~PriorProved(journal) /\ GiveUp("prove")

\* Committed: remove the backups, the empty stage and a generation nobody retains.
CleanBackup(pc, a, next) ==
  /\ job.pc = pc
  /\ disk' = [disk EXCEPT !.backup[a] = NoGen]
  /\ Go(next)
  /\ UNCHANGED <<journal, undone>> /\ Steady

CleanStage ==
  /\ job.pc = "cleanStage"
  /\ disk' = [disk EXCEPT !.plugStage = NoStage,
                !.gens = IF Live(journal.prior)
                         THEN @ \ ({journal.prior.gen} \ ({journal.new.gen} \cup journal.new.retained))
                         ELSE @]
  /\ Go("clear")
  /\ UNCHANGED <<journal, undone>> /\ Steady

ClearTransaction ==
  /\ job.pc = "clear"
  /\ journal' = NoJournal /\ undone' = FALSE
  /\ Resume
  /\ UNCHANGED disk /\ Steady

(***************************************************************************)
(* install_inner                                                           *)
(***************************************************************************)

\* reconcile_interrupted_file: a backup of another generation is ambiguous, a file that is not the
\* recorded one needs a backup.
FileRefused(a, r) ==
  \/ disk.backup[a] \notin {NoGen, r.gen}
  \/ disk.live[a] # r.gen /\ disk.backup[a] = NoGen

\* The helper is reconciled first, then the pointer; the stage is only looked for.
SwapReconciled(r) ==
  LET settled == {a \in Assets : ~FileRefused(a, r) /\ ~FileRefused("helper", r)}
  IN [disk EXCEPT !.live = [a \in Assets |-> IF a \in settled THEN r.gen ELSE @[a]],
                  !.backup = [a \in Assets |-> IF a \in settled THEN NoGen ELSE @[a]]]

SwapRefused(r) == (\E a \in Assets : FileRefused(a, r)) \/ disk.plugStage # NoStage

PriorAccepted(r) ==
  /\ disk.genStage = "none"
  /\ CASE r.state = "None" -> disk.live = Nowhere
       [] r.state = "Removed" -> RemovedValid(r)
       [] OTHER -> RecordValid(r) /\ ~SwapRefused(r)

Replacing == Live(disk.record) /\ disk.record.gen # job.gen

HasCapacity(r) == Cardinality(r.retained) < MaxRetained

ReadPrior ==
  /\ job.pc = "prior"
  /\ disk' = IF Live(disk.record) /\ RecordValid(disk.record) THEN SwapReconciled(disk.record) ELSE disk
  /\ \/ PriorAccepted(disk.record) /\ (Replacing => HasCapacity(disk.record)) /\ Go("Intent")
     \/ ~PriorAccepted(disk.record) /\ job' = Idle
     \/ PriorAccepted(disk.record) /\ Replacing /\ ~HasCapacity(disk.record) /\ job' = Idle
  /\ UNCHANGED <<journal, undone>> /\ Steady

WriteIntent ==
  /\ job.pc = "Intent"
  /\ journal' = [phase |-> "Intent", prior |-> disk.record, new |-> NoRecord, gen |-> job.gen,
                 created |-> job.gen \notin disk.gens, genSnap |-> FALSE, stageSnap |-> "none",
                 newSnaps |-> FALSE, rescueKept |-> FALSE, pi |-> disk.pi,
                 owned |-> IF Live(disk.record) THEN disk.record.gen ELSE NoGen,
                 legacy |-> FALSE]
  /\ Go("GenerationPublishing")
  /\ UNCHANGED <<disk, undone>> /\ Steady

SameAssets == Live(journal.prior) /\ journal.prior.gen = journal.gen

AfterPhase(p) ==
  CASE p = "GenerationPublishing" ->
         IF journal.gen \in disk.gens THEN "GenerationPublished" ELSE "makeStage"
    [] p = "GenerationPublished" -> "PluginPublishing"
    [] p = "PluginPublishing" -> IF SameAssets THEN "PluginPublished" ELSE "stagePlugin"
    [] p = "PluginBackingUpHelper" -> "backHelper"
    [] p = "PluginBackingUpPointer" -> "backPointer"
    [] p = "PluginPublishingHelper" -> "publishHelper"
    [] p = "PluginPublishingPointer" -> "publishPointer"
    [] p = "PluginPublished" -> IF job.pi THEN "PiMutating" ELSE "RescuePublishing"
    [] p = "PiMutating" -> "addPi"
    [] p = "PiMutated" -> "RescuePublishing"
    [] p = "RescuePublishing" -> "noticeTemp"
    [] p = "RecordCommitting" -> "RecordRenaming"
    [] p = "RecordRenaming" -> "writeRecord"
    [] p = "RecordCommitted" -> IF SameAssets THEN "finish" ELSE "commitHelper"

\* Each phase is on disk before the operation it names.
WritePhase(p) ==
  /\ job.pc = p
  /\ journal' = [journal EXCEPT
       !.phase = p,
       !.newSnaps = @ \/ p = "PluginPublished",
       !.stageSnap = IF p = "PluginPublished" /\ ~SameAssets THEN "residual" ELSE @,
       !.new = IF p # "RescuePublishing" THEN @
               ELSE NewRecord(journal.prior, journal.gen, IF job.pi THEN "Ready" ELSE "PiAdapterPending",
                              journal.prior.gen # journal.gen),
       !.rescueKept = @ \/ (p = "RescuePublishing" /\ Live(journal.prior))]
  /\ Go(AfterPhase(p))
  /\ UNCHANGED <<disk, undone>> /\ Steady

\* One file operation of the install.
Write(pc, d, next) ==
  /\ job.pc = pc
  /\ disk' = d
  /\ Go(next)
  /\ UNCHANGED <<journal, undone>> /\ Steady

Seal(pc, j, next) ==
  /\ job.pc = pc
  /\ journal' = j
  /\ Go(next)
  /\ UNCHANGED <<disk, undone>> /\ Steady

PrepareGeneration ==
  \/ Write("makeStage", [disk EXCEPT !.genStage = "partial"], "copyStage")
  \/ Write("copyStage", [disk EXCEPT !.genStage = "full"], "sealStage")
  \/ Seal("sealStage", [journal EXCEPT !.genSnap = TRUE], "renameStage")
  \/ Write("renameStage", [disk EXCEPT !.genStage = "none", !.gens = @ \cup {journal.gen}],
           "GenerationPublished")

InstallPluginAssets ==
  \/ Write("stagePlugin", [disk EXCEPT !.plugStage = Building], "fillPlugin")
  \/ Write("fillPlugin", [disk EXCEPT !.plugStage = Assets], "sealPlugin")
  \/ Seal("sealPlugin", [journal EXCEPT !.stageSnap = "full"], "PluginBackingUpHelper")
  \/ Write("backHelper", [disk EXCEPT !.backup["helper"] = disk.live["helper"], !.live["helper"] = NoGen],
           "PluginBackingUpPointer")
  \/ Write("backPointer", [disk EXCEPT !.backup["pointer"] = disk.live["pointer"], !.live["pointer"] = NoGen],
           "PluginPublishingHelper")
  \/ Write("publishHelper", [disk EXCEPT !.live["helper"] = journal.gen, !.plugStage = @ \ {"helper"}],
           "PluginPublishingPointer")
  \/ Write("publishPointer", [disk EXCEPT !.live["pointer"] = journal.gen, !.plugStage = @ \ {"pointer"}],
           "PluginPublished")

\* pi install of the new source, then pi remove of the one it replaces.
ConfigureInstallPi ==
  \/ Write("addPi", [disk EXCEPT !.pi = @ \cup {journal.gen}], "removePi")
  \/ Write("removePi", [disk EXCEPT !.pi = IF journal.prior.gen = journal.gen THEN @
                                           ELSE @ \ {journal.prior.gen}], "PiMutated")

\* replace_owned_bytes: a temporary file in the rescue directory, then the rename.
PublishRescueAssets ==
  \/ Write("noticeTemp", [disk EXCEPT !.temp = TRUE], "notice")
  \/ Write("notice", [disk EXCEPT !.temp = FALSE, !.notice = journal.gen], "markerTemp")
  \/ Write("markerTemp", [disk EXCEPT !.temp = TRUE], "marker")
  \/ Write("marker", [disk EXCEPT !.temp = FALSE, !.marker = journal.gen], "RecordCommitting")

\* write_record renames the record into place and then validates what it wrote.
WriteRecord ==
  /\ job.pc = "writeRecord"
  /\ disk' = [disk EXCEPT !.record = journal.new]
  /\ IF Catalog(journal.new) THEN Go("RecordCommitted")
     ELSE job' = [job EXCEPT !.pc = "reconcile", !.kind = "rollback"]
  /\ UNCHANGED <<journal, undone>> /\ Steady

\* A bug PluginSwap::commit could have: the emptied stage directory stays.
CommitStage_Mutant ==
  Write("commitStage", disk, "finish")

CommitStage ==
  Write("commitStage", [disk EXCEPT !.plugStage = NoStage], "finish")

\* A backup or the stage cannot be removed: the install prints "deferred backup cleanup" and goes
\* on to clear its journal.
CommitFails ==
  /\ CleanupMayFail
  /\ job.pc \in {"commitHelper", "commitPointer", "commitStage"}
  /\ deferred' = TRUE
  /\ Go("finish")
  /\ UNCHANGED <<disk, journal, undone, jobs, deaths, faults>>

Finish ==
  /\ job.pc = "finish"
  /\ journal' = NoJournal /\ undone' = FALSE
  /\ job' = Idle
  /\ UNCHANGED disk /\ Steady

InTransaction ==
  (Phases \ {"Intent"}) \cup
  {"makeStage", "copyStage", "sealStage", "renameStage", "stagePlugin", "fillPlugin", "sealPlugin",
   "backHelper", "backPointer", "publishHelper", "publishPointer", "addPi", "removePi",
   "noticeTemp", "notice", "markerTemp", "marker", "writeRecord"}

\* An operation fails: the installer rolls back in the same process (rollback_transaction_error).
\* prepare_generation and install_plugin_assets first try to remove the stage they sealed.
Fail ==
  /\ job.pc \in InTransaction /\ faults < MaxFaults
  /\ faults' = faults + 1
  /\ job' = [job EXCEPT !.pc = "reconcile", !.kind = "rollback"]
  /\ disk' \in {disk} \cup
       (IF job.pc \in {"copyStage", "sealStage", "renameStage"}
        THEN {[disk EXCEPT !.genStage = "none"]}
        ELSE IF job.pc = "sealPlugin" THEN {[disk EXCEPT !.plugStage = NoStage]} ELSE {})
  /\ UNCHANGED <<journal, undone, deferred, jobs, deaths>>

(***************************************************************************)
(* repair_inner, after its reconciliation                                  *)
(***************************************************************************)

Repair ==
  /\ job.pc = "repair"
  /\ LET r == disk.record IN
     \/ /\ ~Live(r)
        /\ job' = Idle /\ UNCHANGED disk
     \/ /\ Live(r) /\ SwapRefused(r)
        /\ job' = Idle /\ disk' = SwapReconciled(r)
     \/ /\ Live(r) /\ ~SwapRefused(r)
        /\ CASE ~StableRootValid(r) ->
                  disk' = [SwapReconciled(r) EXCEPT !.record.state = "Failed"] /\ job' = Idle
             [] StableRootValid(r) /\ ~job.pi ->
                  disk' = [SwapReconciled(r) EXCEPT !.record.state = "PiAdapterPending"] /\ job' = Idle
             [] OTHER -> disk' = SwapReconciled(r) /\ Go("repairPi")
  /\ UNCHANGED <<journal, undone>> /\ Steady

RepairPi ==
  /\ job.pc = "repairPi"
  /\ \/ disk' = [disk EXCEPT !.pi = @ \cup {disk.record.gen}] /\ Go("repairRecord")
     \/ /\ disk.record.gen \notin disk.pi        \* pi install fails
        /\ disk' = [disk EXCEPT !.record.state = "Failed"] /\ job' = Idle
  /\ UNCHANGED <<journal, undone>> /\ Steady

RepairRecord ==
  /\ job.pc = "repairRecord"
  /\ disk' = [disk EXCEPT !.record.state = "Ready"] /\ job' = Idle
  /\ UNCHANGED <<journal, undone>> /\ Steady

(***************************************************************************)
(* Specification                                                           *)
(***************************************************************************)

FreshDisk(r) ==
  LET g == IF Live(r) THEN r.gen ELSE NoGen
  IN [record |-> r, gens |-> IF Live(r) THEN {r.gen} ELSE {}, genStage |-> "none",
      live |-> Of(g), backup |-> Nowhere, plugStage |-> NoStage,
      pi |-> IF r.state = "Ready" THEN {r.gen} ELSE {}, notice |-> g, marker |-> g, temp |-> FALSE]

StartRecords == {IF s = "None" THEN NoRecord ELSE [gen |-> First, state |-> s, retained |-> {}] :
                   s \in Installed}

\* A predecessor that died while it replaced First by g: it published the rescue files before
\* the Pi entries, kept no copy of the prior ones, and wrote its record without RecordRenaming.
LegacyStart(g, phase, rescue, pi, rec) ==
  LET prior == [gen |-> First, state |-> "Ready", retained |-> {}]
      new == NewRecord(prior, g, "Ready", TRUE)
      d == [FreshDisk(prior) EXCEPT !.gens = {First, g}, !.live = Of(g), !.backup = Of(First),
                                    !.plugStage = {}]
  IN /\ journal = [phase |-> phase, prior |-> prior,
                   new |-> IF phase = "RecordCommitting" THEN new ELSE NoRecord, gen |-> g,
                   created |-> TRUE, genSnap |-> TRUE, stageSnap |-> "residual", newSnaps |-> TRUE,
                   rescueKept |-> FALSE, pi |-> {First}, owned |-> First, legacy |-> TRUE]
     /\ disk = [d EXCEPT !.notice = rescue, !.marker = rescue, !.pi = pi,
                         !.record = IF rec THEN new ELSE prior]

InitLegacy ==
  \E g \in Gens \ {First} :
    \/ \E pi \in {{First}, {First, g}, {g}}, rescue \in {First, g} :
         LegacyStart(g, "PiMutating", rescue, pi, FALSE)
    \/ \E rescue \in {First, g} : LegacyStart(g, "PiMutated", rescue, {g}, FALSE)
    \/ \E rec \in BOOLEAN : LegacyStart(g, "RecordCommitting", g, {g}, rec)

Init ==
  /\ IF Predecessor THEN InitLegacy
     ELSE \E r \in StartRecords : disk = FreshDisk(r) /\ journal = NoJournal
  /\ job = Idle /\ undone = FALSE /\ deferred = FALSE
  /\ jobs = 0 /\ deaths = 0 /\ faults = 0

Recovery ==
  \/ ReadTransaction \/ ForwardRecord \/ ForwardPhase
  \/ RestorePredecessorRescue \/ UndoRecord \/ UndoPi \/ UndoPiOwned
  \/ \E a \in Assets : UndoAsset(a)
  \/ UndoStages \/ UndoRescue \/ RemoveNotice \/ ReplaceRescue \/ UndoGeneration \/ ProvePriorState
  \/ CleanBackup("cleanHelper", "helper", "cleanPointer")
  \/ CleanBackup("cleanPointer", "pointer", "cleanStage")
  \/ CleanStage \/ ClearTransaction

Install ==
  \/ ReadPrior \/ WriteIntent
  \/ \E p \in Phases \ {"Intent"} : WritePhase(p)
  \/ PrepareGeneration \/ InstallPluginAssets \/ ConfigureInstallPi \/ PublishRescueAssets
  \/ WriteRecord
  \/ CleanBackup("commitHelper", "helper", "commitPointer")
  \/ CleanBackup("commitPointer", "pointer", "commitStage")
  \/ CommitStage \/ CommitFails \/ Finish

Next ==
  \/ \E g \in Offered, p \in BOOLEAN : Start("install", g, p)
  \/ \E k \in {"repair", "status"}, p \in BOOLEAN : Start(k, NoGen, p)
  \/ Recovery \/ Install \/ Repair \/ RepairPi \/ RepairRecord
  \/ Fail \/ Die

Spec == Init /\ [][Next]_vars

(***************************************************************************)
(* Properties                                                              *)
(***************************************************************************)

\* Whatever dies or fails, when no journal is left and no command runs, the record, the helper,
\* the pointer and the rescue files name one generation, that generation and every retained one are
\* complete on disk, a Ready record has its Pi entry, and nothing staged remains.  What a swap has
\* set aside is gone too, unless an install gave up its cleanup: then backups of a retained
\* generation and the emptied stage may stay, which later installs and repairs refuse
\* (install_inner, reconcile_transaction and reconcile_interrupted_plugin_swap together).
AllOrNothing ==
  journal = NoJournal /\ job = Idle =>
    /\ disk.genStage = "none" /\ ~disk.temp
    /\ IF deferred
       THEN /\ disk.plugStage \in {NoStage, {}}
            /\ \A a \in Assets : disk.backup[a] \in {NoGen} \cup disk.record.retained
       ELSE disk.plugStage = NoStage /\ disk.backup = Nowhere
    /\ IF Live(disk.record)
       THEN /\ RecordValid(disk.record)
            /\ disk.gens = {disk.record.gen} \cup disk.record.retained
            /\ disk.record.state = "Ready" => disk.record.gen \in disk.pi
       ELSE /\ disk.gens = {} /\ disk.live = Nowhere /\ disk.pi = {}
            /\ disk.notice = NoGen /\ disk.marker = NoGen

\* What the process that died was building and had not recorded yet: a generation or plugin stage
\* without its snapshot in the journal, a rescue file not renamed yet.
Unrecorded ==
  \/ disk.genStage # "none" /\ ~journal.genSnap
  \/ disk.plugStage # NoStage /\ journal.stageSnap = "none"
  \/ disk.temp

\* The two journals the code writes and does not accept again: an install of the generation already
\* there swaps no plugin file, and an installation without its Pi entry has none to put back.
SwapsAssets(j) == Prior(j) # j.gen
OwnsPiEntry(j) == j.owned \in j.pi \cup {NoGen}
Interrupted == journal # NoJournal /\ job = Idle /\ ~undone /\ ~Unrecorded

\* A journal left by a death or a failed operation is one the next command accepts, whatever phase
\* it is in, for a first install and for an update of a Ready installation: recovery only refuses
\* what an install never recorded, or an earlier recovery that was itself cut short.
EveryPhaseRecovers ==
  Interrupted /\ SwapsAssets(journal) /\ OwnsPiEntry(journal) => ~Refused(journal)

\* The same for an install of the generation that is already installed
\* (every_durable_install_phase_recovers_after_process_death).
ReinstallRecovers == Interrupted /\ OwnsPiEntry(journal) => ~Refused(journal)

\* The record a recovering command would find: the installer implements the catalog.
FoundRecord ==
  IF journal = NoJournal THEN disk.record
  ELSE IF journal.phase = "RecordCommitted" THEN journal.new ELSE journal.prior

Promise == INSTANCE GenerationCatalog WITH installed <- FoundRecord

\* Every step of an install, of its recovery and of a repair is one atomic change of the catalog,
\* or none.
ImplementsCatalog == Promise!CatalogSpec

=============================================================================
