# Herdr A2A: specifications and proofs

TLA+ specifications of Herdr A2A, kept beside the code: what the broker, the session
process, the installer and the Pi adapter do, which properties they have, how these
are checked with TLC and what is proved with TLAPS. Paths are relative to the repository, shown here under `src/`.

## The system

Coding agents in the panes of one Herdr workspace send each other tasks. A hidden
broker process per workspace accepts them over loopback HTTP, keeps them in a
scheduler in memory and in an SQLite ledger, and delivers them to the recipient's
inbox under a lease.

| Part | Source | State | Operations |
|---|---|---|---|
| Delivery scheduler | `crates/herdr-a2a-core/src/broker.rs` | `State` behind one async mutex: registrations, inboxes, tasks, indexes, deadlines, `reconciliation_required` | register, renew, remove, enqueue, poll, ack, reply, fail, reject, cancel, waits, maintenance, reconciliation, recovery |
| Durable rows | `crates/herdr-a2a-core/src/durability.rs` | `DurableTask`, `PersistenceBatch` | the row of each transition, validation, repair |
| Ledger | `crates/herdr-a2a-broker/src/ledger.rs` | `delivery_tasks`, `broker_meta`, `projection_outbox` | load, commit, pending projections, migration, quarantine |
| Projection store | `crates/herdr-a2a-broker/src/store.rs` | `tasks`, `task_owners`, SDK projection admissions | authorize, apply, retire, claim and release of owners |
| A2A front end | `crates/herdr-a2a-broker/src/a2a.rs` | send gates, execution admissions | send, stream, get, list, cancel, subscribe |
| Private API | `crates/herdr-a2a-broker/src/api.rs` | none of its own | thin handlers over the scheduler |
| Identity store | `identity.rs`, `herdr.rs` of the broker | `agent_identities` | resolve or create a canonical name |
| Runtime files | `runtime.rs`, `server.rs` of the broker | session lock, descriptor, transition guard | acquire, take over, release, publish |
| Coordinator | `crates/herdr-a2a-cli/src/coordinator.rs` | coordinator lock, process records | ensure, serve, restart, stop |
| Session, recovery | `session.rs`, `recovery.rs` of the CLI | current connection, task attempts | send with retry, wait and acknowledge, renew, recover |
| Managed installation | `managed.rs`, `managed/generation.rs` of the CLI | ownership record, journals, generations | install, repair, remove, reconcile |
| Pi adapter | `integrations/pi` | inbox pump, session client | inject, remind, complete, fall back |
| Teams, operator commands, scripts | the rest | little or none | |

How they interact: an adapter talks to its session process over pipes; the session
finds the broker through the runtime descriptor, proves it, registers, and then
sends (through the A2A front end) and waits, acknowledges and replies (through the
private API). Each of these ends in one scheduler operation, which commits a batch
to the ledger before it changes the memory. The ledger also writes the A2A
projection of every changed row. The coordinator keeps one broker per workspace
alive; when it dies, sessions recover onto its replacement, which rebuilds the
scheduler from the ledger.

What makes it hard:

* a handler future dropped when its client disconnects releases the scheduler's
  lock while its SQLite transaction goes on and lands later;
* a commit may be complete, refused, suppressed by a newer version, or written
  without its projections, and memory must not be ahead of it;
* registrations expire and are replaced while they hold leases;
* the broker crashes at any point, and again during recovery;
* clients repeat requests whose answers were lost;
* the wall clock decides about leases and retention, and may step back;
* coordinators, brokers and commands are processes that die between any two file
  operations, and the next one has to make sense of what they left;
* several callers of a session recover one connection, and an answer that was lost
  leaves open whether the request took effect.

What must be true of it (repository `README.md`: "In-flight task identity, exact-once
delivery guarantees, and canonical identity survive broker restart"): at most one
delivery of a task is ever acknowledged; an outcome reported to one caller is the
outcome everybody gets; no task is lost before its retention ends; stale
registrations are fenced; inboxes and indexes agree with the task table; whatever
is written can be recovered. Of the processes around it: one broker owns the store of
a workspace, a session ends on one live connection, a send never becomes two tasks,
an installation is complete or absent, a removal can be finished.

## Modules

| Module | What it is |
|---|---|
| `DurableRows` | the ledger rows and the pure functions over them: `durable_*_task`, both validators, the repair of a snapshot |
| `Listing` | sorting a set and filtering a queue, which the inboxes are made with, and what both promise |
| `Broker` | the scheduler and the ledger it writes through, one action per operation, with failed, dropped and late commits, time, crash and recovery |
| `TaskLifecycle`, `BrokerRefinement` | what the broker promises about one task, seen from its durable record, and the mapping under which the ledger implements it |
| `InboxWait`, `ReplyWait` | the recipient's wait for a delivery and the sender's wait for an outcome, each composed with `Broker` |
| `Projections` | the A2A view of the ledger: outbox, `tasks` table, the SDK's late writes and the registry of admissions |
| `ListPages` | `ListTasks`, page by page, over a table that changes meanwhile |
| `SendWorkflow` | send gates, `start_or_resume`, admission tokens, executions, streams and subscriptions for one task id |
| `Directory` | agent identities and live registrations: verification of a pane, naming, renewal, the readers of the directory |
| `Supervision` | coordinators, brokers, their locks, records, descriptors and registries, `stop`, `restart` and the drain of a removal |
| `Recovery` | the connection that the callers of a session share, and its recovery |
| `TaskOperation` | one `send_message` or `resume` of a session with its attempts |
| `SessionInbox` | `wait_for_message` of a session: lease, acknowledge, hand over |
| `TeamCreation` | `create_team`, and `wait_for_agents` of the broker |
| `InstallTransaction`, `GenerationCatalog` | install, repair and the recovery of their journal; the abstract catalog they implement |
| `ManagedRemoval` | `managed remove`, with and without `--purge` |
| `InboxPump` | the inbox pump of the Pi adapter, with the session and the broker as its environment |
| `MCBroker`, `MCInboxWait`, `MCReplyWait`, `MCServing`, `MCFrontEnd`, `MCClient`, `MCManaged`, `MCEnds` | the instances TLC checks; `MCServing` and `MCEnds` are those for liveness, of the broker and of everything else |
| `ListingProofs` | the promises of `Listing`, for sets and lists of any size |
| `BrokerSteps`, `BrokerQueues`, `BrokerLedger` | the invariants of `Broker`, in three layers, each kept by every step |
| `BrokerProofs` | the theorems about `Broker` |
| `FrontEndProofs` | the theorems about `SendWorkflow`, `Projections` and `Directory` |
| `ProcessProofs` | the theorems about `Recovery`, `SessionInbox` and `Supervision` |

Components meet in three ways. `InboxWait` and `ReplyWait` extend `Broker` and share its
state. `SessionInbox`, `TaskOperation` and `Projections` have the other side in the form
of what the detailed module says of it: the leases of `Broker`, the replacement of a
connection of `Recovery`, the rows of the ledger. The rest of the protocols share no
state, so that nothing new can happen when they interleave. For these an MC module
takes several instances together: a variable `setting` chooses one at the start, only
that one moves, and every property says in which settings it is asserted.

### How `Broker` corresponds to the code

Every public operation takes the lock, samples the clock, validates the caller,
reconciles if `reconciliation_required` is set, runs `maintain_state` and then does
its own work, all at the one clock sample. `Reconcile`, `Maintain` and the bodies
are separate actions because each commits on its own and may fail on its own. The
guard `Settled` lets a body run only when the other two have nothing to do at the
present clock, which is the state the code has reached at that point. A request
refused after its maintenance is `Maintain` alone.

An operation that commits has two outcomes. `Completed(batch)` writes the batch and
then applies the same change to memory. `Interrupted(batch, droppable)` leaves the
memory alone: the ledger moved and the projections failed, or the version guard
suppressed the batch (both set `doubt`, the code's `reconciliation_required`), or
the future was dropped and the batch joins `orphans`. Sends run in a spawned task,
so `Enqueue` is not droppable. An error that wrote nothing changes nothing and is
a stutter.

`OrphanLands` is the late transaction of a dropped request. Versions order the
writes of a row; a deletion and a first insertion have none, and the connection
mutex is not fair. The model assumes (`InOrder`) that neither overtakes a queued
transaction of the same task: such a transaction waits for the connection, seconds
at most, while a row is deleted thirty days after its last write.

Abstractions: a message is a pair of agents and a body, a reply a model value, a
delivery or registration id a fresh number (the code draws UUIDs), a time a natural
number. The deadlines of a row are computed from its timestamps, as both validators
require. A registration's id stands for its credentials, because id and epoch are
issued together. `HashMap`s are functions, the deadline heap is a set.

Left out of `Broker`: the status event and the retired registration ids (they only
choose an error code), the heap of delivery deadlines, `tasks_by_sender` and
`tasks_by_recipient` (no decision reads them). Inbox notification is in `InboxWait`,
the reply waiters are in `ReplyWait`, the directory wait in `TeamCreation`,
`start_or_resume` in `SendWorkflow`, the projections in `Projections`.

`grants`, `acks` and `outcomes` are history: what callers have been told. `Maintain`
and `Rebuild` clear the last two for a task that has been forgotten, because its id
may be used again.

### How the waits correspond to the code

`InboxWait` and `ReplyWait` extend `Broker`: each of their steps is a step of `Broker`
together with what it does to the waits, or a step of one wait. A step notifies or
resolves waiters only if its request got through (`Through`): `?` returns before
those lines when the commit failed, and a dropped future never reaches them.
`maintain_state` and live reconciliation notify and send under the lock; the other
operations do so after `drop(state)`, which is a step of its own (`Post`, `Send`), so
anything may happen in between.

`InboxWait` keeps the two locks of `wait_next` apart (`BeginWait`, `FetchNotify`), and
the poll from the sleep. tokio's `Notify` is external: at most one stored permit.
`Leave` is the timeout, a failed commit, or a client that disconnects; the guard's
destructor clears `wait_active` in each case.

`ReplyWait` keeps the registration of the waiter (`StartWait`), the look at the head of
the loop (`Check`) and the `select!` (`Receive`, `Timer`, `MaintainTask`) apart. `told` is
history: the outcomes that waits have returned.

### How the A2A side corresponds to the code

`Projections`. `Commit` is the transaction of the ledger with the outbox entry of each
changed row; `Project` is `apply_pending_projections`, which every commit runs at its
end and which may fail on its own. An execution reads a row, is authorized
(`authorize_sdk_projection`, which records an admission), and the SDK writes what it
read some time later (`apply_sdk_projection`), when the row may have gone on, been
deleted, or its id taken again. The registry evicts at its limit per task and in
total. `View` is what `projection_json` shows: it loses the difference between queued
and leased again, so that equal views may come from different versions. `Restart` is
possible only where `validate_store` accepts the store.

`SendWorkflow` has one task id. A gate is a number; `gates` is the weak entry of the map,
and a workflow holds its gate until it returns. The SDK is external: it consumes an
admission token, runs, streams, and is nondeterministic in when.

`ListPages` keeps the row id in the page token, as the code does, and looks the task up
again when the token returns. Between two pages commits of the ledger insert rows,
change them and prune those whose retention is over, in any order; SQLite, which is
external, gives a new row the largest row id in use plus one.

`Directory` has the requests that verify a pane with Herdr, find or make the row of its
identity, and register or renew; and those that take a snapshot of the live
registrations and look each of them up. Every call of Herdr, of the database and of the
scheduler is a step of its own. Herdr renames and moves panes between any two of them.
The random ending of a canonical name is a choice from `Endings`, so that collisions,
and the retries after them, happen.

### How `Supervision` corresponds to the code

A member of `Coordinators` is one run of `coordinator serve` and the broker it spawns.
Each lock, record write, rename, registry update, spawn and signal is a step. `flock`
is released by the kernel when its holder dies, `record`, `slock`, `desc` and the
registries stay. The takeover of a stale session lock is the code's sequence under the
transition guard: read, judge the owner, clear its descriptor, unlink, link the new
one. `client` is one `stop` or `restart`, `remover` the drain of a removal, which
retires reservations that have not become registrations yet. Identities are compared
by process proofs. A broker that meets a live owner, or a healthy descriptor, is refused
(`RefuseSecondOwner`); one whose takeover fails, because a file operation fails or the
pid of the dead owner belongs to somebody else, ends and undoes its own link or not
(`FailAcquire`). `StopRegistered` stops a registered pair that is alive (`LivePair`) or
has reconcilable remains (`Reconcilable`); anything else, such as a descriptor that is
not there, is the error the code returns, and the drain fails.

### How the session corresponds to the code

`Recovery`: callers use the installed connection, observe its failure, wait for
`recovery_gate`, look again, and establish, prove, register and install. A caller that
gives up leaves its registration request on its way. `TaskOperation` is the loop of
`run_task_attempts` with its attempt states; the sends it no longer waits for may
still be executed. A call can fail before or after the commit it asked for, and a stream
can fail with an error as its first event; `op.why` remembers what an error that was
returned was about. `SessionInbox` leases, acknowledges and hands over, each request with
the connection of its time. `TeamCreation` runs the herdr commands role by role and
then waits; a `notified` flag enabled before the snapshot is tokio's `Notified`.

### How the installer corresponds to the code

`InstallTransaction`: `disk` is every file the installer owns; each write, rename and
unlink between two writes of the journal is a step. A process can die before any of
them and an operation can fail. `reconcile_transaction` then reads the phase and goes
forward or back, with its own steps, which may be cut short too. `Refused` collects
the conditions under which it answers `recovery_needed`. `Predecessor` starts from a
journal of the earlier schema. The cleanup after a committed install is best effort:
where it fails the install succeeds and leaves what it could not remove (`deferred`).

`ManagedRemoval`: several runs of `remove`, one install lock, given up during the drain.
A purge snapshots the data root, records it in its journal and deletes exactly that;
brokers may write or recreate it meanwhile. A command must be run from the recorded
binary or a copy with its digest; another one is refused, after the journal of its
purge has been written (`RefuseExecutable`). `Copies` says whether the operator has such
a copy, which is needed once the installed binary is gone. Herdr is external.

### How `InboxPump` corresponds to the code

One action is one stretch of JavaScript between two awaits, and the continuation of a
settled promise is a step of its own: `WaitAnswers` settles the promise of `port.wait`,
and `HandleDelivery`, `HandleMalformed` and `HandleError` are what `#run` does when it
resumes. `Stop` is `stop()` up to its `await`. `active` stands for `#activeDelivery`,
`#activeTaskId` and `#completion`, which are always set and cleared together.
`EnsureInboxPump` is the replacement of a stopped pump by one that shares its history
of deliveries; the calls in flight remember which pump they belong to. The session
client and the broker may lose the answer of any call after it took effect.

Left out: the contents of a delivery and its parsing (well formed, malformed with a
task id, or without one), the wording and the display of messages, and the error
thrown by a failing `sendMessage`.

## What the runs check

Deadlock is not checked: the bounds on time, epochs, deliveries, restarts and faults
let a finite instance stop, commands end, and the program itself waits for the next
request. Every bound is a constant named `Max...`, given in the cfg or in the `WITH` of
the MC module.

| Run | Instance | Shows |
|---|---|---|
| `queue` | two agents that send to one of them, three ids against a store of two, one open task per sender, two epochs, three deliveries, times 0..2 | an unacknowledged lease belongs to the current registration (`LeaseFence`); inboxes hold what can be delivered, in order (`InboxExact`); the delivery index, the indexes by agent and the retention heap are exact (`IndexesAgree`) |
| `ledger` | one task, one orphan at a time, three epochs, two deliveries | memory and ledger are one write apart (`LedgerAgreement`); one acknowledged delivery (`AckedOnce`); reported outcomes are kept (`OutcomeKept`); epochs fence (`EpochFence`); every transaction is a step of `TaskLifecycle` (`ImplementsLifecycle`) |
| `inbox_waits` | two waits, one task, two epochs, times 0..2 | one wait per registration, and the flag never stays behind (`OneWait`); no wake-up is lost (`SleepJustified`) |
| `reply_waits` | two waits, one task, one orphan, a clock that steps back by one | no waiter is forgotten (`NoWaiterForgotten`); all waits return the ledger's outcome (`WaitersAgree`); what is written is accepted when it is read back (`AlwaysRecoverable`) |
| `serving_ends` | one wait of each kind; two sends, one subscriber, two lives of the id | a wait that could be served ends (`WaitServed`); a wait for an outcome ends by the deadline (`WaitEnds`); a send behind a gate ends (`SendEnds`) |
| `client` | connection: two callers, three instances, five epochs; operation: all forms of the call, three instances, three faults; inbox: two messages, two instances; team: three roles; pumps: two deliveries, three pumps | a connection is replaced only by a newer one (`InstalledMovesForward`); a resend happens only when the first send is void (`ResendIsSafe`) and results are true (`ResultsAreTrue`); only acknowledged messages are handed over (`HandedIsAcknowledged`); no pane or Pi is made twice (`MutationsOnce`); the directory wait misses nothing (`WaitNotOverslept`); the pump serializes (`AnsweredInOrder`) and stops only for the delivery it has (`StopsForItsOwn`) |
| `ends` | narrower instances of the same, and of removal (two removers without `--purge`) and supervision (two coordinators with `stop`) | a session comes to a live connection (`HealsInTime`); a send survives one restart or lapse (`SurvivesOneTurnover`); messages are handed over (`HandedInTime`); no delivery stays active for ever (`Resolved`); a removal that was begun completes (`PlainRemovalCompletes`); a broker without coordinator exits (`BrokersExit`) |
| `managed` | three generations: updates (three commands, two deaths, one failure), journals of the earlier schema (two deaths), cleanups that fail (four commands, one death, one failure); two removers with and without `--purge`, and a reinstall; two coordinators with stop, restart and remove | an install ends complete or absent (`AllOrNothing`), every journal is accepted (`EveryPhaseRecovers`), every step is one of the catalog (`ImplementsCatalog`); a purge can be resumed (`PurgeResumable`); one broker owns the store (`OneBrokerOwnsTheStore`); a drain leaves no pair (`DrainLeavesNoPair`) |
| `front_end` | one task whose id is used twice, and two tasks that compete for the registry; task ids 1..4 at two times in pages of two, with three commits between the pages; three sends; one pane, two sessions, two requests | projections follow the ledger (`ProjectionFollowsLedger`); a listing shows what did not change once (`CompleteForUnchanged`); one workflow per task id (`OneWorkflow`); a name keeps meaning the process it was resolved to (`NameMeansOneAgent`) |
| `pump_stop` | one delivery, one pump | a violation of `StopEnds`, see below |
| `install_reinstall` | the installed generation installed again, one death | a violation of `ReinstallRecovers`, see below |
| `send_stream` | one send that follows its task, one failure | a violation of `FailedStreamIsFollowed`, see below |

Why the bounds suffice. Two epochs of an agent are a stale registration and its
successor, before or after a restart; two deliveries of a task are enough for a second
acknowledgement; two tasks give an inbox an order; one orphan meets any later write of
its task. Leases, registrations and tasks expire, and retention ends, within the time
bound, so every kind of maintenance meets the other steps. Three ids against a store of
two, with a quota of one, reach both limits. In the runs of the waits one agent sends to
itself, which the broker permits, so that every registration is one a wait may use.

Two callers are one that recovers and one that is late; three instances give it two
replacements to be late for. A send needs two failures before it is sent again, and a
third to interrupt that. The installer's three commands are one that is interrupted,
one whose recovery is interrupted, and one that ends it; three generations with one
retained reach the limit of the catalog. Two coordinators are an owner and a rival for
every file; the theorem `StoreHasOneOwner` says it for any number. Four ids in pages of
two make a second page whose start moves, and three commits can free the row of a
token, take its row id again and move a neighbour. Two requests over two sessions of
one pane are two processes that follow each other, and a name that both may want. Each
union of settings gives each instance its full state space, since the others stand
still.

Symmetry is used for waits, executions, the tasks of the registry, the sessions and
requests of the directory, removers and coordinators, only in runs without liveness, and only where the elements are never
ordered or chosen among.

Two settings of `Projections` and three of `InstallTransaction` share a module with
different bounds: one alone would be too large with all of them.

Every property has a mutant: an operator named after a mapped one, with `_Mutant` in its
name, which changes it as a plausible bug would and makes TLC report that property.

### Fairness

Liveness is asserted as `setting = ... /\ Fairness => Property`, with the fairness of
the component alone.

* `InboxWait`: weak fairness of each wait's steps and of each posted notification. The
  runtime runs every task that can run. Requests, time and failures are nobody's duty.
* `ReplyWait`: weak fairness of each wait's steps, and time passes. A wait is due at
  the deadline of its task, so nobody else has to act.
* `SendWorkflow`: workflows, executions and subscriptions are spawned tasks and are
  polled; the delivery deadline ends every task.
* `Recovery`: callers are scheduled, timers fire, a dead broker is started again (by
  `ensure`, which establishing calls). Strong fairness of `recovery_gate` is the FIFO
  queue of tokio's mutex.
* `TaskOperation`: the session and the broker take their steps, the recipient registers
  again and replies; `SurvivesOneTurnover` needs it, as no deadline may strike.
* `SessionInbox`: the harness keeps calling; strong fairness of `LeaseAnswered` says that
  an inbox, which is served in order, does not pass over a message for ever.
* `Supervision`: the brokers are scheduled. Nothing is assumed of coordinators.
* `ManagedRemoval`: a running command is scheduled, and the operator repeats an
  interrupted removal, from a copy of the binary where the installed one is gone
  (`Copies`), and unregisters by hand what Herdr keeps, as the error texts ask. Strong
  fairness of the repetition: the install lock may be taken again and again.
* `InboxPump`: the loop, the fallback call (it is answered or fails) and the agent's
  settling: an injected message triggers a turn, and turns end.

### Findings

`pump_stop`: `port.wait` is fulfilled with a delivery, and `stop()` runs before `#run` has
resumed. `stop()` finds no active delivery, aborts the controller and awaits the loop.
The loop resumes, does not look at the signal again (`inbox-pump.ts:221`), activates the
delivery and awaits its completion. Nobody resolves it: `settled()` returns at once for
an aborted controller, and on shutdown the extension has let go of the pump. So
`stop()`, and with it the shutdown of the session, does not return. The test of `stop`
(`inbox-pump.test.ts:335`) is there to catch a "session shutdown [that] hangs
indefinitely behind a peer task that can no longer reply". The window is as short as
the microtasks between the two, and a second `stop()` frees the first.

`install_reinstall`: an install of the generation that is already installed swaps no
plugin file and sets none aside. `published_state` (`managed.rs:8170`) nevertheless asks
for backups equal to the prior files. If such an install dies between `PluginPublished`
and `RecordRenaming`, every later command answers `recovery_needed`. The test
`every_durable_install_phase_recovers_after_process_death` (`managed_install.rs:6485`)
says otherwise, for an update. `EveryPhaseRecovers` therefore speaks of installs that
replace a generation.

`send_stream`: the session sends with a streaming call and waits for the outcome. The
broker writes the row and fails to project it, so that `enqueue` returns
`PersistenceUnavailable`; `run_streaming_send` gives that error as the only event of its
stream (`a2a.rs:747`). A failing `begin_execution` (`a2a.rs:187`) has the same effect.
`run_task_attempts` looks for the task after a failing stream only if an earlier event
has confirmed it, and returns the error otherwise (`session.rs:1542`). The harness is
told of a failure while the task waits in the recipient's inbox. The comment of a test
(`session_protocol.rs:4212`) names this outcome as the break to be caught: "the streaming
response fails after durable creation, and the caller receives an error instead of
following the already-running exact task to its terminal reply". The test fails the call
and not its stream. `ResultsAreTrue` leaves this case out.

### Met while modelling

Behaviour the models have, which no document contradicts. The properties are stated so
that they allow it:

* A removed or pending Pi entry: an update while no Pi entry can be written leaves the
  entry of the superseded generation in place after a later repair; a journal that owns
  an entry which is not there is not accepted. `EveryPhaseRecovers` excludes it
  (`OwnsPiEntry`), and with it the update of an installation that is `PiAdapterPending`.
* A recovery that is itself cut short after it has restored files (`undone`), and a death
  while a stage or a rescue file not yet in the journal is being built (`Unrecorded`),
  are refused by later commands rather than guessed at.
* An install of a generation that is retained already is refused by `validate_catalog`
  and rolled back.
* After a cleanup that failed, backups of a retained generation and the emptied stage
  stay. `AllOrNothing` says so, and nothing more may stay; later installs and repairs
  refuse over them (`managed.rs:5288`, `managed.rs:5354`).
* A purge that dies inside the deletion of its tree, or meets data a broker has written
  since, is refused: `PurgeResumable` speaks of a tree that is whole or gone.
* A purge that dies in its last step leaves its journal in phase `Deleted` beside a removed
  record. If the plugin is then installed again, both forms of `remove` are refused. So
  is a plain removal after a purge was refused for its executable, because the journal
  of that purge stays in phase `Intent`; the purge itself can be repeated until a broker
  writes.
* A removal that dies after it has removed the helper (`managed.rs:2030`) can be finished
  only from a copy of the binary. Without one (`Copies` false) `PlainRemovalCompletes`
  fails.
* A page token whose row was pruned, and whose row id has gone to a new task of the same
  sender, is accepted and continues beside that task. Among the tasks with the timestamp
  of the token some may then be missed or repeated; `CompleteForUnchanged` excludes
  these (`blurred`) and no others.
* A drain may complete while a just spawned broker that is not bound yet is alive; it
  ends when its liveness socket closes (`BrokersExit`).
* An acknowledgement whose answer is lost for good, or that arrives while the wait of the
  session runs out of time, leaves a message acknowledged and not handed over.
  `HandedInTime` is asserted for the losses `wait` and `lapse`, and not for `ack` and
  `deadline`; `HandedIsAcknowledged` is asserted for all.
* A send that meets two turnovers before it is confirmed may end with "task not found",
  which is true; a send that ends with a lost stream says so.
* A registration request whose caller was dropped at shutdown may arrive after
  `unregister`, and lives until it lapses.
* `list_agents` shows nothing when its maintenance fails; a directory wait that took such
  a snapshot sleeps until the next change or its timeout (`hidden`).
* A teammate whose answer was lost keeps its pane; `create_team` reports it and leaves it.

Four hazards are in the models without a property of their own in a run: the order of
unversioned writes (`ledger.rs:392`, the assumption `InOrder`), the refusal of an SDK write
after an eviction (`store.rs:98`), which instance `restart` stops (`coordinator.rs:134`),
and the replay of deliveries into a new pump (`herdr-a2a.ts:286`).

## What is proved

For every value of the constants that satisfies the named assumptions. TLC evaluates the
assumptions in the runs.

| Theorem | States | Assumptions | Inductive invariant |
|---|---|---|---|
| `InvHolds` | `Spec => []Inv` of `Broker` | `DurableRowsAssumption`, `BrokerAssumption` | `Inv` |
| `TypeCorrect` | `Spec => []TypeOK` | the same | `Inv` |
| `EpochFenced` | `Spec => []EpochFence` | the same | `Inv` |
| `LeasesFenced` | `Spec => []LeaseFence` | the same | `QueueInv` |
| `TablesIndexed` | `Spec => []IndexesAgree` | the same | `Inv`, `QueueInv` |
| `InboxesExact` | `Spec => []InboxExact` | the same, `ClockBack = 0` | `Inv`, `QueueInv` |
| `InboxesSound` | `Spec => []InboxSound` | the same, any `ClockBack` | `QueueInv` |
| `LedgersAgree` | `Spec => []LedgerAgreement` | the same, `ClockBack = 0` | `Inv`, `LedgerInv` |
| `AcknowledgedOnce` | `Spec => []AckedOnce` | the same, any `ClockBack` | `Inv`, `LedgerInv` |
| `OutcomesKept` | `Spec => []OutcomeKept` | the same, any `ClockBack` | `LedgerInv` |
| `Recoverable` | `Spec => []AlwaysRecoverable` | the same, any `ClockBack` | `Inv`, `LedgerInv` |
| `LifecycleImplemented` | `Spec => ImplementsLifecycle` | the same, any `ClockBack` | `Inv`, `QueueInv`, `LedgerInv` |
| `WorkflowsSerialized` | `SendSpec => []OneWorkflow` | none | `Serialized` |
| `ProjectionsFollow` | `ProjectionSpec => []ProjectionFollowsLedger` | `ProjectionBounds` | `Consistent` |
| `StoreStaysValid` | `ProjectionSpec => []validate_store` | `ProjectionBounds` | `Consistent` |
| `NamesMeanOneAgent` | `DirectorySpec => []NameMeansOneAgent` | `DirectoryConstants` | `DirectoryInv` |
| `IdentitiesReopen` | `DirectorySpec => []validate_rows` | `DirectoryConstants` | `DirectoryInv` |
| `ConnectionMovesForward` | `RecoverySpec => InstalledMovesForward` | `RecoveryBounds` | `Ordered` |
| `HandedOnlyAcknowledged` | `SessionSpec => []HandedIsAcknowledged` | none | `Durable` |
| `StoreHasOneOwner` | `SupervisionSpec => []OneBrokerOwnsTheStore` | `SupervisionAssumption` | `Exclusive` |

The broker's theorems rest on three invariants, each of which uses the ones before it,
and on the laws of `Listing` (`ListLaws`), which `ListingProofs` proves: a finite set is
sorted into a list of its elements, and filtering keeps the order.

`Inv` (`BrokerSteps`): types, the delivery index, epochs. Two conjuncts strengthen what is
wanted. `LeasesDrawn`: every delivery id in memory, in the ledger or in an orphan has
been drawn; without it, a fresh id of `poll_delivery` could already be in the index.
`EpochPassed`: a running broker's epoch counter is at least the last epoch granted; while
the broker is down the stored watermark bounds the grants instead, which is why
`recover` may restart from it. The index after a rebuild is exact because
`SnapshotValid` refuses a ledger in which two rows share a delivery id.

`QueueInv` (`BrokerQueues`): registrations and `registrations_by_agent` are inverse
(`MembersExact`), sequence numbers are fresh and unique (`SequenceFresh`), so that sorting by
them has one result; an inbox lists only what can be delivered to its owner
(`InboxSound`), and all of it while the clock does not step back (`InboxComplete`): a clock
that does may make a registration live again that had expired when a task was put back.

`LedgerInv` (`BrokerLedger`): rows are well formed and within the retention limit
(`RowsWell`); no delivery id is claimed by two tasks, in memory, ledger or orphans
(`ClaimsApart`), without which a rebuilt snapshot could be refused; an orphan still
follows the row it will meet or will be suppressed (`OrphansFit`); the ledger is at
memory's version or later, by one write unless `doubt` is set (`LedgerAhead`); what callers
were told is what rows say (`Told`). Every write then moves each row by one step of the
lifecycle, which is the refinement. The proofs use `InOrder` (see above) as part of the
actions.

`Consistent` is the property with the types of the tables. The argument is per task: a
write of the SDK changes the table only when it shows what the outbox entry shows, and
then it is what the outbox would have written. That the store passes its own validation follows,
so the guard of `Restart` never keeps a broker from starting.

`Serialized` adds `GateHeld`: every workflow attached to a gate holds the one the map
names. A gate goes from the map only when nobody is attached to it, hence two guarded
workflows would hold the same lock.

`Exclusive`. `LockHeld`: a broker past the link of the session lock is the one the lock
names. `GuardHeld`: who inspects or replaces the lock has the transition guard.
`StaleStaysStale`: the lock that is about to be unlinked names a broker that has ended.
It stays so because the guard keeps others from putting a live one in its place, and
because a coordinator spawns once (`SpawnedOnce`, `Named`).

`DirectoryInv` adds `NamesBound`: a name is in one row of the table, and every live
registration, every request that is about to register or that is reading the directory,
and every recipient that was resolved has the row of its process. Rows are never deleted
and never change their name, so what a request saw before an await is still true after
it.

`Ordered`. One caller at a time is under the recovery gate (`GateHeld`), and what it is
about to install is newer than what is installed and no newer than what the broker has
given out (`Forward`); nobody else can install in between.

`Durable` adds `AnswerIsTrue`: a positive answer the session has read belongs to the
delivery it acknowledges, and that row is acknowledged, which no step takes back.

Only model-checked, and why:

* the waits (`OneWait`, `SleepJustified`, `NoWaiterForgotten`, `WaitersAgree`): each step is a
  step of `Broker` together with the waits, and a proof would go through all of them
  again;
* sends, team creation and the pump (`ResultsAreTrue`, `ResendIsSafe`, `MutationsOnce`,
  `WaitNotOverslept`, `AnsweredInOrder`, `StopsForItsOwn`): one operation with a bounded number
  of failures, which the instances cover but for the bound;
* installer and removal (`AllOrNothing`, `EveryPhaseRecovers`, `ImplementsCatalog`,
  `PurgeResumable`) and `DrainLeavesNoPair`: long sequential protocols whose inductive
  invariant would be an annotation of every program point;
* `CompleteForUnchanged`: what a sorted page holds is an induction over data;
* every liveness property: liveness under fairness is out of the prover's reach, as is
  what recursive definitions compute.

## Not modelled

* Private HTTP API (`api.rs`): registration, renewal, unregistration and the readers of
  the directory are in `Directory`. The other handlers decode, call one scheduler
  operation and encode. A handler future dropped in mid-commit is in `Broker`.
* Schema migration and quarantine of legacy rows: sequential data conversion before
  the broker serves.
* Of the session process: line framing, the ordered writer of its output, directory
  listings and payload decoding. `reply` and `cancel` repeat one idempotent request,
  which `Broker` has.
* Of the installer: the relocation of the plugin root by an update, the legacy Pi
  package entry of a first install, and `migrate_rescue_layout` (`managed.rs:1215`), which
  moves the rescue files of an earlier release before an install begins. File modes,
  fsync and the atomicity of a rename are taken as given.
* Of the projection store: `claim_task_owner` and `remove_task_owner_if_unpersisted`, which
  only tests use; the doctor's snapshot, which reads.
* The A2A SDK, SQLite, tokio, Herdr and Pi are external and appear as what the code
  relies on.
* Payload and name validation, operator commands, reports, terminal drawing, packaging
  and test scripts: no protocol state, and unit tests reach them.
