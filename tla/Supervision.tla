---- MODULE Supervision ----
(***************************************************************************)
(* How one workspace (one runtime scope) keeps exactly one broker.          *)
(*                                                                          *)
(* A `coordinator serve` process takes the coordinator lock, reserves the   *)
(* scope in the managed installation's starting registry, spawns a broker,  *)
(* waits for the broker's descriptor, moves its entry to the registered     *)
(* registry and supervises the child (coordinator.rs).  The broker takes    *)
(* the session lock, recovers its state, publishes the descriptor and       *)
(* serves until it is told to stop or its coordinator's end of the liveness *)
(* socket closes (runtime.rs, main.rs).  `stop` and `restart` end a         *)
(* coordinator; `managed remove` drains both registries (managed.rs).       *)
(*                                                                          *)
(* A member of Coordinators is one run of `coordinator serve`; the broker   *)
(* it spawns carries the same name.  Any process may die at any point: the  *)
(* kernel then drops its flocks and closes its sockets, and everything it   *)
(* wrote stays on the disk.                                                 *)
(***************************************************************************)
EXTENDS Naturals, FiniteSets

CONSTANTS Coordinators,  \* runs of `coordinator serve` for this scope
          Client,        \* the run of `coordinator stop` or `restart`
          Commands,      \* the commands that may run: "stop", "restart", "remove"
          NoOne          \* absent file, free lock

SupervisionAssumption ==
    /\ Client \notin Coordinators
    /\ NoOne \notin Coordinators \cup {Client}
    /\ Commands \subseteq {"stop", "restart", "remove"}

VARIABLES
    coord,       \* coord[c]: how far run c of `serve` has come
    broker,      \* broker[c]: how far the child of c has come
    flock,       \* holder of the flock on <scope>.coordinator.lock
    record,      \* the CoordinatorRecord in that file (owner NoOne: empty or torn)
    slock,       \* the broker named by the session lock file <scope>.lock
    guard,       \* holder of the flock on .<scope>.acquire
    desc,        \* the broker named by the descriptor <scope>.json
    starting,    \* starting-process registry, entries of this scope
    registered,  \* process registry, entries of this scope
    accepting,   \* the ownership record is Ready or PiAdapterPending
    asked,       \* coordinators whose control socket received their nonce
    termed,      \* brokers that were sent SIGTERM
    client,      \* the stop or restart command
    remover      \* the drain of `managed remove`

supervisionVars == <<coord, broker, flock, record, slock, guard, desc, starting,
                     registered, accepting, asked, termed, client, remover>>

scopeFiles == <<slock, guard, desc>>
registries == <<starting, registered, accepting>>
commands == <<client, remover>>

NoRecord == [owner |-> NoOne, bound |-> FALSE]
Recorded(c) == [owner |-> c, bound |-> TRUE]

Live(c) == coord[c] \notin {"idle", "gone", "dead"}
BrokerLive(c) == broker[c] \notin {"none", "exited", "dead"}

\* observed_process_proof is None for both processes of c.
Retired(c) == ~Live(c) /\ ~BrokerLive(c)

\* protected_descriptor: the descriptor is readable and the broker it names
\* answers the health proof.
Protected(c) == desc = c /\ broker[c] = "serving"

SupervisionInit ==
    /\ coord = [c \in Coordinators |-> "idle"]
    /\ broker = [c \in Coordinators |-> "none"]
    /\ flock = NoOne
    /\ record = NoRecord
    /\ slock = NoOne
    /\ guard = NoOne
    /\ desc = NoOne
    /\ starting = {}
    /\ registered = {}
    /\ accepting = TRUE
    /\ asked = {}
    /\ termed = {}
    /\ client = [mode |-> "none", pc |-> "idle", orig |-> NoOne, cand |-> NoOne, hit |-> {}]
    /\ remover = [pc |-> "idle", target |-> NoOne, bound |-> FALSE]

----------------------------------------------------------------------------
(* The coordinator: serve()                                                 *)

Advance(c, from, to) ==
    /\ coord[c] = from
    /\ coord' = [coord EXCEPT ![c] = to]

\* serve returns: the reservation guard unregisters its own starting entry,
\* the liveness socket closes and the coordinator lock is dropped last.
Leave(c) ==
    /\ coord' = [coord EXCEPT ![c] = "gone"]
    /\ flock' = IF flock = c THEN NoOne ELSE flock
    /\ starting' = {e \in starting : e.owner # c}

\* CoordinatorLock::acquire: one non-blocking flock; the loser only waits for
\* the winner's descriptor.
Acquire(c) ==
    /\ Advance(c, "idle", IF flock = NoOne THEN "locked" ELSE "busy")
    /\ flock' = IF flock = NoOne THEN c ELSE flock
    /\ UNCHANGED <<broker, record, scopeFiles, registries, asked, termed, commands>>

\* The waiter, or the owner's recheck under the lock, adopts a proved broker.
AdoptWinner(c) ==
    /\ coord[c] \in {"busy", "locked"}
    /\ \E b \in Coordinators : Protected(b)
    /\ Leave(c)
    /\ UNCHANGED <<broker, record, scopeFiles, registered, accepting, asked, termed, commands>>

\* No descriptor, or nobody answers at the address it names (a refused or timed
\* out connection reads as no descriptor).
FindNoBroker(c) ==
    /\ Advance(c, "locked", "clear")
    /\ UNCHANGED <<broker, flock, record, scopeFiles, registries, asked, termed, commands>>

\* The state of the ownership record is not looked at.
Reserve_Mutant(c) ==
    /\ coord[c] = "clear"
    /\ IF registered = {} /\ starting = {}
       THEN /\ coord' = [coord EXCEPT ![c] = "reserved"]
            /\ starting' = {[owner |-> c, bound |-> FALSE]}
            /\ flock' = flock
       ELSE /\ coord' = [coord EXCEPT ![c] = "gone"]
            /\ flock' = NoOne
            /\ starting' = starting
    /\ UNCHANGED <<broker, record, scopeFiles, registered, accepting, asked, termed, commands>>

\* reserve_managed_process_start, under the install lock.
Reserve(c) ==
    /\ coord[c] = "clear"
    /\ IF accepting /\ registered = {} /\ starting = {}
       THEN /\ coord' = [coord EXCEPT ![c] = "reserved"]
            /\ starting' = {[owner |-> c, bound |-> FALSE]}
            /\ flock' = flock
       ELSE /\ coord' = [coord EXCEPT ![c] = "gone"]
            /\ flock' = NoOne
            /\ starting' = starting
    /\ UNCHANGED <<broker, record, scopeFiles, registered, accepting, asked, termed, commands>>

\* write_record truncates the lock file before it writes the new record.
Truncate(c) ==
    /\ \/ Advance(c, "reserved", "publishing")
       \/ Advance(c, "owned", "binding")
    /\ record' = NoRecord
    /\ UNCHANGED <<broker, flock, scopeFiles, registries, asked, termed, commands>>

\* publish names the coordinator; bind_broker rewrites the record with the
\* instance of its broker.
WriteRecord(c) ==
    /\ \/ /\ Advance(c, "publishing", "published")
          /\ record' = [owner |-> c, bound |-> FALSE]
       \/ /\ Advance(c, "binding", "recorded")
          /\ record' = Recorded(c)
    /\ UNCHANGED <<broker, flock, scopeFiles, registries, asked, termed, commands>>

Spawn(c) ==
    /\ Advance(c, "published", "spawned")
    /\ broker' = [broker EXCEPT ![c] = "starting"]
    /\ UNCHANGED <<flock, record, scopeFiles, registries, asked, termed, commands>>

\* bind_managed_process_start_broker.  A refusal makes serve return without
\* touching the child (kill_on_drop is false).
BindStart(c) ==
    /\ coord[c] = "spawned"
    /\ IF accepting /\ [owner |-> c, bound |-> FALSE] \in starting
       THEN /\ coord' = [coord EXCEPT ![c] = "bound"]
            /\ starting' = (starting \ {[owner |-> c, bound |-> FALSE]})
                               \cup {[owner |-> c, bound |-> TRUE]}
            /\ UNCHANGED flock
       ELSE Leave(c)
    /\ UNCHANGED <<broker, record, scopeFiles, registered, accepting, asked, termed, commands>>

\* wait_for_owned_descriptor succeeds.
OwnDescriptor(c) ==
    /\ Advance(c, "bound", "owned")
    /\ Protected(c)
    /\ UNCHANGED <<broker, flock, record, scopeFiles, registries, asked, termed, commands>>

\* Any `?` of serve that leaves the child, if there is one, to notice it.
GiveUp(c) ==
    /\ coord[c] \in {"busy", "locked", "clear", "reserved", "publishing", "published",
                    "spawned", "owned", "binding"}
    /\ Leave(c)
    /\ UNCHANGED <<broker, record, scopeFiles, registered, accepting, asked, termed, commands>>

\* cleanup_descriptor_for_child, then serve returns with an error; a busy
\* transition guard leaves the descriptor where it is.
CleanupAndLeave(c) ==
    /\ Leave(c)
    /\ desc' = IF desc = c /\ guard = NoOne THEN NoOne ELSE desc
    /\ UNCHANGED <<broker, record, slock, guard, registered, accepting, asked, termed, commands>>

\* wait_for_owned_descriptor fails through `?` (an invalid proof, an expired
\* proof deadline, the child's exit): the child is not signalled.
AbandonChild(c) ==
    /\ coord[c] = "bound"
    /\ CleanupAndLeave(c)

\* The publication deadline, a foreign descriptor, or a changed identity:
\* terminate_child first.
AbortChild(c) ==
    /\ \/ Advance(c, "bound", "aborting")
       \/ Advance(c, "owned", "aborting")
    /\ termed' = termed \cup {c}
    /\ UNCHANGED <<broker, flock, record, scopeFiles, registries, asked, commands>>

Aborted(c) ==
    /\ coord[c] = "aborting"
    /\ ~BrokerLive(c)
    /\ CleanupAndLeave(c)

\* register_managed_process writes the process registry first ...
Register(c) ==
    /\ coord[c] = "recorded"
    /\ IF accepting /\ [owner |-> c, bound |-> TRUE] \in starting /\ registered \subseteq {c}
       THEN /\ coord' = [coord EXCEPT ![c] = "registering"]
            /\ registered' = registered \cup {c}
            /\ UNCHANGED termed
       ELSE /\ coord' = [coord EXCEPT ![c] = "aborting"]
            /\ termed' = termed \cup {c}
            /\ UNCHANGED registered
    /\ UNCHANGED <<broker, flock, record, scopeFiles, starting, accepting, asked, commands>>

\* ... and removes the reservation second.
DropReservation(c) ==
    /\ Advance(c, "registering", "serving")
    /\ starting' = {e \in starting : e.owner # c}
    /\ UNCHANGED <<broker, flock, record, scopeFiles, registered, accepting, asked, termed, commands>>

\* The select of serve: a shutdown signal or a control request (which waits in
\* the socket's backlog until serve comes this far) ...
StopChild(c) ==
    /\ Advance(c, "serving", "terminating")
    /\ c \in asked
    /\ termed' = termed \cup {c}
    /\ UNCHANGED <<broker, flock, record, scopeFiles, registries, asked, commands>>

\* ... terminate_child kills what does not end within three seconds ...
KillChild(c) ==
    /\ coord[c] \in {"terminating", "aborting"}
    /\ BrokerLive(c)
    /\ broker' = [broker EXCEPT ![c] = "dead"]
    /\ guard' = IF guard = c THEN NoOne ELSE guard
    /\ UNCHANGED <<coord, flock, record, slock, desc, registries, asked, termed, commands>>

\* ... or the child ended.
ChildEnded(c) ==
    /\ coord[c] \in {"serving", "terminating"}
    /\ ~BrokerLive(c)
    /\ coord' = [coord EXCEPT ![c] = "stopping"]
    /\ UNCHANGED <<broker, flock, record, scopeFiles, registries, asked, termed, commands>>

\* remove_descriptor_if_instance; a busy transition guard is an error and
\* serve returns before it unregisters.
RemoveDescriptor(c) ==
    /\ coord[c] = "stopping"
    /\ IF guard = NoOne
       THEN /\ coord' = [coord EXCEPT ![c] = "cleaned"]
            /\ desc' = IF desc = c THEN NoOne ELSE desc
            /\ UNCHANGED flock
       ELSE /\ coord' = [coord EXCEPT ![c] = "gone"]
            /\ flock' = NoOne
            /\ UNCHANGED desc
    /\ UNCHANGED <<broker, record, slock, guard, registries, asked, termed, commands>>

Unregister(c) ==
    /\ Advance(c, "cleaned", "retired")
    /\ registered' = registered \ {c}
    /\ starting' = starting \ {[owner |-> c, bound |-> TRUE]}
    /\ UNCHANGED <<broker, flock, record, scopeFiles, accepting, asked, termed, commands>>

DropLock(c) ==
    /\ Advance(c, "retired", "gone")
    /\ flock' = NoOne
    /\ UNCHANGED <<broker, record, scopeFiles, registries, asked, termed, commands>>

Die(c) ==
    /\ Live(c)
    /\ coord' = [coord EXCEPT ![c] = "dead"]
    /\ flock' = IF flock = c THEN NoOne ELSE flock
    /\ UNCHANGED <<broker, record, scopeFiles, registries, asked, termed, commands>>

CoordinatorStep(c) ==
    \/ AdoptWinner(c) \/ FindNoBroker(c) \/ Reserve(c) \/ Truncate(c) \/ WriteRecord(c)
    \/ Spawn(c) \/ BindStart(c) \/ OwnDescriptor(c) \/ AbortChild(c) \/ Aborted(c)
    \/ Register(c) \/ DropReservation(c) \/ StopChild(c) \/ KillChild(c) \/ ChildEnded(c)
    \/ RemoveDescriptor(c) \/ Unregister(c) \/ DropLock(c)

----------------------------------------------------------------------------
(* The broker: run_broker()                                                 *)

BrokerAdvance(c, from, to) ==
    /\ broker[c] = from
    /\ broker' = [broker EXCEPT ![c] = to]

brokerRest == <<coord, flock, record, registries, asked, termed, commands>>

\* acquire_transition_guard_at does not wait.
TakeGuard(c) ==
    /\ IF guard = NoOne
       THEN BrokerAdvance(c, "starting", "guarded") /\ guard' = c
       ELSE BrokerAdvance(c, "starting", "exited") /\ UNCHANGED guard
    /\ UNCHANGED <<slock, desc, brokerRest>>

\* The no-clobber link of the complete lock file is the commit point.
LinkLock(c) ==
    /\ slock = NoOne
    /\ BrokerAdvance(c, "guarded", "linked")
    /\ slock' = c
    /\ UNCHANGED <<guard, desc, brokerRest>>

OwnerAlive == slock # NoOne /\ BrokerLive(slock)
DescriptorHealthy == desc # NoOne /\ broker[desc] = "serving"

\* The recorded process is alive, or the descriptor still answers.
RefuseSecondOwner(c) ==
    /\ slock # NoOne
    /\ OwnerAlive \/ DescriptorHealthy
    /\ BrokerAdvance(c, "guarded", "exited")
    /\ guard' = NoOne
    /\ UNCHANGED <<slock, desc, brokerRest>>

\* The lock of a dead owner: its descriptor goes first ...
ClearStaleDescriptor(c) ==
    /\ slock # NoOne
    /\ ~OwnerAlive
    /\ ~DescriptorHealthy
    /\ BrokerAdvance(c, "guarded", "cleared")
    /\ desc' = NoOne
    /\ UNCHANGED <<slock, guard, brokerRest>>

\* ... then its lock, and the acquisition is tried again.
UnlinkStaleLock(c) ==
    /\ BrokerAdvance(c, "cleared", "guarded")
    /\ slock' = NoOne
    /\ UNCHANGED <<guard, desc, brokerRest>>

\* A descriptor left by an earlier owner is removed before acquire returns.
FinishAcquire(c) ==
    /\ BrokerAdvance(c, "linked", "locked")
    /\ desc' = NoOne
    /\ guard' = NoOne
    /\ UNCHANGED <<slock, brokerRest>>

\* acquire fails: a file operation does, or another process has the id of a
\* dead owner.  A lock already linked is unlinked again, if that works; the
\* earlier owner's descriptor is gone or still there.
FailAcquire(c) ==
    /\ broker[c] \in {"guarded", "cleared", "linked"}
    /\ broker' = [broker EXCEPT ![c] = "exited"]
    /\ guard' = NoOne
    /\ \/ UNCHANGED <<slock, desc>>
       \/ broker[c] = "linked" /\ slock' \in {NoOne, slock} /\ desc' \in {NoOne, desc}
    /\ UNCHANGED brokerRest

\* recover_broker_state, bind, write_descriptor (which waits for the guard).
PublishDescriptor(c) ==
    /\ guard = NoOne
    /\ BrokerAdvance(c, "locked", "serving")
    /\ desc' = c
    /\ UNCHANGED <<slock, guard, brokerRest>>

\* Recovery, bind or publication fails: run_broker still releases its lock.
FailStartup(c) ==
    /\ BrokerAdvance(c, "locked", "draining")
    /\ UNCHANGED <<scopeFiles, brokerRest>>

\* The lock is released as soon as the drain begins.
StopServing_EarlyMutant(c) ==
    /\ c \in termed \/ ~Live(c)
    /\ BrokerAdvance(c, "serving", "draining")
    /\ desc' = IF guard = NoOne /\ desc = c THEN NoOne ELSE desc
    /\ slock' = IF guard = NoOne /\ slock = c THEN NoOne ELSE slock
    /\ UNCHANGED <<guard, brokerRest>>

\* The broker does not watch its coordinator.
StopServing_Mutant(c) ==
    /\ c \in termed
    /\ BrokerAdvance(c, "serving", "draining")
    /\ desc' = IF guard = NoOne /\ desc = c THEN NoOne ELSE desc
    /\ UNCHANGED <<slock, guard, brokerRest>>

\* A shutdown signal, or EOF on the liveness socket: the descriptor guard
\* removes its own descriptor and ignores a busy transition guard.
StopServing(c) ==
    /\ c \in termed \/ ~Live(c)
    /\ BrokerAdvance(c, "serving", "draining")
    /\ desc' = IF guard = NoOne /\ desc = c THEN NoOne ELSE desc
    /\ UNCHANGED <<slock, guard, brokerRest>>

\* The drain ended or expired: release_nonblocking leaves the lock to stale
\* owner recovery when the transition guard is busy.
ReleaseLock(c) ==
    /\ BrokerAdvance(c, "draining", "exited")
    /\ slock' = IF guard = NoOne /\ slock = c THEN NoOne ELSE slock
    /\ UNCHANGED <<guard, desc, brokerRest>>

BrokerDie(c) ==
    /\ BrokerLive(c)
    /\ broker' = [broker EXCEPT ![c] = "dead"]
    /\ guard' = IF guard = c THEN NoOne ELSE guard
    /\ UNCHANGED <<slock, desc, brokerRest>>

BrokerStep(c) ==
    \/ TakeGuard(c) \/ LinkLock(c) \/ RefuseSecondOwner(c) \/ ClearStaleDescriptor(c)
    \/ UnlinkStaleLock(c) \/ FinishAcquire(c) \/ PublishDescriptor(c)
    \/ StopServing(c) \/ ReleaseLock(c)

----------------------------------------------------------------------------
(* coordinator stop, coordinator restart                                    *)

clientRest == <<coord, broker, record, scopeFiles, registries, termed, remover>>

ClientGoes(pc) == client' = [client EXCEPT !.pc = pc]

\* stop_expected(None)
Stop ==
    /\ "stop" \in Commands
    /\ client.pc = "idle"
    /\ client' = [client EXCEPT !.pc = "stopping", !.mode = "stop"]
    /\ UNCHANGED <<flock, asked, clientRest>>

\* restart reads and proves the descriptor it is to replace.
RestartReads ==
    /\ "restart" \in Commands
    /\ client.pc = "idle"
    /\ \E b \in Coordinators :
          /\ Protected(b)
          /\ client' = [client EXCEPT !.pc = "proved", !.mode = "restart", !.orig = b]
    /\ UNCHANGED <<flock, asked, clientRest>>

\* What wait_for_coordinator_record_for_descriptor accepts.
RecordProves(b) ==
    /\ flock \in Coordinators
    /\ record = Recorded(b)
    /\ Live(b)
    /\ BrokerLive(b)

RestartFindsCoordinator ==
    /\ client.pc = "proved"
    /\ ClientGoes(IF RecordProves(client.orig) THEN "stopping" ELSE "failed")
    /\ UNCHANGED <<flock, asked, clientRest>>

\* The lock is free: stop holds it until it returns.
StopFindsLockFree ==
    /\ client.pc = "stopping"
    /\ flock = NoOne
    /\ flock' = Client
    /\ ClientGoes("holding")
    /\ UNCHANGED <<asked, clientRest>>

StopReturns ==
    /\ client.pc = "holding"
    /\ flock' = NoOne
    /\ ClientGoes(IF client.mode = "stop" THEN "done" ELSE "stopped")
    /\ UNCHANGED <<asked, clientRest>>

\* One round of the loop: the record names the owner to ask; a restart asks
\* only the owner of the instance it proved.
ExpectedOwner ==
    \/ client.mode = "stop"
    \/ record = Recorded(client.orig) /\ desc \in {client.orig, NoOne}

StopAsks ==
    /\ client.pc = "stopping"
    /\ flock \in Coordinators
    /\ record.owner # NoOne
    /\ IF ExpectedOwner
       THEN /\ record.owner \notin asked
            /\ asked' = asked \cup {record.owner}
            /\ client' = [client EXCEPT !.hit = @ \cup {record.owner}]
       ELSE /\ ClientGoes("stopfailed")
            /\ UNCHANGED asked
    /\ UNCHANGED <<flock, clientRest>>

StopTimesOut ==
    /\ client.pc = "stopping"
    /\ ClientGoes(IF client.mode = "stop" THEN "failed" ELSE "stopfailed")
    /\ UNCHANGED <<flock, asked, clientRest>>

\* proved_replacement_after_retirement: after a failed stop, or when another
\* instance's descriptor appears while the old one's absence is awaited.
RestartAdoptsReplacement ==
    /\ client.pc \in {"stopfailed", "stopped"}
    /\ \/ /\ Retired(client.orig)
          /\ \E b \in Coordinators :
                /\ Protected(b)
                /\ client.pc = "stopped" => b # client.orig
                /\ client' = [client EXCEPT !.pc = "validate", !.cand = b]
       \/ ClientGoes("failed")
    /\ UNCHANGED <<flock, asked, clientRest>>

RestartSeesAbsence ==
    /\ client.pc = "stopped"
    /\ desc = NoOne
    /\ ClientGoes("absent")
    /\ UNCHANGED <<flock, asked, clientRest>>

\* ensure adopts a proved broker, or asks Herdr once to run `serve` and waits
\* for a descriptor until its deadline.
EnsureReplacement ==
    /\ client.pc = "absent"
    /\ \/ \E b \in Coordinators :
             Protected(b) /\ client' = [client EXCEPT !.pc = "validate", !.cand = b]
       \/ ClientGoes("failed")
    /\ UNCHANGED <<flock, asked, clientRest>>

\* validate_replacement_after_retirement
RestartValidates ==
    /\ client.pc = "validate"
    /\ ClientGoes(IF /\ Retired(client.orig)
                     /\ Protected(client.cand)
                     /\ client.cand # client.orig
                     /\ RecordProves(client.cand)
                  THEN "done" ELSE "failed")
    /\ UNCHANGED <<flock, asked, clientRest>>

ClientStep ==
    \/ Stop \/ RestartReads \/ RestartFindsCoordinator \/ StopFindsLockFree \/ StopReturns
    \/ StopAsks \/ StopTimesOut \/ RestartAdoptsReplacement \/ RestartSeesAbsence
    \/ EnsureReplacement \/ RestartValidates

----------------------------------------------------------------------------
(* managed remove: drain_managed_processes                                  *)

RemoverGoes(pc) == remover' = [remover EXCEPT !.pc = pc]

\* remove_inner records Removing under the install lock, then drops the lock.
BeginRemoval ==
    /\ "remove" \in Commands
    /\ remover.pc \in {"idle", "failed"}
    /\ accepting' = FALSE
    /\ RemoverGoes("draining")
    /\ UNCHANGED <<coord, broker, flock, record, scopeFiles, starting, registered, asked, termed, client>>

\* One round of the drain: starting entries before registered ones.
DrainNext ==
    /\ remover.pc = "draining"
    /\ \/ \E e \in starting :
             remover' = [pc |-> "coordinator", target |-> e.owner, bound |-> e.bound]
       \/ /\ starting = {}
          /\ \E c \in registered :
                remover' = [pc |-> "registered", target |-> c, bound |-> TRUE]
       \/ starting = {} /\ registered = {} /\ RemoverGoes("drained")
    /\ UNCHANGED <<coord, broker, flock, record, scopeFiles, registries, asked, termed, client>>

\* force_retire_reserved_process for the coordinator of a starting entry; a
\* coordinator that is still starting does not act on SIGTERM.
RetireStartingCoordinator ==
    /\ remover.pc = "coordinator"
    /\ LET c == remover.target IN
       /\ coord' = [coord EXCEPT ![c] = IF Live(c) THEN "dead" ELSE @]
       /\ flock' = IF flock = c THEN NoOne ELSE flock
       /\ termed' = IF remover.bound THEN termed \cup {c} ELSE termed
    /\ RemoverGoes(IF remover.bound THEN "broker" ELSE "unlist")
    /\ UNCHANGED <<broker, record, scopeFiles, registries, asked, client>>

RetireStartingBroker ==
    /\ remover.pc = "broker"
    /\ LET c == remover.target IN
       /\ broker' = [broker EXCEPT ![c] = IF BrokerLive(c) THEN "dead" ELSE @]
       /\ guard' = IF guard = c THEN NoOne ELSE guard
       /\ desc' = IF desc = c /\ guard' = NoOne THEN NoOne ELSE desc
       /\ RemoverGoes(IF desc \notin {c, NoOne} \/ (desc = c /\ guard' # NoOne)
                      THEN "failed" ELSE "unlist")
    /\ UNCHANGED <<coord, flock, record, slock, registries, asked, termed, client>>

\* wait_for_unheld_starting_coordinator_lock, then
\* unregister_managed_process_start of the entry it retired.
UnlistStarting ==
    /\ remover.pc = "unlist"
    /\ \/ /\ flock = NoOne
          /\ record.owner \in {remover.target, NoOne}
          /\ starting' = starting \ {[owner |-> remover.target, bound |-> remover.bound]}
          /\ RemoverGoes("draining")
       \/ /\ flock # NoOne \/ record.owner \notin {remover.target, NoOne}
          /\ RemoverGoes("failed")
          /\ UNCHANGED starting
    /\ UNCHANGED <<coord, broker, flock, record, scopeFiles, registered, accepting, asked, termed, client>>

\* stop_registered_process: an entry whose two processes are gone is
\* reconciled, a live pair is asked to stop ...
Reconcilable(c) ==
    /\ Retired(c)
    /\ \/ desc = NoOne
       \/ desc = c /\ flock = NoOne /\ record = Recorded(c) /\ guard = NoOne

LivePair(c) ==
    /\ Live(c) /\ BrokerLive(c)
    /\ desc = c /\ flock = c /\ record = Recorded(c)

\* ... and anything else is refused: one process alone, a descriptor that is
\* absent or of another instance, another record, a busy transition guard.
StopRegistered ==
    /\ remover.pc = "registered"
    /\ LET c == remover.target IN
       \/ /\ Reconcilable(c)
          /\ desc' = NoOne
          /\ registered' = registered \ {c}
          /\ starting' = starting \ {[owner |-> c, bound |-> TRUE]}
          /\ RemoverGoes("draining")
          /\ UNCHANGED asked
       \/ /\ LivePair(c)
          /\ asked' = asked \cup {c}
          /\ RemoverGoes("awaiting")
          /\ UNCHANGED <<desc, registered, starting>>
       \/ /\ ~Reconcilable(c) /\ ~LivePair(c)
          /\ RemoverGoes("failed")
          /\ UNCHANGED <<desc, registered, starting, asked>>
    /\ UNCHANGED <<coord, broker, flock, record, slock, guard, accepting, termed, client>>

\* The coordinator's lock became free within the deadline, or did not.
AwaitStopped ==
    /\ remover.pc = "awaiting"
    /\ \/ /\ flock = NoOne
          /\ RemoverGoes(IF desc = NoOne /\ Retired(remover.target) THEN "draining" ELSE "failed")
       \/ flock # NoOne /\ RemoverGoes("failed")
    /\ UNCHANGED <<coord, broker, flock, record, scopeFiles, registries, asked, termed, client>>

RemoverStep ==
    \/ BeginRemoval \/ DrainNext \/ RetireStartingCoordinator \/ RetireStartingBroker
    \/ UnlistStarting \/ StopRegistered \/ AwaitStopped

----------------------------------------------------------------------------

SupervisionNext ==
    \/ \E c \in Coordinators :
          \/ Acquire(c) \/ CoordinatorStep(c) \/ GiveUp(c) \/ AbandonChild(c) \/ Die(c)
          \/ BrokerStep(c) \/ FailAcquire(c) \/ FailStartup(c) \/ BrokerDie(c)
    \/ ClientStep
    \/ RemoverStep

SupervisionSpec == SupervisionInit /\ [][SupervisionNext]_supervisionVars

\* Processes that are scheduled take their next step; nothing is assumed of
\* new starts, of the commands, or of when a wait times out.
BrokerFairness == \A c \in Coordinators : WF_supervisionVars(BrokerStep(c))

----------------------------------------------------------------------------
(* Properties                                                               *)

\* At most one broker of the scope has the task database open: from the moment
\* SessionLock::acquire returns to the moment run_broker releases the lock,
\* whatever processes die and however a stale lock is taken over.
OneBrokerOwnsTheStore ==
    Cardinality({c \in Coordinators : broker[c] \in {"locked", "serving", "draining"}}) <= 1

\* Once remove_inner has found both registries empty it goes on to unlink the
\* executables: no coordinator supervises a broker then or later, and the only
\* brokers still alive are orphans that have lost their liveness socket.
DrainLeavesNoPair ==
    remover.pc = "drained" =>
        \A c \in Coordinators :
            /\ coord[c] \in {"idle", "busy", "locked", "clear", "retired", "gone", "dead"}
            /\ BrokerLive(c) => coord[c] \in {"gone", "dead"}

\* A broker whose coordinator has ended, cleanly or by a kill, ends by itself.
OrphansExit ==
    \A c \in Coordinators : (~Live(c) /\ BrokerLive(c)) ~> ~BrokerLive(c)

====
