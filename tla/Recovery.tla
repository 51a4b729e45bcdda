------------------------------ MODULE Recovery ------------------------------
(***************************************************************************)
(* The ConnectionManager of a session process (herdr-a2a-cli recovery.rs)  *)
(* with the callers that share it: requests of the harness and the renewal *)
(* loop (session.rs).  They use one connection, a broker instance and a    *)
(* registration epoch, and recover it when the broker is replaced or the   *)
(* registration lost.  A caller that gives up at its deadline may leave a  *)
(* registration request on its way to the broker.                          *)
(*                                                                         *)
(* MaxInstance, MaxEpoch and MaxFaults bound the restarts of the broker,   *)
(* the registrations, and the lapses, lost answers and early deadlines.    *)
(***************************************************************************)
EXTENDS Integers, FiniteSets

CONSTANTS Callers, MaxInstance, MaxEpoch, MaxFaults, None

RecoveryBounds ==
    /\ None \notin Callers
    /\ {MaxInstance, MaxEpoch, MaxFaults} \subseteq Nat
    /\ MaxInstance > 0 /\ MaxEpoch > 0

VARIABLES
    instance,    \* the newest broker instance, and the one the descriptor names
    up,          \* whether that instance still runs
    watermark,   \* the last registration epoch the broker has given out
    enrolled,    \* the epoch registered with this instance, 0 when none
    orphans,     \* instances that registrations given up by their callers travel to
    current,     \* the connection the manager has installed
    gate,        \* recovery_gate: its holder
    cancelled,   \* the CancellationSignal
    exited,      \* unregister has run, the process ends
    calls,       \* what every caller is at
    faults       \* injected so far

serverSide == <<instance, up, watermark, enrolled, orphans>>
process == <<current, gate, cancelled, exited>>
recoveryVars == <<serverSide, process, calls, faults>>

Idle == [pc |-> "idle"]
Waiting(c) == calls[c].pc \in {"gate", "locked", "establish", "prove", "register", "install"}

Goes(c, rec) == calls' = [calls EXCEPT ![c] = rec]
Moves(c, from, to) == calls[c].pc = from /\ Goes(c, [calls[c] EXCEPT !.pc = to])

Serves(k) == up /\ k.instance = instance
Linked(k) == Serves(k) /\ enrolled = k.epoch

RecoveryInit ==
    /\ instance = 1 /\ up = TRUE
    /\ watermark = 1 /\ enrolled = 1 /\ orphans = {}
    /\ current = [instance |-> 1, epoch |-> 1]
    /\ gate = None /\ cancelled = FALSE /\ exited = FALSE
    /\ calls = [c \in Callers |-> Idle]
    /\ faults = 0

-----------------------------------------------------------------------------
(* The broker, as the session meets it: it dies, a coordinator starts      *)
(* another instance, a registration lapses.                                *)

BrokerDies ==
    /\ up /\ instance < MaxInstance
    /\ up' = FALSE /\ enrolled' = 0
    /\ UNCHANGED <<instance, watermark, orphans, process, calls, faults>>

BrokerStarts ==
    /\ ~up
    /\ up' = TRUE /\ instance' = instance + 1
    /\ UNCHANGED <<watermark, enrolled, orphans, process, calls, faults>>

RegistrationLapses ==
    /\ enrolled # 0 /\ faults < MaxFaults
    /\ faults' = faults + 1 /\ enrolled' = 0
    /\ UNCHANGED <<instance, up, watermark, orphans, process, calls>>

(* A registration whose caller has gone away still reaches the broker, or  *)
(* is lost with its connection.                                            *)
OrphanArrives(i) ==
    /\ i \in orphans /\ orphans' = orphans \ {i}
    /\ IF up /\ i = instance /\ watermark < MaxEpoch
       THEN watermark' = watermark + 1 /\ enrolled' = watermark + 1
       ELSE UNCHANGED <<watermark, enrolled>>
    /\ UNCHANGED <<instance, up, process, calls, faults>>

-----------------------------------------------------------------------------
(* One request on the current connection: send_and_decode and the loops    *)
(* around it.                                                              *)

Use(c) ==
    /\ ~cancelled /\ calls[c].pc \in {"idle", "done"}
    /\ Goes(c, [pc |-> "request", observed |-> current])
    /\ UNCHANGED <<serverSide, process, faults>>

Answered(c) ==
    /\ calls[c].pc = "request" /\ Linked(calls[c].observed)
    /\ Goes(c, Idle)
    /\ UNCHANGED <<serverSide, process, faults>>

Fails(c, mode) ==
    /\ calls[c].pc = "request"
    /\ Goes(c, [pc |-> "gate", observed |-> calls[c].observed, mode |-> mode])
    /\ UNCHANGED <<serverSide, process>>

ConnectionFails(c) ==
    /\ ~cancelled /\ calls[c].pc = "request" /\ ~Serves(calls[c].observed)
    /\ Fails(c, "replacement") /\ UNCHANGED faults

RegistrationRefused(c) ==
    /\ ~cancelled /\ calls[c].pc = "request"
    /\ Serves(calls[c].observed) /\ ~Linked(calls[c].observed)
    /\ Fails(c, "refresh") /\ UNCHANGED faults

AnswerLost(c) ==
    /\ faults < MaxFaults /\ faults' = faults + 1
    /\ Fails(c, "replacement")

StreamEnds(c) ==
    /\ faults < MaxFaults /\ faults' = faults + 1
    /\ Fails(c, "check")

-----------------------------------------------------------------------------
(* recover and recover_if_replaced.                                        *)

lock_recovery(c) ==
    /\ ~cancelled /\ gate = None
    /\ Moves(c, "gate", "locked") /\ gate' = c
    /\ UNCHANGED <<serverSide, current, cancelled, exited, faults>>

Release(c) == gate' = IF gate = c THEN None ELSE gate

Returns(c, k) ==
    /\ Release(c)
    /\ Goes(c, [pc |-> "done", observed |-> calls[c].observed, mode |-> calls[c].mode, got |-> k])

Reusable(installed, observed, mode) ==
    /\ installed # observed
    /\ mode = "refresh" \/ installed.instance # observed.instance

Rejected_Refresh_Mutant(observed, mode) == observed.instance   \* a refresh waits for another broker

Rejected(observed, mode) ==
    IF mode = "refresh" THEN 0 ELSE observed.instance

ReuseInstalled(c) ==
    /\ calls[c].pc = "locked"
    /\ IF calls[c].mode = "check"
       THEN current.instance # calls[c].observed.instance
       ELSE Reusable(current, calls[c].observed, calls[c].mode)
    /\ Returns(c, current)
    /\ UNCHANGED <<serverSide, current, cancelled, exited, faults>>

recover_locked(c) ==
    /\ calls[c].pc = "locked" /\ calls[c].mode # "check"
    /\ ~Reusable(current, calls[c].observed, calls[c].mode)
    /\ Goes(c, [pc |-> "establish", observed |-> calls[c].observed, mode |-> calls[c].mode,
                rejected |-> Rejected(calls[c].observed, calls[c].mode)])
    /\ UNCHANGED <<serverSide, process, faults>>

(* The descriptor is read once under the gate: the same broker, or none    *)
(* that answers, means nothing to recover; another one is tried first.     *)
StillThere(c) ==
    /\ calls[c].pc = "locked" /\ calls[c].mode = "check"
    /\ current.instance = calls[c].observed.instance
    /\ instance = calls[c].observed.instance \/ ~up
    /\ Release(c) /\ Goes(c, Idle)
    /\ UNCHANGED <<serverSide, current, cancelled, exited, faults>>

recover_if_replaced(c) ==
    /\ calls[c].pc = "locked" /\ calls[c].mode = "check"
    /\ current.instance = calls[c].observed.instance
    /\ up /\ instance # calls[c].observed.instance
    /\ Goes(c, [pc |-> "prove", observed |-> calls[c].observed, mode |-> "check",
                rejected |-> Rejected(current, "replacement"), descriptor |-> instance])
    /\ UNCHANGED <<serverSide, process, faults>>

(* establish: launch and read the descriptor, prove the broker, register.  *)
(* Only an unavailable broker is tried again.                              *)
ReadDescriptor(c) ==
    /\ ~cancelled /\ calls[c].pc = "establish" /\ up
    /\ instance # calls[c].rejected
    /\ Goes(c, [pc |-> "prove", observed |-> calls[c].observed, mode |-> calls[c].mode,
                rejected |-> calls[c].rejected, descriptor |-> instance])
    /\ UNCHANGED <<serverSide, process, faults>>

Reaches(c) == up /\ calls[c].descriptor = instance

Prove(c) ==
    /\ ~cancelled
    /\ \/ calls[c].pc = "prove" /\ Reaches(c) /\ Moves(c, "prove", "register")
       \/ /\ calls[c].pc \in {"prove", "register"} /\ ~Reaches(c)
          /\ Goes(c, [pc |-> "establish", observed |-> calls[c].observed,
                      mode |-> calls[c].mode, rejected |-> calls[c].rejected])
    /\ UNCHANGED <<serverSide, process, faults>>

RegisterWithBroker(c) ==
    /\ calls[c].pc = "register" /\ Reaches(c) /\ watermark < MaxEpoch
    /\ watermark' = watermark + 1 /\ enrolled' = watermark + 1
    /\ Goes(c, [pc |-> "install", observed |-> calls[c].observed, mode |-> calls[c].mode,
                got |-> [instance |-> instance, epoch |-> watermark + 1]])
    /\ UNCHANGED <<instance, up, orphans, process, faults>>

Install_Mutant(c) ==                \* the old registration is kept with the new broker
    /\ calls[c].pc = "install"
    /\ current' = [calls[c].got EXCEPT !.epoch = calls[c].observed.epoch]
    /\ Returns(c, calls[c].got)
    /\ UNCHANGED <<serverSide, cancelled, exited, faults>>

Install(c) ==
    /\ calls[c].pc = "install"
    /\ current' = calls[c].got
    /\ Returns(c, calls[c].got)
    /\ UNCHANGED <<serverSide, cancelled, exited, faults>>

-----------------------------------------------------------------------------
(* The deadline of the attempt and the shutdown of the session drop the    *)
(* call wherever it waits; a registration under way stays under way.       *)

Drop(c) ==
    /\ Waiting(c)
    /\ Release(c) /\ Goes(c, Idle)
    /\ orphans' = IF calls[c].pc = "register" THEN orphans \cup {calls[c].descriptor} ELSE orphans
    /\ UNCHANGED <<instance, up, watermark, enrolled, current, cancelled, exited>>

Deadline(c) == faults < MaxFaults /\ faults' = faults + 1 /\ Drop(c)

(* Ten seconds pass for a call that only an unavailable or refused broker  *)
(* keeps waiting.                                                          *)
DeadlineExpires(c) ==
    /\ calls[c].pc = "establish" /\ (~up \/ instance = calls[c].rejected)
    /\ Drop(c) /\ UNCHANGED faults

Cancel ==
    /\ ~cancelled /\ cancelled' = TRUE
    /\ UNCHANGED <<serverSide, current, gate, exited, calls, faults>>

StopsForShutdown(c) == cancelled /\ Drop(c) /\ UNCHANGED faults

GivesUpRequest(c) ==
    /\ cancelled /\ calls[c].pc = "request"
    /\ Goes(c, Idle)
    /\ UNCHANGED <<serverSide, process, faults>>

(* run_loop drains or aborts every request before unregister reads the     *)
(* installed connection.                                                   *)
unregister ==
    /\ cancelled /\ ~exited
    /\ \A c \in Callers : calls[c].pc \in {"idle", "done"}
    /\ exited' = TRUE
    /\ enrolled' = IF Linked(current) THEN 0 ELSE enrolled
    /\ UNCHANGED <<instance, up, watermark, orphans, current, gate, cancelled, calls,
                   faults>>

Requests(c) ==
    \/ Use(c) \/ Answered(c) \/ ConnectionFails(c) \/ RegistrationRefused(c)
    \/ AnswerLost(c) \/ StreamEnds(c) \/ GivesUpRequest(c)

Recovers(c) ==
    \/ lock_recovery(c) \/ ReuseInstalled(c) \/ recover_locked(c) \/ StillThere(c)
    \/ recover_if_replaced(c) \/ ReadDescriptor(c) \/ Prove(c)
    \/ RegisterWithBroker(c) \/ Install(c)

Ends(c) == Deadline(c) \/ DeadlineExpires(c) \/ StopsForShutdown(c)

RecoveryNext ==
    \/ BrokerDies \/ BrokerStarts \/ RegistrationLapses
    \/ \E i \in 1..MaxInstance : OrphanArrives(i)
    \/ \E c \in Callers : Requests(c) \/ Recovers(c) \/ Ends(c)
    \/ Cancel \/ unregister

RecoverySpec == RecoveryInit /\ [][RecoveryNext]_recoveryVars

(* The renewal loop keeps using the connection, the tasks of the runtime   *)
(* are scheduled, timers fire and a dead broker is started again.          *)
RecoveryFairness ==
    /\ WF_recoveryVars(BrokerStarts)
    /\ \A c \in Callers :
        /\ SF_recoveryVars(lock_recovery(c))
        /\ WF_recoveryVars(Use(c) \/ Answered(c) \/ ConnectionFails(c) \/ RegistrationRefused(c))
        /\ WF_recoveryVars(GivesUpRequest(c) \/ DeadlineExpires(c) \/ StopsForShutdown(c))
        /\ WF_recoveryVars(Recovers(c))

-----------------------------------------------------------------------------

(* The installed connection only moves forward: a slow caller never puts   *)
(* back a broker or a registration older than the one installed meanwhile. *)
InstalledMovesForward ==
    [][current' # current =>
          /\ current'.epoch > current.epoch
          /\ current'.instance >= current.instance]_recoveryVars

(* Restarts, lapses and lost answers once over, a session that is not      *)
(* stopped comes to hold a live connection, for good.                      *)
SessionHeals == <>[](cancelled \/ Linked(current))
=============================================================================
