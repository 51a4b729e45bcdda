--------------------------- MODULE ProcessProofs ---------------------------
(***************************************************************************)
(* Proofs about the processes around the broker.  The session process, for *)
(* any number of callers, messages, restarts and losses: the connection it *)
(* has installed only moves forward, and it hands over only what it has    *)
(* acknowledged.  The supervision, for any number of coordinators, brokers *)
(* and commands: one broker of a scope owns the task database.             *)
(***************************************************************************)
EXTENDS Recovery, SessionInbox, Supervision, FiniteSetTheorems, TLAPS

(* The recovery gate and the installed connection.                         *)

Connection == [instance : Nat, epoch : Nat]

Modes == {"replacement", "refresh", "check"}

Call ==
    [pc : {"idle"}]
    \cup [pc : {"request"}, observed : Connection]
    \cup [pc : {"gate", "locked"}, observed : Connection, mode : Modes]
    \cup [pc : {"establish"}, observed : Connection, mode : Modes, rejected : Nat]
    \cup [pc : {"prove", "register"}, observed : Connection, mode : Modes, rejected : Nat, descriptor : Nat]
    \cup [pc : {"install", "done"}, observed : Connection, mode : Modes, got : Connection]

\* The phases of a call under the recovery gate.
UnderGate == {"locked", "establish", "prove", "register", "install"}

RecoveryType ==
    /\ instance \in Nat /\ watermark \in Nat
    /\ current \in Connection
    /\ calls \in [Callers -> Call]

\* One caller at a time recovers.
GateHeld == \A c \in Callers : calls[c].pc \in UnderGate => gate = c

\* What is installed was there, and what is about to be installed is newer.
Newer(k) ==
    /\ k.epoch > current.epoch /\ k.epoch <= watermark
    /\ k.instance >= current.instance /\ k.instance <= instance

Forward ==
    /\ current.instance <= instance /\ current.epoch <= watermark
    /\ \A c \in Callers : calls[c].pc = "install" => Newer(calls[c].got)

Ordered == RecoveryType /\ GateHeld /\ Forward

-----------------------------------------------------------------------------
LEMMA InitOrdered == RecoveryInit => Ordered
<1> SUFFICES ASSUME RecoveryInit PROVE Ordered
  BY Zenon
<1>1. RecoveryType
  BY Zenon DEF RecoveryInit, Idle, RecoveryType, Connection, Call
<1>2. \A c \in Callers : calls[c].pc = "idle"
  BY Zenon DEF RecoveryInit, Idle
<1>3. GateHeld /\ Forward
  BY <1>2 DEF RecoveryInit, GateHeld, UnderGate, Forward
<1>4. QED
  BY <1>1, <1>3, Zenon DEF Ordered

\* The broker and its epochs go on; the callers stay where they are.
LEMMA BrokerKeepsOrdered ==
    ASSUME Ordered, instance' \in Nat, watermark' \in Nat,
           instance' >= instance, watermark' >= watermark,
           UNCHANGED <<current, gate, calls>>
    PROVE  Ordered'
<1>1. RecoveryType' /\ GateHeld'
  BY Zenon DEF Ordered, RecoveryType, GateHeld
<1>2. \A c \in Callers : calls[c].pc = "install" => calls[c].got \in Connection
  BY Zenon DEF Ordered, RecoveryType, Call
<1>3. Forward'
  BY <1>2 DEF Ordered, RecoveryType, Forward, Newer, Connection
<1>4. QED
  BY <1>1, <1>3, Zenon DEF Ordered

\* A caller goes to a phase outside the gate, or stays under it, or has just
\* taken it, and is not about to install.
LEMMA CallerKeepsOrdered ==
    ASSUME Ordered, NEW c \in Callers, NEW r \in Call,
           calls' = [calls EXCEPT ![c] = r], UNCHANGED <<instance, watermark, current>>,
           r.pc # "install",
           \/ r.pc \in UnderGate /\ gate' = c /\ (gate = c \/ \A d \in Callers : calls[d].pc \notin UnderGate)
           \/ r.pc \notin UnderGate /\ (gate' = gate \/ gate = c)
    PROVE  Ordered'
<1>1. \A d \in Callers : calls'[d] = IF d = c THEN r ELSE calls[d]
  BY Zenon DEF Ordered, RecoveryType
<1>2. RecoveryType'
  BY Zenon DEF Ordered, RecoveryType
<1>3. GateHeld'
  BY <1>1 DEF Ordered, GateHeld
<1>4. Forward'
  BY <1>1, Zenon DEF Ordered, Forward, Newer
<1>5. QED
  BY <1>2, <1>3, <1>4, Zenon DEF Ordered

\* The shapes a call can have in each phase.
LEMMA CallShapes ==
    ASSUME Ordered, NEW c \in Callers
    PROVE  /\ calls[c].pc = "request" => calls[c].observed \in Connection
           /\ calls[c].pc \in {"gate", "locked"} =>
                 calls[c] \in [pc : {"gate", "locked"}, observed : Connection, mode : Modes]
           /\ calls[c].pc = "establish" =>
                 calls[c] \in [pc : {"establish"}, observed : Connection, mode : Modes, rejected : Nat]
           /\ calls[c].pc \in {"prove", "register"} =>
                 calls[c] \in [pc : {"prove", "register"}, observed : Connection, mode : Modes,
                               rejected : Nat, descriptor : Nat]
           /\ calls[c].pc = "install" =>
                 calls[c] \in [pc : {"install", "done"}, observed : Connection, mode : Modes, got : Connection]
BY Zenon DEF Ordered, RecoveryType, Call

LEMMA RequestsKeepOrdered ==
    ASSUME Ordered, NEW c \in Callers, Requests(c)
    PROVE  Ordered'
<1>1. CASE Use(c)
  <2>1. [pc |-> "request", observed |-> current] \in Call
    BY Zenon DEF Ordered, RecoveryType, Call
  <2>2. QED
    BY <1>1, <2>1, CallerKeepsOrdered, Zenon DEF Use, Goes, serverSide, process, UnderGate
<1>2. CASE Answered(c) \/ GivesUpRequest(c)
  <2>1. Idle \in Call /\ Idle.pc = "idle"
    BY Zenon DEF Idle, Call
  <2>2. QED
    BY <1>2, <2>1, CallerKeepsOrdered, Zenon DEF Answered, GivesUpRequest, Goes, serverSide, process, UnderGate
<1>3. ASSUME NEW mode \in Modes, Fails(c, mode) PROVE Ordered'
  <2>1. [pc |-> "gate", observed |-> calls[c].observed, mode |-> mode] \in Call
    BY <1>3, CallShapes, Zenon DEF Fails, Call
  <2>2. QED
    BY <1>3, <2>1, CallerKeepsOrdered, Zenon DEF Fails, Goes, serverSide, process, UnderGate
<1>4. QED
  BY <1>1, <1>2, <1>3, Zenon
  DEF Requests, ConnectionFails, RegistrationRefused, AnswerLost, StreamEnds, Modes

LEMMA DropKeepsOrdered ==
    ASSUME Ordered, NEW c \in Callers, Drop(c)
    PROVE  Ordered'
<1>1. Idle \in Call /\ Idle.pc = "idle"
  BY Zenon DEF Idle, Call
<1>2. QED
  BY <1>1, CallerKeepsOrdered, Zenon DEF Drop, Goes, Release, UnderGate

\* Returns hands the gate back with a connection.
LEMMA ReturnsLeavesGate ==
    ASSUME Ordered, NEW c \in Callers, calls[c].pc \in {"locked", "install"},
           NEW k \in Connection, Returns(c, k)
    PROVE  \E r \in Call : r.pc = "done" /\ calls' = [calls EXCEPT ![c] = r] /\ gate' = None
<1>1. [pc |-> "done", observed |-> calls[c].observed, mode |-> calls[c].mode, got |-> k] \in Call
  BY CallShapes, Zenon DEF Call
<1>2. gate = c
  BY Zenon DEF Ordered, GateHeld, UnderGate
<1>3. QED
  BY <1>1, <1>2, Zenon DEF Returns, Release, Goes

\* lock_recovery: the gate is free, so that nobody is under it.
LEMMA LockKeepsOrdered ==
    ASSUME RecoveryBounds, Ordered, NEW c \in Callers, lock_recovery(c)
    PROVE  Ordered'
<1>1. calls[c] \in [pc : {"gate", "locked"}, observed : Connection, mode : Modes]
  BY CallShapes, Zenon DEF lock_recovery, Moves
<1>2. PICK r \in Call : r.pc = "locked" /\ calls' = [calls EXCEPT ![c] = r]
  <2>1. [calls[c] EXCEPT !.pc = "locked"] \in Call /\ [calls[c] EXCEPT !.pc = "locked"].pc = "locked"
    BY <1>1, Zenon DEF Call
  <2>2. QED
    BY <2>1, Zenon DEF lock_recovery, Moves, Goes
<1>3. \A d \in Callers : calls[d].pc \notin UnderGate
  BY Zenon DEF lock_recovery, RecoveryBounds, Ordered, GateHeld
<1>4. QED
  BY <1>2, <1>3, CallerKeepsOrdered, Zenon DEF lock_recovery, serverSide, UnderGate

\* The steps under the gate that neither take it nor install.
LEMMA EstablishKeepsOrdered ==
    ASSUME Ordered, NEW c \in Callers,
           \/ ReuseInstalled(c) \/ recover_locked(c) \/ StillThere(c)
           \/ recover_if_replaced(c) \/ ReadDescriptor(c) \/ Prove(c)
    PROVE  Ordered'
<1>1. calls[c].pc \in UnderGate => gate = c
  BY Zenon DEF Ordered, GateHeld
<1>2. CASE ReuseInstalled(c)
  <2>1. current \in Connection
    BY Zenon DEF Ordered, RecoveryType
  <2>2. \E r \in Call : r.pc = "done" /\ calls' = [calls EXCEPT ![c] = r] /\ gate' = None
    BY <1>2, <2>1, ReturnsLeavesGate, Zenon DEF ReuseInstalled
  <2>3. QED
    BY <1>1, <1>2, <2>2, CallerKeepsOrdered, Zenon DEF ReuseInstalled, serverSide, UnderGate
<1>3. CASE StillThere(c)
  <2>1. Idle \in Call /\ Idle.pc = "idle"
    BY Zenon DEF Idle, Call
  <2>2. QED
    BY <1>3, <2>1, CallerKeepsOrdered, Zenon DEF StillThere, Goes, Release, serverSide, UnderGate
<1>4. CASE recover_locked(c)
  <2>1. Rejected(calls[c].observed, calls[c].mode) \in Nat
    BY <1>4, CallShapes, Zenon DEF recover_locked, Rejected, Connection
  <2>2. [pc |-> "establish", observed |-> calls[c].observed, mode |-> calls[c].mode,
         rejected |-> Rejected(calls[c].observed, calls[c].mode)] \in Call
    BY <1>4, <2>1, CallShapes, Zenon DEF recover_locked, Call
  <2>3. QED
    BY <1>1, <1>4, <2>2, CallerKeepsOrdered, Zenon DEF recover_locked, Goes, serverSide, process, UnderGate
<1>5. CASE recover_if_replaced(c)
  <2>1. Rejected(current, "replacement") \in Nat /\ instance \in Nat
    BY Zenon DEF Ordered, RecoveryType, Rejected, Connection
  <2>2. [pc |-> "prove", observed |-> calls[c].observed, mode |-> "check",
         rejected |-> Rejected(current, "replacement"), descriptor |-> instance] \in Call
    BY <1>5, <2>1, CallShapes, Zenon DEF recover_if_replaced, Call, Modes
  <2>3. QED
    BY <1>1, <1>5, <2>2, CallerKeepsOrdered, Zenon DEF recover_if_replaced, Goes, serverSide, process, UnderGate
<1>6. CASE ReadDescriptor(c)
  <2>1. [pc |-> "prove", observed |-> calls[c].observed, mode |-> calls[c].mode,
         rejected |-> calls[c].rejected, descriptor |-> instance] \in Call
    BY <1>6, CallShapes, Zenon DEF ReadDescriptor, Call, Ordered, RecoveryType
  <2>2. QED
    BY <1>1, <1>6, <2>1, CallerKeepsOrdered, Zenon DEF ReadDescriptor, Goes, serverSide, process, UnderGate
<1>7. CASE Prove(c)
  <2>1. calls[c].pc \in {"prove", "register"}
    BY <1>7, Zenon DEF Prove
  <2>2. calls[c] \in [pc : {"prove", "register"}, observed : Connection, mode : Modes,
                      rejected : Nat, descriptor : Nat]
    BY <2>1, CallShapes, Zenon
  <2>3. /\ [calls[c] EXCEPT !.pc = "register"] \in Call
        /\ [calls[c] EXCEPT !.pc = "register"].pc = "register"
    BY <2>2, Zenon DEF Call
  <2>4. [pc |-> "establish", observed |-> calls[c].observed,
         mode |-> calls[c].mode, rejected |-> calls[c].rejected] \in Call
    BY <2>2, Zenon DEF Call
  <2>5. \E r \in Call : r.pc \in {"register", "establish"} /\ calls' = [calls EXCEPT ![c] = r]
    BY <1>7, <2>3, <2>4, Zenon DEF Prove, Moves, Goes
  <2>6. QED
    BY <1>1, <1>7, <2>1, <2>5, CallerKeepsOrdered, Zenon DEF Prove, serverSide, process, UnderGate
<1>8. QED
  BY <1>2, <1>3, <1>4, <1>5, <1>6, <1>7, Zenon

\* The registration of the broker at hand has the largest epoch there is.
LEMMA RegisterKeepsOrdered ==
    ASSUME Ordered, NEW c \in Callers, RegisterWithBroker(c)
    PROVE  Ordered'
<1> DEFINE k == [instance |-> instance, epoch |-> watermark + 1]
           r == [pc |-> "install", observed |-> calls[c].observed, mode |-> calls[c].mode, got |-> k]
<1>1. k \in Connection /\ k.instance = instance /\ k.epoch = watermark + 1
  BY DEF Ordered, RecoveryType, Connection
<1>2. r \in Call /\ r.pc = "install" /\ r.got = k
  BY <1>1, CallShapes, Zenon DEF RegisterWithBroker, Call
<1>3. /\ watermark' = watermark + 1 /\ calls' = [calls EXCEPT ![c] = r]
      /\ UNCHANGED <<instance, current, gate>>
  BY Zenon DEF RegisterWithBroker, Goes, process
<1>4. \A d \in Callers : calls'[d] = IF d = c THEN r ELSE calls[d]
  BY <1>3, Zenon DEF Ordered, RecoveryType
<1>5. RecoveryType'
  BY <1>2, <1>3 DEF Ordered, RecoveryType
<1>6. GateHeld'
  BY <1>2, <1>3, <1>4, Zenon DEF Ordered, GateHeld, RegisterWithBroker, UnderGate
<1>7. \A d \in Callers : calls[d].pc = "install" => calls[d].got \in Connection
  BY CallShapes, Zenon
<1>8. Forward'
  BY <1>1, <1>2, <1>3, <1>4, <1>7 DEF Ordered, RecoveryType, Forward, Newer, Connection
<1>9. QED
  BY <1>5, <1>6, <1>8, Zenon DEF Ordered

\* The caller that installs is the only one under the gate, so that nothing
\* has been installed since it registered.
LEMMA InstallKeepsOrdered ==
    ASSUME Ordered, NEW c \in Callers, Install(c)
    PROVE  Ordered' /\ Newer(current')
<1>1. calls[c].got \in Connection /\ Newer(calls[c].got) /\ gate = c
  BY CallShapes, Zenon DEF Install, Ordered, Forward, GateHeld, UnderGate
<1>2. PICK r \in Call : r.pc = "done" /\ calls' = [calls EXCEPT ![c] = r] /\ gate' = None
  BY <1>1, ReturnsLeavesGate, Zenon DEF Install
<1>3. current' = calls[c].got /\ UNCHANGED <<instance, watermark>>
  BY Zenon DEF Install, serverSide
<1>4. \A d \in Callers : calls'[d] = IF d = c THEN r ELSE calls[d]
  BY <1>2, Zenon DEF Ordered, RecoveryType
<1>5. \A d \in Callers : calls'[d].pc \notin UnderGate
  BY <1>1, <1>2, <1>4, Zenon DEF Ordered, GateHeld, UnderGate
<1>6. RecoveryType'
  BY <1>1, <1>2, <1>3, Zenon DEF Ordered, RecoveryType
<1>7. GateHeld'
  BY <1>5, Zenon DEF GateHeld
<1>8. Forward'
  BY <1>1, <1>3, <1>5, Zenon DEF Forward, Newer, UnderGate
<1>9. QED
  BY <1>1, <1>3, <1>6, <1>7, <1>8, Zenon DEF Ordered

\* Every step keeps the order, and one that installs moves the connection
\* forward.
LEMMA StepKeepsOrdered ==
    ASSUME RecoveryBounds, Ordered, [RecoveryNext]_recoveryVars
    PROVE  Ordered' /\ (current' # current => Newer(current'))
<1>1. CASE BrokerDies \/ BrokerStarts \/ RegistrationLapses \/ Cancel \/ unregister \/ UNCHANGED recoveryVars
  <2>1. /\ instance' \in Nat /\ watermark' \in Nat
        /\ instance' >= instance /\ watermark' >= watermark
        /\ UNCHANGED <<current, gate, calls>>
    BY <1>1 DEF BrokerDies, BrokerStarts, RegistrationLapses, Cancel, unregister, recoveryVars, serverSide, process,
                Ordered, RecoveryType
  <2>2. QED
    BY <2>1, BrokerKeepsOrdered, Zenon
<1>2. ASSUME NEW i \in 1..MaxInstance, OrphanArrives(i)
      PROVE  Ordered' /\ current' = current
  <2>1. /\ instance' \in Nat /\ watermark' \in Nat
        /\ instance' >= instance /\ watermark' >= watermark
        /\ UNCHANGED <<current, gate, calls>>
    BY <1>2 DEF OrphanArrives, process, Ordered, RecoveryType
  <2>2. QED
    BY <2>1, BrokerKeepsOrdered, Zenon
<1>3. ASSUME NEW c \in Callers, Requests(c)
      PROVE  Ordered' /\ current' = current
  <2>1. current' = current
    BY <1>3, Zenon DEF Requests, Use, Answered, ConnectionFails, RegistrationRefused, AnswerLost, StreamEnds,
                GivesUpRequest, Fails, process
  <2>2. QED
    BY <1>3, <2>1, RequestsKeepOrdered, Zenon
<1>4. ASSUME NEW c \in Callers, Ends(c)
      PROVE  Ordered' /\ current' = current
  BY <1>4, DropKeepsOrdered, Zenon DEF Ends, Deadline, DeadlineExpires, StopsForShutdown, Drop
<1>5. ASSUME NEW c \in Callers, Recovers(c)
      PROVE  Ordered' /\ (current' # current => Newer(current'))
  <2>1. CASE Install(c)
    BY <2>1, InstallKeepsOrdered, Zenon
  <2>2. CASE RegisterWithBroker(c)
    BY <2>2, RegisterKeepsOrdered, Zenon DEF RegisterWithBroker, process
  <2>3. CASE lock_recovery(c)
    BY <2>3, LockKeepsOrdered, Zenon DEF lock_recovery
  <2>4. CASE \/ ReuseInstalled(c) \/ recover_locked(c) \/ StillThere(c)
             \/ recover_if_replaced(c) \/ ReadDescriptor(c) \/ Prove(c)
    <3>1. current' = current
      BY <2>4, Zenon DEF ReuseInstalled, recover_locked, StillThere, recover_if_replaced, ReadDescriptor, Prove,
                  process
    <3>2. QED
      BY <2>4, <3>1, EstablishKeepsOrdered, Zenon
  <2>5. QED
    BY <1>5, <2>1, <2>2, <2>3, <2>4, Zenon DEF Recovers
<1>6. QED
  BY <1>1, <1>2, <1>3, <1>4, <1>5, Zenon DEF RecoveryNext

-----------------------------------------------------------------------------
\* However many callers recover at once, give up or are dropped with a
\* registration under way, recover (recovery.rs) never installs a broker or a
\* registration older than the one the session already has.
THEOREM ConnectionMovesForward ==
    ASSUME RecoveryBounds
    PROVE  RecoverySpec => InstalledMovesForward
<1>1. RecoveryInit => Ordered
  BY InitOrdered, Zenon
<1>2. Ordered /\ [RecoveryNext]_recoveryVars => Ordered'
  BY StepKeepsOrdered, Zenon
<1>3. Ordered /\ [RecoveryNext]_recoveryVars =>
         [current' # current => /\ current'.epoch > current.epoch
                                /\ current'.instance >= current.instance]_recoveryVars
  BY StepKeepsOrdered, Zenon DEF Newer
<1>4. QED
  BY <1>1, <1>2, <1>3, PTL DEF RecoverySpec, InstalledMovesForward

-----------------------------------------------------------------------------
(* Lease, acknowledge, hand over.                                          *)

Delivery == [message : Messages, attempt : Nat]

Request == [delivery : Delivery, by : Nat, instance : Nat]

SessionConnection == [instance : Nat, registration : Nat]

\* The call while it acknowledges has its request with it; in the other phases
\* only the delivery, if any, is of interest.
Acking == {"acking", "acked", "refused", "auth_lost"}

WaitCall ==
    [pc : {"idle"}]
    \cup [pc : {"waiting"}, conn : SessionConnection]
    \cup [pc : {"ack"}, delivery : Delivery]
    \cup [pc : Acking, delivery : Delivery, conn : SessionConnection, request : Request]
    \cup [pc : {"recover"}, mode : {"replacement", "refresh"}, conn : SessionConnection,
          delivery : Delivery \cup {NoMessage}]

InboxType ==
    /\ server \in Nat /\ registration \in Nat
    /\ row \in [Messages -> [state : {"queued", "leased", "acknowledged"}, owner : Nat, attempt : Nat]]
    /\ posted \subseteq Request
    /\ call \in WaitCall
    /\ handed \subseteq Delivery

\* The answer that the session has read, or that is on its way to it, is true:
\* an acknowledged row is never leased or queued again.
AnswerIsTrue ==
    /\ call.pc \in Acking => call.request.delivery = call.delivery
    /\ call.pc = "acked" => row[call.delivery.message].state = "acknowledged"

Durable == InboxType /\ AnswerIsTrue /\ HandedIsAcknowledged

AckedStays ==
    \A m \in Messages : row[m].state = "acknowledged" => row'[m].state = "acknowledged"

-----------------------------------------------------------------------------
\* A step that acknowledges nothing new, forgets no acknowledgement and does
\* not touch what was handed over.
LEMMA StepsKeepDurable ==
    ASSUME Durable, InboxType', AckedStays, handed' = handed,
           call' = call \/ call'.pc \notin Acking
    PROVE  Durable'
<1>1. HandedIsAcknowledged'
  BY Zenon DEF Durable, InboxType, HandedIsAcknowledged, AckedStays, Delivery
<1>2. AnswerIsTrue'
  <2>1. CASE call'.pc \notin Acking
    BY <2>1, Zenon DEF AnswerIsTrue, Acking
  <2>2. CASE call' = call /\ call.pc \in Acking
    <3>1. call \in [pc : Acking, delivery : Delivery, conn : SessionConnection, request : Request]
      BY <2>2, Zenon DEF Durable, InboxType, WaitCall, Acking
    <3>2. call.delivery.message \in Messages
      BY <3>1, Zenon DEF Delivery
    <3>3. QED
      BY <2>2, <3>2, Zenon DEF Durable, AnswerIsTrue, AckedStays
  <2>3. QED
    BY <2>1, <2>2, Zenon
<1>3. QED
  BY <1>1, <1>2, Zenon DEF Durable

LEMMA InitDurable == SessionInit => Durable
BY DEF SessionInit, NoCall, Durable, InboxType, WaitCall, AnswerIsTrue, HandedIsAcknowledged, Acking, Delivery

LEMMA RequeuedKeepsAcked ==
    ASSUME InboxType, row' = Requeued(row)
    PROVE  /\ row' \in [Messages -> [state : {"queued", "leased", "acknowledged"}, owner : Nat, attempt : Nat]]
           /\ AckedStays
BY Zenon DEF InboxType, Requeued, AckedStays

\* Restarts, lapses and expired leases requeue leased rows only.
LEMMA BrokerKeepsDurable ==
    ASSUME Durable,
           \/ ServerDies \/ ServerStarts \/ SessionLapses \/ RenewalRecovers
           \/ \E m \in Messages : LeaseExpires(m)
    PROVE  Durable'
<1>1. CASE ServerDies \/ RenewalRecovers
  <2>1. InboxType' /\ AckedStays /\ UNCHANGED <<call, handed>>
    BY <1>1 DEF ServerDies, RenewalRecovers, serverVars, Durable, InboxType, AckedStays
  <2>2. QED
    BY <2>1, StepsKeepDurable, Zenon
<1>2. CASE ServerStarts \/ SessionLapses
  <2>1. row' = Requeued(row) /\ UNCHANGED <<call, handed>>
    BY <1>2, Zenon DEF ServerStarts, SessionLapses
  <2>2. InboxType' /\ AckedStays
    BY <1>2, <2>1, RequeuedKeepsAcked DEF ServerStarts, SessionLapses, Durable, InboxType
  <2>3. QED
    BY <2>1, <2>2, StepsKeepDurable, Zenon
<1>3. ASSUME NEW m \in Messages, LeaseExpires(m) PROVE Durable'
  <2>1. row' \in [Messages -> [state : {"queued", "leased", "acknowledged"}, owner : Nat, attempt : Nat]]
    BY <1>3 DEF LeaseExpires, Durable, InboxType
  <2>2. InboxType'
    BY <1>3, <2>1, Zenon DEF LeaseExpires, Durable, InboxType
  <2>3. AckedStays
    BY <1>3, Zenon DEF LeaseExpires, Durable, InboxType, AckedStays
  <2>4. QED
    BY <1>3, <2>2, <2>3, StepsKeepDurable, Zenon DEF LeaseExpires
<1>4. QED
  BY <1>1, <1>2, <1>3, Zenon

\* ack_delivery sets a row to acknowledged, and the answer says so.
LEMMA AckArrivesKeepsDurable ==
    ASSUME Durable, NEW p \in posted, AckArrives(p)
    PROVE  Durable'
<1>1. p \in Request /\ p.delivery.message \in Messages
  BY Zenon DEF Durable, InboxType, Request, Delivery
<1>2. /\ row' \in [Messages -> [state : {"queued", "leased", "acknowledged"}, owner : Nat, attempt : Nat]]
      /\ AckedStays
      /\ Acknowledges(p) => row'[p.delivery.message].state = "acknowledged"
  BY <1>1, Zenon DEF AckArrives, Durable, InboxType, AckedStays
<1>3. CASE call.pc = "acking" /\ call.request = p
  <2>1. call \in [pc : Acking, delivery : Delivery, conn : SessionConnection, request : Request]
    BY <1>3, Zenon DEF Durable, InboxType, WaitCall, Acking
  <2>2. PICK pc \in {"acked", "refused", "auth_lost"} :
          call' = [call EXCEPT !.pc = pc] /\ (pc = "acked" => Acknowledges(p))
    <3>1. CASE Acknowledges(p)
      BY <1>3, <3>1, Zenon DEF AckArrives
    <3>2. CASE ~Acknowledges(p) /\ p.by = registration /\ accepted
      BY <1>3, <3>2, Zenon DEF AckArrives
    <3>3. CASE ~Acknowledges(p) /\ ~(p.by = registration /\ accepted)
      BY <1>3, <3>3, Zenon DEF AckArrives
    <3>4. QED
      BY <3>1, <3>2, <3>3, Zenon
  <2>3. call' \in [pc : Acking, delivery : Delivery, conn : SessionConnection, request : Request]
    BY <2>1, <2>2, Zenon DEF Acking
  <2>4. call'.pc = pc /\ call'.delivery = call.delivery /\ call'.request = call.request
    BY <2>1, <2>2, Zenon
  <2>5. call.request.delivery = call.delivery
    BY <1>3, Zenon DEF Durable, AnswerIsTrue, Acking
  <2>6. InboxType'
    BY <1>2, <2>3, Zenon DEF AckArrives, Durable, InboxType, WaitCall
  <2>7. AnswerIsTrue'
    BY <1>2, <1>3, <2>2, <2>4, <2>5, Zenon DEF AnswerIsTrue
  <2>8. HandedIsAcknowledged'
    BY <1>2, Zenon DEF AckArrives, Durable, InboxType, HandedIsAcknowledged, AckedStays, Delivery
  <2>9. QED
    BY <2>6, <2>7, <2>8, Zenon DEF Durable
<1>4. CASE ~(call.pc = "acking" /\ call.request = p)
  <2>1. call' = call
    BY <1>4, Zenon DEF AckArrives
  <2>2. InboxType'
    BY <1>2, <2>1, Zenon DEF AckArrives, Durable, InboxType
  <2>3. QED
    BY <1>2, <2>1, <2>2, StepsKeepDurable, Zenon DEF AckArrives
<1>5. QED
  BY <1>3, <1>4, Zenon

\* A lease takes a queued row.
LEMMA LeasesKeepsAcked ==
    ASSUME Durable, NEW m \in Messages, Leases(m)
    PROVE  /\ row' \in [Messages -> [state : {"queued", "leased", "acknowledged"}, owner : Nat, attempt : Nat]]
           /\ AckedStays
BY DEF Leases, Durable, InboxType, AckedStays

LEMMA LeaseKeepsDurable ==
    ASSUME Durable, NEW m \in Messages, LeaseAnswered(m) \/ LeaseLost(m)
    PROVE  Durable'
<1>1. /\ row' \in [Messages -> [state : {"queued", "leased", "acknowledged"}, owner : Nat, attempt : Nat]]
      /\ AckedStays
  BY LeasesKeepsAcked, Zenon DEF LeaseAnswered, LeaseLost
<1>2. row[m].attempt \in Nat
  BY Zenon DEF Durable, InboxType
<1>3. CASE LeaseAnswered(m)
  <2>1. call' \in [pc : {"ack"}, delivery : Delivery] /\ UNCHANGED <<server, registration, posted, handed>>
    BY <1>2, <1>3 DEF LeaseAnswered, WaitGoes, Delivery
  <2>2. InboxType' /\ call'.pc \notin Acking
    BY <1>1, <2>1, Zenon DEF Durable, InboxType, WaitCall, Acking
  <2>3. QED
    BY <1>1, <2>1, <2>2, StepsKeepDurable, Zenon
<1>4. CASE LeaseLost(m)
  <2>1. call \in [pc : {"waiting"}, conn : SessionConnection]
    BY <1>4, Zenon DEF LeaseLost, Durable, InboxType, WaitCall, Acking
  <2>2. call' \in [pc : {"recover"}, mode : {"replacement", "refresh"}, conn : SessionConnection,
                   delivery : Delivery \cup {NoMessage}]
    BY <1>4, <2>1, Zenon DEF LeaseLost, WaitGoes
  <2>3. InboxType' /\ call'.pc \notin Acking
    BY <1>1, <1>4, <2>2, Zenon DEF LeaseLost, Durable, InboxType, WaitCall, Acking
  <2>4. QED
    BY <1>1, <1>4, <2>3, StepsKeepDurable, Zenon DEF LeaseLost
<1>5. QED
  BY <1>3, <1>4, Zenon

\* The call goes to a phase in which it awaits no acknowledgement.
LEMMA CallKeepsDurable ==
    ASSUME Durable, UNCHANGED <<server, row, posted, handed>>, registration' \in Nat,
           call' \in WaitCall, call'.pc \notin Acking
    PROVE  Durable'
<1>1. InboxType' /\ AckedStays
  BY Zenon DEF Durable, InboxType, AckedStays
<1>2. QED
  BY <1>1, StepsKeepDurable, Zenon

LEMMA WaitKeepsDurable ==
    ASSUME Durable,
           \/ wait_for_message \/ WaitFails \/ AckConnectionFails \/ AckAnswerLost
           \/ AckUnauthenticated \/ AckRefused \/ RecoveryExpires \/ OutageOutlasts
           \/ WaitExpires
    PROVE  Durable'
<1>1. Conn \in SessionConnection /\ NoCall \in WaitCall /\ NoCall.pc \notin Acking
  BY Zenon DEF Conn, SessionConnection, NoCall, WaitCall, Acking, Durable, InboxType
<1>2. CASE wait_for_message
  <2>1. call' \in WaitCall /\ call'.pc \notin Acking
    BY <1>1, <1>2, Zenon DEF wait_for_message, WaitGoes, WaitCall, Acking
  <2>2. QED
    BY <1>2, <2>1, CallKeepsDurable, Zenon DEF wait_for_message, serverVars, Durable, InboxType
<1>3. CASE WaitFails
  <2>1. call \in [pc : {"waiting"}, conn : SessionConnection]
    BY <1>3, Zenon DEF WaitFails, Durable, InboxType, WaitCall, Acking
  <2>2. call' \in WaitCall /\ call'.pc \notin Acking
    BY <1>3, <2>1, Zenon DEF WaitFails, WaitGoes, WaitCall, Acking
  <2>3. QED
    BY <1>3, <2>2, CallKeepsDurable, Zenon DEF WaitFails, serverVars, Durable, InboxType
<1>4. CASE AckConnectionFails \/ AckAnswerLost \/ AckUnauthenticated
  <2>1. call.pc \in Acking
    BY <1>4, Zenon DEF AckConnectionFails, AckAnswerLost, AckUnauthenticated, Acking
  <2>2. call \in [pc : Acking, delivery : Delivery, conn : SessionConnection, request : Request]
    BY <2>1, Zenon DEF Durable, InboxType, WaitCall, Acking
  <2>3. call' \in WaitCall /\ call'.pc \notin Acking
    BY <1>4, <2>2 DEF AckConnectionFails, AckAnswerLost, AckUnauthenticated, WaitGoes, WaitCall, Acking
  <2>4. QED
    BY <1>4, <2>3, CallKeepsDurable, Zenon
    DEF AckConnectionFails, AckAnswerLost, AckUnauthenticated, serverVars, Durable, InboxType
<1>5. CASE AckRefused \/ RecoveryExpires \/ OutageOutlasts \/ WaitExpires
  BY <1>1, <1>5, CallKeepsDurable, Zenon
  DEF AckRefused, RecoveryExpires, OutageOutlasts, WaitExpires, WaitGoes, serverVars, Durable, InboxType
<1>6. QED
  BY <1>2, <1>3, <1>4, <1>5, Zenon

LEMMA RecoveredKeepsDurable ==
    ASSUME Durable, Recovered
    PROVE  Durable'
<1>1. call \in [pc : {"recover"}, mode : {"replacement", "refresh"}, conn : SessionConnection,
                delivery : Delivery \cup {NoMessage}]
  BY Zenon DEF Recovered, Durable, InboxType, WaitCall, Acking
<1>2. registration' \in Nat /\ server' = server
  BY DEF Recovered, Reregisters, serverVars, Durable, InboxType
<1>3. Conn' \in SessionConnection
  BY <1>2, Zenon DEF Conn, SessionConnection, Durable, InboxType
<1>4. call' \in WaitCall /\ call'.pc \notin Acking
  <2>1. CASE call.delivery = NoMessage
    BY <1>3, <2>1, Zenon DEF Recovered, WaitGoes, After, WaitCall, Acking
  <2>2. CASE call.delivery # NoMessage
    BY <1>1, <2>2, Zenon DEF Recovered, WaitGoes, After, WaitCall, Acking
  <2>3. QED
    BY <2>1, <2>2, Zenon
<1>5. QED
  BY <1>2, <1>4, CallKeepsDurable, Zenon DEF Recovered, serverVars

LEMMA AcknowledgeKeepsDurable ==
    ASSUME Durable, acknowledge_delivery
    PROVE  Durable'
<1>1. call \in [pc : {"ack"}, delivery : Delivery]
  BY Zenon DEF acknowledge_delivery, Durable, InboxType, WaitCall, Acking
<1> DEFINE p == [delivery |-> call.delivery, by |-> registration, instance |-> server]
<1>2. p \in Request /\ p.delivery = call.delivery
  BY <1>1, Zenon DEF Request, Durable, InboxType
<1>3. /\ posted' = posted \cup {p}
      /\ call' = [pc |-> "acking", delivery |-> call.delivery, conn |-> Conn, request |-> p]
      /\ UNCHANGED <<server, row, registration, handed>>
  BY Zenon DEF acknowledge_delivery, WaitGoes
<1>4. Conn \in SessionConnection
  BY Zenon DEF Conn, SessionConnection, Durable, InboxType
<1>5. call' \in [pc : Acking, delivery : Delivery, conn : SessionConnection, request : Request]
  BY <1>1, <1>2, <1>3, <1>4, Zenon DEF Acking
<1>6. InboxType'
  BY <1>2, <1>3, <1>5, Zenon DEF Durable, InboxType, WaitCall
<1>7. AnswerIsTrue'
  BY <1>2, <1>3, Zenon DEF AnswerIsTrue
<1>8. HandedIsAcknowledged'
  BY <1>3, Zenon DEF Durable, HandedIsAcknowledged
<1>9. QED
  BY <1>6, <1>7, <1>8, Zenon DEF Durable

\* The one step that hands a delivery over.
LEMMA AckedKeepsDurable ==
    ASSUME Durable, Acked
    PROVE  Durable'
<1>1. call \in [pc : Acking, delivery : Delivery, conn : SessionConnection, request : Request]
  BY Zenon DEF Acked, Durable, InboxType, WaitCall, Acking
<1>2. /\ handed' = handed \cup {call.delivery} /\ call' = NoCall
      /\ UNCHANGED <<server, row, registration, posted>>
  BY Zenon DEF Acked, WaitGoes, serverVars
<1>3. row[call.delivery.message].state = "acknowledged"
  BY Zenon DEF Acked, Durable, AnswerIsTrue
<1>4. InboxType'
  BY <1>1, <1>2, Zenon DEF Durable, InboxType, WaitCall, NoCall
<1>5. HandedIsAcknowledged'
  BY <1>2, <1>3, Zenon DEF Durable, HandedIsAcknowledged
<1>6. AnswerIsTrue'
  BY <1>2, Zenon DEF AnswerIsTrue, NoCall, Acking
<1>7. QED
  BY <1>4, <1>5, <1>6, Zenon DEF Durable

LEMMA StepKeepsDurable == Durable /\ [SessionNext]_sessionVars => Durable'
<1> SUFFICES ASSUME Durable, [SessionNext]_sessionVars PROVE Durable'
  BY Zenon
<1>1. CASE UNCHANGED sessionVars
  <2>1. InboxType' /\ AckedStays /\ UNCHANGED <<call, handed>>
    BY <1>1, Zenon DEF sessionVars, serverVars, Durable, InboxType, AckedStays
  <2>2. QED
    BY <2>1, StepsKeepDurable, Zenon
<1>2. QED
  BY <1>1, BrokerKeepsDurable, AckArrivesKeepsDurable, LeaseKeepsDurable, WaitKeepsDurable,
     RecoveredKeepsDurable, AcknowledgeKeepsDurable, AckedKeepsDurable, Zenon DEF SessionNext, Steps

-----------------------------------------------------------------------------
\* wait_for_message (session.rs) answers the harness with a delivery only when
\* the broker has acknowledged it for good: for any number of messages,
\* restarts, lapses and lost answers, what was handed over is never leased again.
THEOREM HandedOnlyAcknowledged == SessionSpec => []HandedIsAcknowledged
<1>1. Durable => HandedIsAcknowledged
  BY Zenon DEF Durable
<1>2. QED
  BY <1>1, InitDurable, StepKeepsDurable, PTL DEF SessionSpec

-----------------------------------------------------------------------------
(* The session lock is mutual exclusion: one broker of a scope owns the    *)
(* task database, whatever dies.                                           *)

Owning == {"locked", "serving", "draining"}

\* The coordinator has not spawned its broker yet.
Early == {"idle", "busy", "locked", "clear", "reserved", "publishing", "published"}

CoordinatorPhases ==
    {"spawned", "bound", "owned", "binding", "recorded", "aborting", "registering", "serving",
     "terminating", "stopping", "cleaned", "retired", "gone", "dead"} \cup Early

BrokerPhases ==
    {"none", "starting", "guarded", "cleared", "linked", "exited", "dead"} \cup Owning

LockType ==
    /\ coord \in [Coordinators -> CoordinatorPhases]
    /\ broker \in [Coordinators -> BrokerPhases]
    /\ slock \in Coordinators \cup {NoOne}

\* A broker past the link of its lock file is the one the file names.
LockHeld == \A c \in Coordinators : broker[c] \in {"linked"} \cup Owning => slock = c

\* A broker that inspects or replaces the lock file has the transition guard.
GuardHeld == \A c \in Coordinators : broker[c] \in {"guarded", "cleared", "linked"} => guard = c

\* The lock that a broker is about to unlink names a broker that has ended
\* and, while the guard is held, nobody puts another in its place.
StaleStaysStale ==
    \A c \in Coordinators : broker[c] = "cleared" =>
        slock \in Coordinators /\ broker[slock] \in {"exited", "dead"}

\* The lock file names a broker that was once started.
Named == slock \in Coordinators => broker[slock] # "none"

SpawnedOnce == \A c \in Coordinators : coord[c] \in Early => broker[c] = "none"

Exclusive == LockType /\ LockHeld /\ GuardHeld /\ StaleStaysStale /\ Named /\ SpawnedOnce

-----------------------------------------------------------------------------
LEMMA InitExclusive ==
    ASSUME SupervisionAssumption, SupervisionInit
    PROVE  Exclusive
<1>1. LockType
  BY Zenon DEF SupervisionInit, LockType, BrokerPhases, CoordinatorPhases, Early
<1>2. \A c \in Coordinators : broker[c] = "none"
  BY Zenon DEF SupervisionInit
<1>3. QED
  BY <1>1, <1>2, Zenon DEF SupervisionInit, SupervisionAssumption, Exclusive, LockHeld, GuardHeld, StaleStaysStale, SpawnedOnce,
                    Named, Owning

\* A coordinator never goes back to before its spawn.
LEMMA CoordinatorsKeepExclusive ==
    ASSUME Exclusive, UNCHANGED <<broker, slock, guard>>, coord' \in [Coordinators -> CoordinatorPhases],
           \A c \in Coordinators : coord'[c] \in Early => coord[c] \in Early
    PROVE  Exclusive'
BY Zenon DEF Exclusive, LockType, LockHeld, GuardHeld, StaleStaysStale, SpawnedOnce, Named

\* One coordinator moves to a phase that is early only if it was.
LEMMA AdvanceKeepsExclusive ==
    ASSUME Exclusive, UNCHANGED <<broker, slock, guard>>, NEW c, NEW to \in CoordinatorPhases,
           coord' = [coord EXCEPT ![c] = to],
           to \in Early => coord[c] \in Early
    PROVE  Exclusive'
<1>1. coord' \in [Coordinators -> CoordinatorPhases]
  BY Zenon DEF Exclusive, LockType
<1>2. \A d \in Coordinators : coord'[d] = IF d = c THEN to ELSE coord[d]
  BY Zenon DEF Exclusive, LockType
<1>3. QED
  BY <1>1, <1>2, CoordinatorsKeepExclusive, Zenon

\* The broker of c comes to an end, and its guard with it.
LEMMA BrokerEndsKeepsExclusive ==
    ASSUME SupervisionAssumption, Exclusive, NEW c \in Coordinators, NEW to \in {"exited", "dead"},
           broker[c] # "none",
           broker' = [broker EXCEPT ![c] = to],
           guard' = guard \/ guard = c,
           UNCHANGED slock, UNCHANGED coord
    PROVE  Exclusive'
<1>1. \A d \in Coordinators : broker'[d] = IF d = c THEN to ELSE broker[d]
  BY Zenon DEF Exclusive, LockType
<1>2. LockType'
  BY Zenon DEF Exclusive, LockType, BrokerPhases
<1>3. LockHeld'
  BY <1>1, Zenon DEF Exclusive, LockHeld, Owning
<1>4. GuardHeld'
  BY <1>1 DEF Exclusive, GuardHeld
<1>5. StaleStaysStale'
  BY <1>1, Zenon DEF Exclusive, StaleStaysStale
<1>6. SpawnedOnce' /\ Named'
  BY <1>1, Zenon DEF Exclusive, SpawnedOnce, Named
<1>7. QED
  BY <1>2, <1>3, <1>4, <1>5, <1>6, Zenon DEF Exclusive

\* The broker of c moves on while its lock and the guard stay as they are.
LEMMA BrokerMovesKeepsExclusive ==
    ASSUME Exclusive, NEW c \in Coordinators, NEW to \in BrokerPhases,
           broker[c] \notin {"none", "exited", "dead"}, to \in Owning, slock = c,
           broker' = [broker EXCEPT ![c] = to],
           guard' = guard \/ guard = c,
           UNCHANGED slock, UNCHANGED coord
    PROVE  Exclusive'
<1>1. \A d \in Coordinators : broker'[d] = IF d = c THEN to ELSE broker[d]
  BY Zenon DEF Exclusive, LockType
<1>2. LockType' /\ LockHeld'
  BY <1>1, Zenon DEF Exclusive, LockType, LockHeld
<1>3. GuardHeld'
  BY <1>1, Zenon DEF Exclusive, GuardHeld, Owning
<1>4. StaleStaysStale'
  BY <1>1, Zenon DEF Exclusive, StaleStaysStale, Owning
<1>5. SpawnedOnce' /\ Named'
  BY <1>1, Zenon DEF Exclusive, SpawnedOnce, Named, Owning
<1>6. QED
  BY <1>2, <1>3, <1>4, <1>5, Zenon DEF Exclusive

\* Spawn is the first the broker is heard of.
LEMMA SpawnKeepsExclusive ==
    ASSUME Exclusive, NEW c \in Coordinators, Spawn(c)
    PROVE  Exclusive'
<1>1. broker[c] = "none"
  BY Zenon DEF Spawn, Advance, Exclusive, SpawnedOnce, Named, Early
<1>2. /\ \A d \in Coordinators : broker'[d] = IF d = c THEN "starting" ELSE broker[d]
      /\ \A d \in Coordinators : coord'[d] = IF d = c THEN "spawned" ELSE coord[d]
      /\ UNCHANGED <<slock, guard>>
  BY Zenon DEF Spawn, Advance, scopeFiles, Exclusive, LockType
<1>3. LockType'
  BY Zenon DEF Spawn, Advance, scopeFiles, Exclusive, LockType, BrokerPhases, CoordinatorPhases
<1>4. LockHeld' /\ GuardHeld'
  BY <1>2, Zenon DEF Exclusive, LockHeld, GuardHeld, Owning
<1>5. StaleStaysStale'
  BY <1>1, <1>2, Zenon DEF Exclusive, StaleStaysStale
<1>6. SpawnedOnce' /\ Named'
  BY <1>2, Zenon DEF Exclusive, SpawnedOnce, Named, Early
<1>7. QED
  BY <1>3, <1>4, <1>5, <1>6, Zenon DEF Exclusive

\* acquire_transition_guard_at: the guard is free, so that nobody inspects
\* the lock file.
LEMMA TakeGuardKeepsExclusive ==
    ASSUME SupervisionAssumption, Exclusive, NEW c \in Coordinators, TakeGuard(c)
    PROVE  Exclusive'
<1>1. UNCHANGED <<slock, coord>> /\ broker[c] = "starting"
  BY Zenon DEF TakeGuard, BrokerAdvance, brokerRest
<1>2. CASE guard # NoOne
  BY <1>1, <1>2, BrokerEndsKeepsExclusive, Zenon DEF TakeGuard, BrokerAdvance
<1>3. CASE guard = NoOne
  <2>1. guard' = c /\ broker' = [broker EXCEPT ![c] = "guarded"]
    BY <1>3, Zenon DEF TakeGuard, BrokerAdvance
  <2>2. \A d \in Coordinators : broker'[d] = IF d = c THEN "guarded" ELSE broker[d]
    BY <2>1, Zenon DEF Exclusive, LockType
  <2>3. LockType'
    BY <1>1, <2>1, Zenon DEF Exclusive, LockType, BrokerPhases
  <2>4. LockHeld' /\ SpawnedOnce' /\ Named'
    BY <1>1, <2>2, Zenon DEF Exclusive, LockHeld, SpawnedOnce, Named, Owning
  <2>5. \A d \in Coordinators : broker[d] \notin {"guarded", "cleared", "linked"}
    BY <1>3, Zenon DEF SupervisionAssumption, Exclusive, GuardHeld
  <2>6. GuardHeld' /\ StaleStaysStale'
    BY <2>1, <2>2, <2>5 DEF GuardHeld, StaleStaysStale
  <2>7. QED
    BY <2>3, <2>4, <2>6, Zenon DEF Exclusive
<1>4. QED
  BY <1>2, <1>3, Zenon

\* The link is made only where no lock file is, so that nobody owns the store.
LEMMA LinkLockKeepsExclusive ==
    ASSUME SupervisionAssumption, Exclusive, NEW c \in Coordinators, LinkLock(c)
    PROVE  Exclusive'
<1>1. /\ broker[c] = "guarded" /\ slock = NoOne /\ slock' = c
      /\ broker' = [broker EXCEPT ![c] = "linked"] /\ UNCHANGED <<guard, coord>>
  BY Zenon DEF LinkLock, BrokerAdvance, brokerRest
<1>2. \A d \in Coordinators : broker'[d] = IF d = c THEN "linked" ELSE broker[d]
  BY <1>1, Zenon DEF Exclusive, LockType
<1>3. LockType'
  BY <1>1, Zenon DEF Exclusive, LockType, BrokerPhases
<1>4. LockHeld'
  BY <1>1, <1>2, Zenon DEF SupervisionAssumption, Exclusive, LockHeld
<1>5. GuardHeld' /\ SpawnedOnce' /\ Named'
  BY <1>1, <1>2 DEF Exclusive, GuardHeld, SpawnedOnce, Named
<1>6. StaleStaysStale'
  BY <1>1, <1>2 DEF SupervisionAssumption, Exclusive, StaleStaysStale
<1>7. QED
  BY <1>3, <1>4, <1>5, <1>6, Zenon DEF Exclusive

\* The owner that the lock names was found ended.
LEMMA ClearKeepsExclusive ==
    ASSUME SupervisionAssumption, Exclusive, NEW c \in Coordinators, ClearStaleDescriptor(c)
    PROVE  Exclusive'
<1>1. /\ broker[c] = "guarded" /\ slock \in Coordinators /\ ~BrokerLive(slock)
      /\ broker' = [broker EXCEPT ![c] = "cleared"] /\ UNCHANGED <<guard, slock, coord>>
  BY Zenon DEF ClearStaleDescriptor, OwnerAlive, BrokerAdvance, brokerRest, Exclusive, LockType
<1>2. \A d \in Coordinators : broker'[d] = IF d = c THEN "cleared" ELSE broker[d]
  BY <1>1, Zenon DEF Exclusive, LockType
<1>3. LockType'
  BY <1>1, Zenon DEF Exclusive, LockType, BrokerPhases
<1>4. LockHeld' /\ GuardHeld' /\ SpawnedOnce' /\ Named'
  BY <1>1, <1>2 DEF Exclusive, LockHeld, GuardHeld, SpawnedOnce, Named, Owning
<1>5. broker[slock] \in {"exited", "dead"}
  BY <1>1, Zenon DEF BrokerLive, Exclusive, Named
<1>6. StaleStaysStale'
  BY <1>1, <1>2, <1>5, Zenon DEF Exclusive, StaleStaysStale
<1>7. QED
  BY <1>3, <1>4, <1>6, Zenon DEF Exclusive

\* Nobody owns the store when the lock of an ended broker goes.
LEMMA UnlinkKeepsExclusive ==
    ASSUME SupervisionAssumption, Exclusive, NEW c \in Coordinators, UnlinkStaleLock(c)
    PROVE  Exclusive'
<1>1. /\ broker[c] = "cleared" /\ slock' = NoOne
      /\ broker' = [broker EXCEPT ![c] = "guarded"] /\ UNCHANGED <<guard, coord>>
  BY Zenon DEF UnlinkStaleLock, BrokerAdvance, brokerRest
<1>2. \A d \in Coordinators : broker'[d] = IF d = c THEN "guarded" ELSE broker[d]
  BY <1>1, Zenon DEF Exclusive, LockType
<1>3. slock \in Coordinators /\ broker[slock] \in {"exited", "dead"}
  BY <1>1, Zenon DEF Exclusive, StaleStaysStale
<1>4. \A d \in Coordinators : broker[d] \notin {"linked"} \cup Owning
  BY <1>3, Zenon DEF Exclusive, LockHeld, Owning
<1>5. LockType'
  BY <1>1, Zenon DEF Exclusive, LockType, BrokerPhases
<1>6. LockHeld'
  BY <1>2, <1>4, Zenon DEF LockHeld, Owning
<1>7. GuardHeld' /\ SpawnedOnce' /\ Named'
  BY <1>1, <1>2, Zenon DEF SupervisionAssumption, Exclusive, GuardHeld, SpawnedOnce, Named
<1>8. StaleStaysStale'
  BY <1>1, <1>2 DEF Exclusive, StaleStaysStale, GuardHeld
<1>9. QED
  BY <1>5, <1>6, <1>7, <1>8, Zenon DEF Exclusive

\* release_nonblocking removes only the lock of the broker itself, and only
\* when nobody inspects it.
LEMMA ReleaseKeepsExclusive ==
    ASSUME SupervisionAssumption, Exclusive, NEW c \in Coordinators, ReleaseLock(c)
    PROVE  Exclusive'
<1>1. /\ broker[c] = "draining" /\ broker' = [broker EXCEPT ![c] = "exited"]
      /\ slock' = (IF guard = NoOne /\ slock = c THEN NoOne ELSE slock)
      /\ UNCHANGED <<guard, coord>>
  BY Zenon DEF ReleaseLock, BrokerAdvance, brokerRest
<1>2. CASE slock' = slock
  BY <1>1, <1>2, BrokerEndsKeepsExclusive, Zenon
<1>3. CASE slock' = NoOne /\ guard = NoOne /\ slock = c
  <2>1. \A d \in Coordinators : broker'[d] = IF d = c THEN "exited" ELSE broker[d]
    BY <1>1, Zenon DEF Exclusive, LockType
  <2>2. LockType'
    BY <1>1, <1>3, Zenon DEF Exclusive, LockType, BrokerPhases
  <2>3. LockHeld'
    BY <1>3, <2>1, Zenon DEF Exclusive, LockHeld, Owning
  <2>4. \A d \in Coordinators : broker[d] \notin {"guarded", "cleared", "linked"}
    BY <1>3, Zenon DEF SupervisionAssumption, Exclusive, GuardHeld
  <2>5. GuardHeld' /\ StaleStaysStale' /\ SpawnedOnce' /\ Named'
    BY <1>1, <1>3, <2>1, <2>4 DEF SupervisionAssumption, Exclusive, GuardHeld, StaleStaysStale, SpawnedOnce, Named
  <2>6. QED
    BY <2>2, <2>3, <2>5, Zenon DEF Exclusive
<1>4. QED
  BY <1>1, <1>2, <1>3, Zenon

\* A failed acquisition gives up the lock it linked, or leaves it as stale.
LEMMA FailAcquireKeepsExclusive ==
    ASSUME SupervisionAssumption, Exclusive, NEW c \in Coordinators, FailAcquire(c)
    PROVE  Exclusive'
<1>1. /\ broker[c] \in {"guarded", "cleared", "linked"} /\ broker' = [broker EXCEPT ![c] = "exited"]
      /\ guard' = NoOne /\ UNCHANGED coord
      /\ slock' = slock \/ (slock' = NoOne /\ broker[c] = "linked")
  BY Zenon DEF FailAcquire, brokerRest
<1>2. guard = c
  BY <1>1, Zenon DEF Exclusive, GuardHeld
<1>3. CASE slock' = slock
  <2>1. broker[c] # "none" /\ (guard' = guard \/ guard = c)
    BY <1>1, <1>2
  <2>2. QED
    BY <1>1, <1>3, <2>1, BrokerEndsKeepsExclusive, Zenon
<1>4. CASE slock' = NoOne /\ broker[c] = "linked"
  <2>1. \A d \in Coordinators : broker'[d] = IF d = c THEN "exited" ELSE broker[d]
    BY <1>1, Zenon DEF Exclusive, LockType
  <2>2. LockType'
    BY <1>1, <1>4, Zenon DEF Exclusive, LockType, BrokerPhases
  <2>3. slock = c
    BY <1>4, Zenon DEF Exclusive, LockHeld
  <2>4. \A d \in Coordinators : broker'[d] \notin {"linked", "guarded", "cleared"} \cup Owning
    <3>1. \A d \in Coordinators \ {c} : broker[d] \notin {"linked"} \cup Owning
      BY <2>3, Zenon DEF Exclusive, LockHeld
    <3>2. \A d \in Coordinators \ {c} : broker[d] \notin {"guarded", "cleared"}
      BY <1>2, Zenon DEF Exclusive, GuardHeld
    <3>3. QED
      BY <2>1, <3>1, <3>2 DEF Owning
  <2>5. LockHeld' /\ GuardHeld' /\ StaleStaysStale'
    BY <2>4 DEF LockHeld, GuardHeld, StaleStaysStale
  <2>6. SpawnedOnce' /\ Named'
    BY <1>1, <1>4, <2>1 DEF SupervisionAssumption, Exclusive, SpawnedOnce, Named
  <2>7. QED
    BY <2>2, <2>5, <2>6, Zenon DEF Exclusive
<1>5. QED
  BY <1>1, <1>3, <1>4, Zenon

LEMMA BrokerKeepsExclusive ==
    ASSUME SupervisionAssumption, Exclusive, NEW c \in Coordinators,
           BrokerStep(c) \/ FailAcquire(c) \/ FailStartup(c) \/ BrokerDie(c)
    PROVE  Exclusive'
<1>1. CASE RefuseSecondOwner(c)
  <2>1. guard = c
    BY <1>1, Zenon DEF RefuseSecondOwner, BrokerAdvance, Exclusive, GuardHeld
  <2>2. QED
    BY <1>1, <2>1, BrokerEndsKeepsExclusive, Zenon DEF RefuseSecondOwner, BrokerAdvance, brokerRest
<1>2. CASE BrokerDie(c)
  BY <1>2, BrokerEndsKeepsExclusive, Zenon DEF BrokerDie, BrokerLive, brokerRest
<1>3. CASE FinishAcquire(c)
  <2>1. guard = c /\ slock = c
    BY <1>3, Zenon DEF FinishAcquire, BrokerAdvance, Exclusive, GuardHeld, LockHeld
  <2>2. QED
    BY <1>3, <2>1, BrokerMovesKeepsExclusive, Zenon DEF FinishAcquire, BrokerAdvance, brokerRest, Owning, BrokerPhases
<1>4. CASE PublishDescriptor(c) \/ FailStartup(c) \/ StopServing(c)
  <2>1. slock = c
    BY <1>4, Zenon DEF PublishDescriptor, FailStartup, StopServing, BrokerAdvance, Exclusive, LockHeld, Owning
  <2>2. QED
    BY <1>4, <2>1, BrokerMovesKeepsExclusive, Zenon
    DEF PublishDescriptor, FailStartup, StopServing, BrokerAdvance, brokerRest, scopeFiles, Owning, BrokerPhases
<1>5. QED
  BY <1>1, <1>2, <1>3, <1>4, TakeGuardKeepsExclusive, LinkLockKeepsExclusive, ClearKeepsExclusive,
     UnlinkKeepsExclusive, ReleaseKeepsExclusive, FailAcquireKeepsExclusive, Zenon DEF BrokerStep

LEMMA CoordinatorKeepsExclusive ==
    ASSUME SupervisionAssumption, Exclusive, NEW c \in Coordinators,
           Acquire(c) \/ CoordinatorStep(c) \/ GiveUp(c) \/ AbandonChild(c) \/ Die(c)
    PROVE  Exclusive'
<1>1. CASE Spawn(c)
  BY <1>1, SpawnKeepsExclusive, Zenon
<1>2. CASE KillChild(c)
  BY <1>2, BrokerEndsKeepsExclusive, Zenon DEF KillChild, BrokerLive
<1>3. CASE Acquire(c) \/ FindNoBroker(c) \/ Reserve(c) \/ Truncate(c) \/ WriteRecord(c)
  <2>1. PICK to \in CoordinatorPhases :
          /\ coord' = [coord EXCEPT ![c] = to]
          /\ to \in Early => coord[c] \in Early
    BY <1>3, Zenon DEF Acquire, FindNoBroker, Reserve, Truncate, WriteRecord, Advance, Early, CoordinatorPhases
  <2>2. UNCHANGED <<broker, slock, guard>>
    BY <1>3, Zenon DEF Acquire, FindNoBroker, Reserve, Truncate, WriteRecord, scopeFiles
  <2>3. QED
    BY <2>1, <2>2, AdvanceKeepsExclusive, Zenon
<1>4. CASE \/ AdoptWinner(c) \/ GiveUp(c) \/ AbandonChild(c) \/ Aborted(c) \/ Die(c)
           \/ BindStart(c) \/ OwnDescriptor(c) \/ AbortChild(c) \/ Register(c)
           \/ DropReservation(c) \/ StopChild(c) \/ ChildEnded(c) \/ RemoveDescriptor(c)
           \/ Unregister(c) \/ DropLock(c)
  <2>1. PICK to \in CoordinatorPhases \ Early : coord' = [coord EXCEPT ![c] = to]
    BY <1>4, Zenon DEF AdoptWinner, GiveUp, AbandonChild, Aborted, Die, BindStart, OwnDescriptor, AbortChild, Register,
                DropReservation, StopChild, ChildEnded, RemoveDescriptor, Unregister, DropLock, Advance, Leave,
                CleanupAndLeave, Early, CoordinatorPhases
  <2>2. UNCHANGED <<broker, slock, guard>>
    BY <1>4, Zenon DEF AdoptWinner, GiveUp, AbandonChild, Aborted, Die, BindStart, OwnDescriptor, AbortChild, Register,
                DropReservation, StopChild, ChildEnded, RemoveDescriptor, Unregister, DropLock, CleanupAndLeave,
                scopeFiles
  <2>3. QED
    BY <2>1, <2>2, AdvanceKeepsExclusive, Zenon
<1>5. QED
  BY <1>1, <1>2, <1>3, <1>4, Zenon DEF CoordinatorStep

LEMMA CommandsKeepExclusive ==
    ASSUME SupervisionAssumption, Exclusive, ClientStep \/ RemoverStep
    PROVE  Exclusive'
<1>1. CASE ClientStep
  <2>1. UNCHANGED <<coord, broker, slock, guard>>
    BY <1>1, Zenon DEF ClientStep, Stop, RestartReads, RestartFindsCoordinator, StopFindsLockFree, StopReturns, StopAsks,
                StopTimesOut, RestartAdoptsReplacement, RestartSeesAbsence, EnsureReplacement, RestartValidates,
                clientRest, scopeFiles
  <2>2. QED
    BY <2>1, CoordinatorsKeepExclusive, Zenon DEF Exclusive, LockType
<1>2. CASE BeginRemoval \/ DrainNext \/ UnlistStarting \/ StopRegistered \/ AwaitStopped
  <2>1. UNCHANGED <<coord, broker, slock, guard>>
    BY <1>2, Zenon DEF BeginRemoval, DrainNext, UnlistStarting, StopRegistered, AwaitStopped, scopeFiles
  <2>2. QED
    BY <2>1, CoordinatorsKeepExclusive, Zenon DEF Exclusive, LockType
<1>3. CASE RetireStartingCoordinator
  <2>1. /\ coord' = [coord EXCEPT ![remover.target] =
                       IF Live(remover.target) THEN "dead" ELSE coord[remover.target]]
        /\ UNCHANGED <<broker, slock, guard>>
    BY <1>3, Zenon DEF RetireStartingCoordinator, scopeFiles
  <2>2. \A d \in Coordinators : coord'[d] \in {coord[d], "dead"}
    BY <2>1, Zenon DEF Exclusive, LockType
  <2>3. coord' \in [Coordinators -> CoordinatorPhases]
    BY <2>1, <2>2, Zenon DEF Exclusive, LockType, CoordinatorPhases
  <2>4. QED
    BY <2>1, <2>2, <2>3, CoordinatorsKeepExclusive, Zenon DEF Early
<1>4. CASE RetireStartingBroker
  <2> DEFINE c == remover.target
  <2>1. /\ broker' = [broker EXCEPT ![c] = IF BrokerLive(c) THEN "dead" ELSE broker[c]]
        /\ guard' = (IF guard = c THEN NoOne ELSE guard)
        /\ UNCHANGED <<slock, coord>>
    BY <1>4, Zenon DEF RetireStartingBroker
  <2>2. CASE c \in Coordinators /\ BrokerLive(c)
    BY <2>1, <2>2, BrokerEndsKeepsExclusive, Zenon DEF BrokerLive
  <2>3. CASE ~(c \in Coordinators /\ BrokerLive(c))
    <3>1. broker' = broker
      BY <2>1, <2>3, Zenon DEF Exclusive, LockType
    <3>2. GuardHeld'
      BY <2>1, <2>3, <3>1, Zenon DEF Exclusive, GuardHeld, BrokerLive
    <3>3. QED
      BY <2>1, <3>1, <3>2, Zenon DEF Exclusive, LockType, LockHeld, StaleStaysStale, SpawnedOnce, Named
  <2>4. QED
    BY <2>2, <2>3, Zenon
<1>5. QED
  BY <1>1, <1>2, <1>3, <1>4, Zenon DEF RemoverStep

LEMMA StepKeepsExclusive ==
    ASSUME SupervisionAssumption, Exclusive, [SupervisionNext]_supervisionVars
    PROVE  Exclusive'
<1>1. CASE UNCHANGED supervisionVars
  BY <1>1, CoordinatorsKeepExclusive, Zenon DEF supervisionVars, scopeFiles, Exclusive, LockType
<1>2. QED
  BY <1>1, BrokerKeepsExclusive, CoordinatorKeepsExclusive, CommandsKeepExclusive, Zenon DEF SupervisionNext

LEMMA ExclusiveMeansOne ==
    ASSUME Exclusive
    PROVE  OneBrokerOwnsTheStore
<1> DEFINE owners == {c \in Coordinators : broker[c] \in {"locked", "serving", "draining"}}
<1>1. \A c, d \in owners : c = d
  BY Zenon DEF Exclusive, LockHeld, Owning
<1>2. CASE owners = {}
  BY <1>2, FS_EmptySet DEF OneBrokerOwnsTheStore
<1>3. ASSUME NEW c \in owners PROVE Cardinality(owners) <= 1
  <2>1. owners = {c}
    BY <1>1, <1>3, Zenon
  <2>2. Cardinality({c}) = 1
    BY FS_Singleton, Zenon
  <2> HIDE DEF owners
  <2>3. QED
    BY <2>1, <2>2
<1>4. QED
  BY <1>2, <1>3, Zenon DEF OneBrokerOwnsTheStore

-----------------------------------------------------------------------------
\* SessionLock::acquire (runtime.rs) lets one broker of a scope at a time have
\* the task database, for any number of coordinators and brokers that start,
\* take over stale locks, are stopped, killed or die at any point.
THEOREM StoreHasOneOwner ==
    ASSUME SupervisionAssumption
    PROVE  SupervisionSpec => []OneBrokerOwnsTheStore
<1>1. SupervisionInit => Exclusive
  BY InitExclusive, Zenon
<1>2. Exclusive /\ [SupervisionNext]_supervisionVars => Exclusive'
  BY StepKeepsExclusive, Zenon
<1>3. Exclusive => OneBrokerOwnsTheStore
  BY ExclusiveMeansOne, Zenon
<1>4. QED
  BY <1>1, <1>2, <1>3, PTL DEF SupervisionSpec
============================================================================
