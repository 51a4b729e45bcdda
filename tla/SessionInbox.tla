---------------------------- MODULE SessionInbox ----------------------------
(***************************************************************************)
(* How a message leaves the broker and reaches the harness: the session's  *)
(* wait_for_message (herdr-a2a-cli session.rs) leases it from the broker,  *)
(* acknowledges it and only then answers the harness.  Both requests go    *)
(* through a connection that may be lost, refused or replaced at any       *)
(* point, and the acknowledgement takes effect at the broker whether or    *)
(* not its answer comes back.                                              *)
(*                                                                         *)
(* The broker's side abstracts Broker: one lease per attempt, an           *)
(* acknowledgement that only the leasing registration makes and any later  *)
(* registration of the same agent may repeat, leases that expire, and      *)
(* leases and registrations that do not outlive the process.               *)
(*                                                                         *)
(* Losses are the kinds of loss explored; MaxServers, MaxAttempt and       *)
(* MaxLosses bound restarts, leases and losses.                            *)
(***************************************************************************)
EXTENDS Integers, FiniteSets

CONSTANTS Messages, Losses, MaxServers, MaxAttempt, MaxLosses, NoMessage

InboxBounds ==
    /\ NoMessage \notin Messages
    /\ Losses \subseteq {"wait", "ack", "lapse", "outage", "deadline"}
    /\ {MaxServers, MaxAttempt, MaxLosses} \subseteq Nat
    /\ MaxServers > 0 /\ MaxAttempt > 0

VARIABLES
    server,         \* the instance of the broker
    serving,        \* and whether it runs
    registration,   \* how often this session has registered; the last one is its own
    accepted,       \* whether the broker still accepts that registration
    row,            \* message -> [state, owner, attempt] of the broker
    posted,         \* acknowledgements on their way: [delivery, by, instance]
    call,           \* the wait_for_message in progress
    handed,         \* deliveries answered to the harness
    losses

serverVars == <<server, serving, row, posted>>
sessionVars == <<serverVars, registration, accepted, call, handed, losses>>

NoCall == [pc |-> "idle"]
Loss(kind) == kind \in Losses /\ losses < MaxLosses /\ losses' = losses + 1

WaitGoes(c) == call' = c
Conn == [instance |-> server, registration |-> registration]
Reached(k) == serving /\ k.instance = server
Fresh(k) == Reached(k) /\ accepted /\ k.registration = registration

SessionInit ==
    /\ server = 1 /\ serving = TRUE
    /\ registration = 1 /\ accepted = TRUE
    /\ row = [m \in Messages |-> [state |-> "queued", owner |-> 0, attempt |-> 0]]
    /\ posted = {} /\ call = NoCall /\ handed = {} /\ losses = 0

-----------------------------------------------------------------------------
(* The broker.                                                             *)

Requeued(r) ==
    [m \in Messages |-> IF r[m].state = "leased" THEN [r[m] EXCEPT !.state = "queued"] ELSE r[m]]

ServerDies ==
    /\ serving /\ server < MaxServers
    /\ serving' = FALSE /\ accepted' = FALSE
    /\ UNCHANGED <<server, row, posted, registration, call, handed, losses>>

ServerStarts ==
    /\ ~serving /\ serving' = TRUE /\ server' = server + 1
    /\ row' = Requeued(row)
    /\ UNCHANGED <<posted, registration, accepted, call, handed, losses>>

SessionLapses ==
    /\ Loss("lapse") /\ accepted /\ accepted' = FALSE
    /\ row' = Requeued(row)
    /\ UNCHANGED <<server, serving, posted, registration, call, handed>>

LeaseExpires(m) ==
    /\ serving /\ row[m].state = "leased" /\ row[m].attempt < MaxAttempt
    /\ row' = [row EXCEPT ![m].state = "queued"]
    /\ UNCHANGED <<server, serving, posted, registration, accepted, call, handed, losses>>

(* ack_delivery: the leasing registration acknowledges, any registration   *)
(* of the agent repeats an acknowledgement.                                *)
Acknowledges(p) ==
    LET r == row[p.delivery.message]
    IN  /\ p.by = registration /\ accepted
        /\ r.attempt = p.delivery.attempt
        /\ r.state = "acknowledged" \/ (r.state = "leased" /\ r.owner = p.by)

AckArrives(p) ==
    /\ serving /\ p \in posted /\ p.instance = server
    /\ posted' = posted \ {p}
    /\ row' = IF Acknowledges(p)
              THEN [row EXCEPT ![p.delivery.message].state = "acknowledged"]
              ELSE row
    /\ call' = IF call.pc = "acking" /\ call.request = p
               THEN [call EXCEPT !.pc = IF Acknowledges(p) THEN "acked"
                                        ELSE IF p.by = registration /\ accepted THEN "refused"
                                        ELSE "auth_lost"]
               ELSE call
    /\ UNCHANGED <<server, serving, registration, accepted, handed, losses>>

-----------------------------------------------------------------------------
(* wait_for_message.                                                       *)

wait_for_message ==
    /\ call.pc = "idle"
    /\ WaitGoes([pc |-> "waiting", conn |-> Conn])
    /\ UNCHANGED <<serverVars, registration, accepted, handed, losses>>

Leases(m) ==
    /\ Fresh(call.conn)
    /\ row[m].state = "queued" /\ row[m].attempt < MaxAttempt
    /\ row' = [row EXCEPT ![m] = [state |-> "leased", owner |-> registration, attempt |-> @.attempt + 1]]

LeaseAnswered(m) ==
    /\ call.pc = "waiting" /\ Leases(m)
    /\ WaitGoes([pc |-> "ack", delivery |-> [message |-> m, attempt |-> row[m].attempt + 1]])
    /\ UNCHANGED <<server, serving, posted, registration, accepted, handed, losses>>

(* The broker leases a delivery to a wait whose answer is lost.            *)
LeaseLost(m) ==
    /\ call.pc = "waiting" /\ Loss("wait") /\ Leases(m)
    /\ WaitGoes([pc |-> "recover", mode |-> "replacement", conn |-> call.conn, delivery |-> NoMessage])
    /\ UNCHANGED <<server, serving, posted, registration, accepted, handed>>

WaitFails ==
    /\ call.pc = "waiting" /\ ~Fresh(call.conn)
    /\ WaitGoes([pc |-> "recover", conn |-> call.conn, delivery |-> NoMessage,
             mode |-> IF Reached(call.conn) THEN "refresh" ELSE "replacement"])
    /\ UNCHANGED <<serverVars, registration, accepted, handed, losses>>

(* acknowledge_delivery, on the connection of the moment.                  *)
acknowledge_delivery_Mutant ==             \* the answer does not wait for the acknowledgement
    /\ call.pc = "ack"
    /\ handed' = handed \cup {call.delivery}
    /\ posted' = posted \cup {[delivery |-> call.delivery, by |-> registration, instance |-> server]}
    /\ WaitGoes(NoCall)
    /\ UNCHANGED <<server, serving, row, registration, accepted, losses>>

acknowledge_delivery ==
    /\ call.pc = "ack"
    /\ LET p == [delivery |-> call.delivery, by |-> registration, instance |-> server]
       IN  /\ posted' = posted \cup {p}
           /\ WaitGoes([pc |-> "acking", delivery |-> call.delivery, conn |-> Conn, request |-> p])
    /\ UNCHANGED <<server, serving, row, registration, accepted, handed, losses>>

AckConnectionFails ==
    /\ call.pc \in {"acking", "acked", "refused", "auth_lost"} /\ ~Reached(call.conn)
    /\ WaitGoes([pc |-> "recover", mode |-> "replacement", conn |-> call.conn, delivery |-> call.delivery])
    /\ UNCHANGED <<serverVars, registration, accepted, handed, losses>>

AckAnswerLost ==
    /\ call.pc \in {"acking", "acked", "refused", "auth_lost"} /\ Loss("ack")
    /\ WaitGoes([pc |-> "recover", mode |-> "replacement", conn |-> call.conn, delivery |-> call.delivery])
    /\ UNCHANGED <<serverVars, registration, accepted, handed>>

AckUnauthenticated ==
    /\ call.pc = "auth_lost" /\ Reached(call.conn)
    /\ WaitGoes([pc |-> "recover", mode |-> "refresh", conn |-> call.conn, delivery |-> call.delivery])
    /\ UNCHANGED <<serverVars, registration, accepted, handed, losses>>

Acked ==
    /\ call.pc = "acked" /\ Reached(call.conn)
    /\ handed' = handed \cup {call.delivery}
    /\ WaitGoes(NoCall)
    /\ UNCHANGED <<serverVars, registration, accepted, losses>>

AckRefused ==                              \* acknowledgement_failed: no delivery is answered
    /\ call.pc = "refused" /\ Reached(call.conn)
    /\ WaitGoes(NoCall)
    /\ UNCHANGED <<serverVars, registration, accepted, handed, losses>>

After(delivery) ==
    IF delivery = NoMessage THEN [pc |-> "waiting", conn |-> Conn']
                       ELSE [pc |-> "ack", delivery |-> delivery]

Reregisters(k) ==
    /\ registration' = IF accepted /\ k.registration # registration
                       THEN registration ELSE registration + 1
    /\ accepted' = TRUE

Recovered_Mutant ==                        \* the delivery under way is forgotten
    /\ call.pc = "recover" /\ serving
    /\ call.mode = "replacement" => server # call.conn.instance
    /\ Reregisters(call.conn)
    /\ UNCHANGED <<serverVars, handed, losses>>
    /\ WaitGoes(After(NoMessage))

(* recover, as Recovery has it: another broker after a failed connection,  *)
(* a new registration after a refused one, unless a concurrent caller has  *)
(* already made it.                                                        *)
Recovered ==
    /\ call.pc = "recover" /\ serving
    /\ call.mode = "replacement" => server # call.conn.instance
    /\ Reregisters(call.conn)
    /\ UNCHANGED <<serverVars, handed, losses>>
    /\ WaitGoes(After(call.delivery))

(* The renewal task finds the registration refused and recovers first.     *)
RenewalRecovers ==
    /\ serving /\ ~accepted
    /\ registration' = registration + 1 /\ accepted' = TRUE
    /\ UNCHANGED <<serverVars, call, handed, losses>>

RecoveryExpires ==                         \* no other broker will come
    /\ call.pc = "recover" /\ serving
    /\ call.mode = "replacement" /\ server = call.conn.instance
    /\ WaitGoes(NoCall)
    /\ UNCHANGED <<serverVars, registration, accepted, handed, losses>>

OutageOutlasts ==                          \* the broker is away longer than a recovery
    /\ call.pc = "recover" /\ ~serving /\ Loss("outage")
    /\ WaitGoes(NoCall)
    /\ UNCHANGED <<serverVars, registration, accepted, handed>>

(* The deadline of the wait, which also bounds the acknowledgement.        *)
WaitExpires ==
    /\ call.pc # "idle" /\ Loss("deadline")
    /\ WaitGoes(NoCall)
    /\ UNCHANGED <<serverVars, registration, accepted, handed>>

Steps ==
    \/ wait_for_message \/ WaitFails
    \/ \E m \in Messages : LeaseAnswered(m)
    \/ acknowledge_delivery \/ AckConnectionFails \/ AckUnauthenticated
    \/ Acked \/ AckRefused \/ Recovered \/ RecoveryExpires

SessionNext ==
    \/ ServerDies \/ ServerStarts \/ SessionLapses \/ RenewalRecovers
    \/ \E m \in Messages : LeaseExpires(m) \/ LeaseLost(m)
    \/ \E p \in posted : AckArrives(p)
    \/ Steps \/ AckAnswerLost \/ OutageOutlasts \/ WaitExpires

SessionSpec == SessionInit /\ [][SessionNext]_sessionVars

(* The harness keeps calling wait_for_message, the broker is started again *)
(* and serves, leases expire.                                              *)
SessionFairness ==
    /\ WF_sessionVars(ServerStarts)
    /\ WF_sessionVars(\E m \in Messages : LeaseExpires(m))
    /\ WF_sessionVars(\E p \in posted : AckArrives(p))
    /\ WF_sessionVars(Steps)
    /\ \A m \in Messages : SF_sessionVars(LeaseAnswered(m))

-----------------------------------------------------------------------------

(* The harness is given a delivery only when its acknowledgement is        *)
(* durable: nothing handed over can be leased to anybody again.            *)
HandedIsAcknowledged ==
    \A d \in handed : row[d.message].state = "acknowledged"

(* A message whose acknowledgement is not lost is not lost: it is leased   *)
(* again and again until it has been acknowledged and handed over.         *)
MessagesAreHanded ==
    \A m \in Messages : <>(row[m].attempt = MaxAttempt \/ \E d \in handed : d.message = m)
=============================================================================
