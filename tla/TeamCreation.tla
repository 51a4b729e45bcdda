---------------------------- MODULE TeamCreation ----------------------------
(***************************************************************************)
(* create_team (herdr-a2a-cli team.rs, session.rs): panes are split, named *)
(* and given a Pi one role after another through the herdr command, then   *)
(* one wait at the broker (broker.rs wait_for_agents) tells which of them  *)
(* have registered.  No command is idempotent and none is undone; every    *)
(* answer may be lost after the command has taken effect.                  *)
(*                                                                         *)
(* Pane 0 is one that existed before, the others are numbered as they are  *)
(* split.  The broker answers a wait that it times out itself no earlier   *)
(* than the session gives up, so that its last answer seldom arrives.      *)
(*                                                                         *)
(* Roles is the number of teammates, MaxFaults bounds the failing and lost *)
(* commands, the answers that fail and the broker restarts.                *)
(***************************************************************************)
EXTENDS Integers, FiniteSets

CONSTANTS Roles, SelfRole, MaxFaults

TeamBounds == Roles \in Nat \ {0} /\ SelfRole \in BOOLEAN /\ MaxFaults \in Nat

Members == 1..Roles
Panes == 0..Roles

VARIABLES
    pane,       \* pane -> [role it was split for, title, free, pis, live]
    splits,     \* panes split so far
    member,     \* role -> [state, pane] of the result
    team,       \* [pc, at, pane]: the orchestrator, its role and pane
    wait,       \* [pc, hidden]: the wait, and whether its snapshot failed
    notified,   \* the enabled notification has fired
    unrecorded, \* changes of the directory not yet recorded
    up, faults

herdr == <<pane, splits>>
directory == <<notified, unrecorded, up>>
vars == <<herdr, member, team, wait, directory, faults>>

Fault == faults < MaxFaults /\ faults' = faults + 1

NoPane == [state |-> "none", pane |-> 0]

Init ==
    /\ pane = [p \in Panes |-> [role |-> 0, title |-> 0, free |-> FALSE, pis |-> 0, live |-> FALSE]]
    /\ splits = 0
    /\ member = [i \in Members |-> NoPane]
    /\ team = [pc |-> IF SelfRole THEN "self" ELSE "layout", at |-> 1, pane |-> 0]
    /\ wait = [pc |-> "none", hidden |-> FALSE]
    /\ notified = FALSE /\ unrecorded = 0 /\ up = TRUE
    /\ faults = 0

At(pc) == team.pc = pc
Goes(pc) == team' = [team EXCEPT !.pc = pc]

Started == {i \in Members : member[i].state = "started"}

(* After the last member, or the first failure, the broker is asked about  *)
(* those that have been started.                                           *)
Asks(started) ==
    IF started = {}
    THEN team' = [team EXCEPT !.pc = "done"] /\ UNCHANGED wait
    ELSE team' = [team EXCEPT !.pc = "wait"] /\ wait' = [pc |-> "enable", hidden |-> FALSE]

(* This member and the ones that were not attempted have failed.           *)
Fails(known) ==
    /\ member' = [i \in Members |->
                    IF i = team.at THEN [state |-> "failed", pane |-> known]
                    ELSE IF i > team.at THEN [state |-> "failed", pane |-> 0]
                    ELSE member[i]]
    /\ Asks(Started)

-----------------------------------------------------------------------------
(* create_team and create_member.                                          *)

RenameSelf ==
    /\ At("self")
    /\ \/ Goes("layout") /\ UNCHANGED <<member, faults>>
       \/ /\ Fault
          /\ member' = [i \in Members |-> [state |-> "failed", pane |-> 0]]
          /\ Goes("done")
    /\ UNCHANGED <<herdr, wait, directory>>

Layout ==
    /\ At("layout")
    /\ \/ Goes("split") /\ UNCHANGED <<member, wait, faults>>
       \/ Fault /\ Fails(0)
    /\ UNCHANGED <<herdr, directory>>

Split ==
    /\ At("split") /\ splits < Roles
    /\ splits' = splits + 1
    /\ pane' = [pane EXCEPT ![splits + 1].role = team.at]
    /\ \/ team' = [team EXCEPT !.pc = "check", !.pane = splits + 1] /\ UNCHANGED <<member, wait, faults>>
       \/ Fault /\ Fails(0)                \* the answer is lost
    /\ UNCHANGED directory

SplitFails ==                              \* nothing is split; perhaps an old pane is named
    /\ At("split") /\ Fault
    /\ \/ Fails(0)
       \/ /\ \E p \in 0..splits : team' = [team EXCEPT !.pc = "check", !.pane = p]
          /\ UNCHANGED <<member, wait>>
    /\ UNCHANGED <<herdr, directory>>

IsNew ==
    /\ team.pane # 0
    /\ \A i \in Members : member[i].pane # team.pane

CheckPane ==
    /\ At("check")
    /\ IF IsNew THEN Goes("rename") /\ UNCHANGED <<member, wait>> ELSE Fails(0)
    /\ UNCHANGED <<herdr, directory, faults>>

RenamePane ==
    /\ At("rename")
    /\ pane' = [pane EXCEPT ![team.pane].title = team.at]
    /\ \/ Goes("shell") /\ UNCHANGED <<member, wait, faults>>
       \/ Fault /\ Fails(team.pane)
    /\ UNCHANGED <<splits, directory>>

(* start_agent: the shell is there, the start is asked for once the pane   *)
(* is not busy; a start whose outcome is unknown is only looked for.       *)
ShellReady ==
    /\ At("shell") /\ Goes("start")
    /\ UNCHANGED <<herdr, member, wait, directory, faults>>

PaneFree(p) ==
    /\ pane[p].role # 0 /\ ~pane[p].free
    /\ pane' = [pane EXCEPT ![p].free = TRUE]
    /\ UNCHANGED <<splits, member, team, wait, directory, faults>>

Busy ==
    /\ At("start") /\ ~pane[team.pane].free
    /\ Goes("backoff")
    /\ UNCHANGED <<herdr, member, wait, directory, faults>>

Backoff ==
    /\ At("backoff") /\ Goes("start")
    /\ UNCHANGED <<herdr, member, wait, directory, faults>>

(* The next role, or the wait.                                             *)
MemberStarted ==
    LET m == [member EXCEPT ![team.at] = [state |-> "started", pane |-> team.pane]]
    IN  /\ member' = m
        /\ IF team.at < Roles
           THEN team' = [pc |-> "layout", at |-> team.at + 1, pane |-> 0] /\ UNCHANGED wait
           ELSE Asks({i \in Members : m[i].state = "started"})

StartAgent ==
    /\ At("start") /\ pane[team.pane].free
    /\ pane' = [pane EXCEPT ![team.pane].pis = @ + 1]
    /\ MemberStarted
    /\ UNCHANGED <<splits, directory, faults>>

AfterLost_Mutant == "start"

AfterLost == "observe"

StartLost ==                               \* it failed, or its answer is lost
    /\ At("start") /\ pane[team.pane].free /\ Fault
    /\ \E n \in {0, 1} : pane' = [pane EXCEPT ![team.pane].pis = @ + n]
    /\ Goes(AfterLost)
    /\ UNCHANGED <<splits, member, wait, directory>>

ObserveAgent ==
    /\ At("observe") /\ pane[team.pane].pis > 0
    /\ MemberStarted
    /\ UNCHANGED <<herdr, directory, faults>>

Window == {"shell", "start", "backoff", "observe"}

WindowExpires ==
    /\ team.pc \in Window
    /\ Fails(team.pane)
    /\ UNCHANGED <<herdr, directory, faults>>

-----------------------------------------------------------------------------
(* The agents and the directory.  A change of the registrations is         *)
(* recorded, and the waits notified, after the state has been released.    *)

Registers(p) ==
    /\ up /\ pane[p].pis > 0 /\ ~pane[p].live
    /\ pane' = [pane EXCEPT ![p].live = TRUE]
    /\ unrecorded' = unrecorded + 1
    /\ UNCHANGED <<splits, member, team, wait, notified, up, faults>>

Leaves(p) ==
    /\ up /\ pane[p].live /\ Fault
    /\ pane' = [pane EXCEPT ![p].live = FALSE]
    /\ unrecorded' = unrecorded + 1
    /\ UNCHANGED <<splits, member, team, wait, notified, up>>

Record_Mutant ==                           \* a wait listens only once it has looked
    /\ unrecorded > 0
    /\ unrecorded' = unrecorded - 1
    /\ notified' = (wait.pc = "sleep" \/ notified)
    /\ UNCHANGED <<herdr, member, team, wait, up, faults>>

Record ==
    /\ unrecorded > 0
    /\ unrecorded' = unrecorded - 1
    /\ notified' = (wait.pc \in {"snapshot", "looked", "sleep"} \/ notified)
    /\ UNCHANGED <<herdr, member, team, wait, up, faults>>

BrokerDies ==
    /\ up /\ Fault
    /\ up' = FALSE
    /\ pane' = [p \in Panes |-> [pane[p] EXCEPT !.live = FALSE]]
    /\ unrecorded' = 0
    /\ wait' = IF wait.pc = "none" THEN wait ELSE [wait EXCEPT !.pc = "recover"]
    /\ UNCHANGED <<splits, member, team, notified>>

BrokerStarts ==
    /\ ~up /\ up' = TRUE
    /\ UNCHANGED <<herdr, member, team, wait, notified, unrecorded, faults>>

-----------------------------------------------------------------------------
(* wait_for_agents.                                                        *)

WaitGoes(pc) == wait' = [wait EXCEPT !.pc = pc]
Waited == {member[i].pane : i \in Started}
Live == {p \in Waited : pane[p].live}

Enable ==
    /\ wait.pc = "enable"
    /\ notified' = FALSE
    /\ WaitGoes("snapshot")
    /\ UNCHANGED <<herdr, member, team, unrecorded, up, faults>>

Resolved(i, registered) ==
    IF member[i].pane \in registered THEN "registered" ELSE "timed_out"

Answer(registered) ==
    /\ member' = [i \in Members |->
                    IF i \in Started THEN [member[i] EXCEPT !.state = Resolved(i, registered)] ELSE member[i]]
    /\ Goes("done")
    /\ wait' = [pc |-> "none", hidden |-> FALSE]

directory_snapshot ==
    /\ wait.pc = "snapshot"
    /\ IF Live = Waited
       THEN Answer(Live)
       ELSE wait' = [pc |-> "looked", hidden |-> FALSE] /\ UNCHANGED <<member, team>>
    /\ UNCHANGED <<herdr, directory, faults>>

(* list_agents is empty when the maintenance it begins with fails.         *)
SnapshotFails ==
    /\ wait.pc = "snapshot" /\ Fault
    /\ wait' = [pc |-> "looked", hidden |-> TRUE]
    /\ UNCHANGED <<herdr, member, team, directory>>

Sleep ==
    /\ wait.pc = "looked"
    /\ WaitGoes("sleep")
    /\ UNCHANGED <<herdr, member, team, directory, faults>>

Wake ==
    /\ wait.pc = "sleep" /\ notified
    /\ WaitGoes("enable")
    /\ UNCHANGED <<herdr, member, team, directory, faults>>

(* The deadline of the session: the answer the broker times out with, or   *)
(* nothing.                                                                *)
WaitExpires ==
    /\ wait.pc \in {"enable", "snapshot", "looked", "sleep"}
    /\ Answer({}) \/ Answer(Live)
    /\ UNCHANGED <<herdr, directory, faults>>

WaitRecovers ==
    /\ wait.pc = "recover" /\ up
    /\ WaitGoes("enable")
    /\ UNCHANGED <<herdr, member, team, directory, faults>>

WaitEndsFailed ==
    /\ member' = [i \in Members |->
                    IF i \in Started THEN [member[i] EXCEPT !.state = "failed"] ELSE member[i]]
    /\ Goes("done")
    /\ wait' = [pc |-> "none", hidden |-> FALSE]
    /\ UNCHANGED <<herdr, directory>>

RecoveryExpires ==                         \* the recovery ends at the same deadline
    /\ wait.pc = "recover"
    /\ WaitEndsFailed /\ UNCHANGED faults

WaitRefused ==                             \* the broker's answer is final, or not well formed
    /\ wait.pc \in {"enable", "snapshot", "looked", "sleep"} /\ Fault
    /\ WaitEndsFailed

Steps ==
    \/ RenameSelf \/ Layout \/ Split \/ SplitFails \/ CheckPane \/ RenamePane
    \/ ShellReady \/ Busy \/ Backoff \/ StartAgent \/ StartLost \/ ObserveAgent
    \/ Enable \/ directory_snapshot \/ Sleep \/ Wake \/ WaitRecovers

Next ==
    \/ Steps \/ WindowExpires \/ WaitExpires \/ RecoveryExpires \/ WaitRefused \/ SnapshotFails
    \/ \E p \in Panes : PaneFree(p) \/ Registers(p) \/ Leaves(p)
    \/ Record \/ BrokerDies \/ BrokerStarts

Spec == Init /\ [][Next]_vars

-----------------------------------------------------------------------------
(* Nothing is done twice: a role gets at most one pane and a pane at most  *)
(* one Pi, whatever answers are lost and however often the wait recovers.  *)
MutationsOnce ==
    /\ \A p \in Panes : pane[p].pis <= 1
    /\ \A p, q \in Panes : (pane[p].role # 0 /\ pane[p].role = pane[q].role) => p = q

(* The wait never sleeps through the last registration: asleep, with no    *)
(* change left to be recorded, it has seen that an agent is missing, or    *)
(* its snapshot had failed.                                                *)
WaitNotOverslept ==
    (wait.pc = "sleep" /\ up /\ ~notified /\ unrecorded = 0 /\ ~wait.hidden) => Live # Waited

=============================================================================
