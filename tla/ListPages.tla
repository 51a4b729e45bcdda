------------------------------ MODULE ListPages ------------------------------
(***************************************************************************)
(* ListTasks page by page (herdr-a2a-broker store.rs list_owned): a client *)
(* follows page tokens while, between two pages, commits of the ledger     *)
(* insert tasks, change them and delete those whose retention is over.     *)
(* Pages are ordered by status timestamp and task id, newest first; a      *)
(* token carries the row id of the last task shown and its timestamp, and  *)
(* the task id is looked up by row id when the token comes back.  SQLite   *)
(* gives a new row the largest row id in use plus one, so that a row id    *)
(* freed at the end of the table is given out again, to a task of this     *)
(* sender or of another one.                                               *)
(*                                                                         *)
(* Ids are the task ids in their order, 1..MaxTime the timestamps; a       *)
(* changed task may move either way, because a released lease shows the    *)
(* creation time again.  MaxChanges bounds the commits during one listing. *)
(***************************************************************************)
EXTENDS Integers, FiniteSets, Sequences, FiniteSetsExt

CONSTANTS Ids, PageSize, MaxTime, MaxChanges

PageBounds ==
    /\ Ids \subseteq Nat
    /\ {PageSize, MaxTime} \subseteq Nat \ {0} /\ MaxChanges \in Nat

VARIABLES
    rows,      \* the table: set of [id, time, rowid], time 0 in another sender's
    phase,     \* "start", "more", "end" or "invalid"
    token,     \* the page token the last page came with, and the id it was made of
    shown,     \* the ids listed so far, in order
    stable,    \* the sender's ids in the table since the listing began, unchanged
    blurred,   \* times of the tokens that came back when their row was another one
    changes

vars == <<rows, phase, token, shown, stable, blurred, changes>>

\* sender_agent of the row is the caller; of other rows no timestamp is read.
Own(rs) == {r \in rs : r.time > 0}

NextRowid(rs) == IF rs = {} THEN 1 ELSE Max({r.rowid : r \in rs}) + 1

(* Some of the ids, inserted in any order at any time.                     *)
Init ==
    /\ \E ids \in SUBSET Ids \ {{}} : \E time \in [ids -> 0..MaxTime] :
       \E order \in {f \in [ids -> 1..Cardinality(ids)] : \A i, j \in ids : f[i] = f[j] => i = j} :
          /\ rows = {[id |-> i, time |-> time[i], rowid |-> order[i]] : i \in ids}
          /\ stable = {i \in ids : time[i] > 0}
    /\ phase = "start" /\ token = [rowid |-> 0, time |-> 0, of |-> 0]
    /\ shown = <<>> /\ blurred = {} /\ changes = 0

-----------------------------------------------------------------------------
(* One page.                                                               *)

Boundary(c) == {r \in Own(rows) : r.rowid = c.rowid}

After_Mutant(r, c, b) ==                   \* the timestamp alone bounds the page
    r.time < c.time

After(r, c, b) ==
    /\ r.time < c.time \/ (r.time = c.time /\ r.id < b.id)
    /\ r.rowid # c.rowid

Before(r, s) == r.time > s.time \/ (r.time = s.time /\ r.id > s.id)

(* ORDER BY status_timestamp DESC, task_id DESC *)
Sorted(rs) ==
    CHOOSE q \in [1..Cardinality(rs) -> rs] :
        \A i, j \in 1..Cardinality(rs) : i < j => Before(q[i], q[j])

HasMore(n) == n > PageSize

Page(rs) ==
    LET n == Cardinality(rs)
        page == SubSeq(Sorted(rs), 1, IF n > PageSize THEN PageSize ELSE n)
    IN  /\ shown' = shown \o [i \in 1..Len(page) |-> page[i].id]
        /\ phase' = IF HasMore(n) THEN "more" ELSE "end"
        /\ token' = IF HasMore(n)
                    THEN [rowid |-> page[Len(page)].rowid, time |-> page[Len(page)].time,
                          of |-> page[Len(page)].id]
                    ELSE token
        /\ UNCHANGED <<rows, stable, changes>>

FirstPage == phase = "start" /\ Page(Own(rows)) /\ UNCHANGED blurred

list_owned ==
    /\ phase = "more"
    /\ \E b \in Boundary(token) :
        /\ Page({r \in Own(rows) : After(r, token, b)})
        /\ blurred' = IF b.id = token.of THEN blurred ELSE blurred \cup {token.time}

TokenRejected ==                           \* no row of the caller has the row id
    /\ phase = "more" /\ Boundary(token) = {}
    /\ phase' = "invalid"
    /\ UNCHANGED <<rows, token, shown, stable, blurred, changes>>

-----------------------------------------------------------------------------
(* The table meanwhile: commits of the ledger, on another connection.      *)

Live == phase = "more" /\ changes < MaxChanges /\ changes' = changes + 1

Insert ==
    /\ Live
    /\ \E i \in Ids \ {r.id : r \in rows}, t \in 0..MaxTime :
        rows' = rows \cup {[id |-> i, time |-> t, rowid |-> NextRowid(rows)]}
    /\ UNCHANGED <<phase, token, shown, stable, blurred>>

Change ==
    /\ Live
    /\ \E r \in Own(rows), t \in 1..MaxTime :
        /\ t # r.time
        /\ rows' = (rows \ {r}) \cup {[r EXCEPT !.time = t]}
        /\ stable' = stable \ {r.id}
    /\ UNCHANGED <<phase, token, shown, blurred>>

(* All that are due go in one commit; when a task is due depends on times  *)
(* that are not shown in the list.                                         *)
Prune ==
    /\ Live
    /\ \E due \in SUBSET rows \ {{}} :
        /\ rows' = rows \ due
        /\ stable' = stable \ {r.id : r \in due}
    /\ UNCHANGED <<phase, token, shown, blurred>>

Next == FirstPage \/ list_owned \/ TokenRejected \/ Insert \/ Change \/ Prune

Spec == Init /\ [][Next]_vars

-----------------------------------------------------------------------------
Shown == {shown[i] : i \in 1..Len(shown)}

(* A listing that ends has shown every task that stayed as it was, once:   *)
(* whatever moved, arrived or was deleted meanwhile, nothing that did not  *)
(* is skipped or repeated.  The one exception is a token whose row has     *)
(* been deleted and whose row id has been given to a new task of the same  *)
(* sender: the page then begins beside that task, and the tasks with the   *)
(* very timestamp of the token, and no others, may be missed or repeated.  *)
CompleteForUnchanged ==
    \A r \in rows : (r.id \in stable /\ r.time \notin blurred) =>
        /\ Cardinality({k \in 1..Len(shown) : shown[k] = r.id}) <= 1
        /\ phase = "end" => r.id \in Shown
=============================================================================
