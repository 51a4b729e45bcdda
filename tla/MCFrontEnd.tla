----------------------------- MODULE MCFrontEnd -----------------------------
(***************************************************************************)
(* The HTTP side of the broker for TLC: the projections of the ledger and  *)
(* the SDK's writes to them, the send workflow, the directory of agents,   *)
(* and the pages of a task listing.  They share no state in the models: a  *)
(* behaviour exercises one of them, in one setting, and the variables of   *)
(* the others keep their first values.                                     *)
(***************************************************************************)
EXTENDS Projections, SendWorkflow, Directory, TLC

CONSTANT Settings

VARIABLES setting, rows, phase, token, shown, stable, blurred, changes

pageVars == <<rows, phase, token, shown, stable, blurred, changes>>
vars == <<setting, projectionVars, sendVars, directoryVars, pageVars>>

Pages == INSTANCE ListPages WITH
    Ids <- 1..4, PageSize <- 2, MaxTime <- 2, MaxChanges <- 3

ASSUME FrontEndAssumption ==
    /\ ProjectionBounds /\ WorkflowConstants
    /\ Pages!PageBounds

\* Executions, tasks, sessions and requests are interchangeable.  One component
\* moves at a time, so that sets of two components may be permuted together.
Together(S, T) ==
    {p[1] @@ p[2] : p \in {p \in Permutations(S) \X Permutations(T) :
                             (\A x \in S : p[1][x] = x) <=> (\A y \in T : p[2][y] = y)}}
Symmetry == Together(Executions, Sessions) \cup Together(Tasks, Requests)

\* A pane called "coder" or not at all, that may have changed its directory.
PaneSights ==
    {[kind |-> "pi", label |-> l, here |-> TRUE, path |-> "home"] : l \in {"coder", "agent"}}
      \cup {[kind |-> "pi", label |-> "coder", here |-> TRUE, path |-> "away"]}
Slug == [l \in {"coder", "agent"} |-> l]

-----------------------------------------------------------------------------
\* One task whose id is used twice; two tasks that compete for the registry.
Touched == {t \in Tasks : spent'[t] > 0}
OneTask == Cardinality(Touched) <= 1 /\ runs' <= 2
TwoTasks == \A t \in Tasks : spent'[t] <= 1 /\ (ledger'[t] # None => ledger'[t].version <= 2)

NoPages ==
    /\ rows = {} /\ stable = {} /\ blurred = {} /\ phase = "end"
    /\ token = 0 /\ shown = <<>> /\ changes = 0

Init ==
    /\ setting \in Settings
    /\ ProjectionInit /\ SendInit /\ DirectoryInit
    /\ setting # "directory" => \A p \in Panes : sight[p].path = "away"
    /\ IF setting = "pages" THEN Pages!Init ELSE NoPages

Next ==
    /\ UNCHANGED setting
    /\ \/ /\ \/ setting = "store" /\ ProjectionNext /\ OneTask
             \/ setting = "limits" /\ ProjectionNext /\ TwoTasks
          /\ UNCHANGED <<sendVars, directoryVars, pageVars>>
       \/ /\ setting = "workflows" /\ SendNext
          /\ UNCHANGED <<projectionVars, directoryVars, pageVars>>
       \/ /\ setting = "directory" /\ DirectoryNext
          /\ UNCHANGED <<projectionVars, sendVars, pageVars>>
       \/ /\ setting = "pages" /\ Pages!Next
          /\ UNCHANGED <<projectionVars, sendVars, directoryVars>>

Spec == Init /\ [][Next]_vars

-----------------------------------------------------------------------------
(* ProjectionFollowsLedger, OneWorkflow and NameMeansOneAgent are those of *)
(* the components, whose variables do not move in other settings.          *)

\* A listing shows every task that stayed as it was exactly once, or has met a
\* reused row id and errs among the tasks of one timestamp.
CompleteForUnchanged == setting = "pages" => Pages!CompleteForUnchanged
=============================================================================
