------------------------- MODULE GenerationCatalog --------------------------
(***************************************************************************)
(* What the managed installer promises about its ownership record: an      *)
(* install replaces it in one step, the generation it replaces is retained *)
(* as long as the installation lives, and repair changes only the state.   *)
(***************************************************************************)
EXTENDS Naturals, FiniteSets

CONSTANTS Gens, NoGen, MaxRetained

VARIABLE installed   \* the record a command that recovers now would find

Absent == {"None", "Removed"}
States == {"Ready", "PiAdapterPending", "Failed"}

CatalogInit == installed.retained = {} /\ (installed.state = "None" <=> installed.gen = NoGen)

\* A fresh install starts an empty catalog; an update moves the current generation into it.
CatalogInstall(g) ==
  /\ g \in Gens \ installed.retained
  /\ \E s \in {"Ready", "PiAdapterPending"} :
       installed' = [gen |-> g, state |-> s,
                     retained |-> IF installed.state \in Absent THEN {}
                                  ELSE installed.retained \cup ({installed.gen} \ {g})]
  /\ Cardinality(installed'.retained) <= MaxRetained

CatalogRepair ==
  /\ installed.state \notin Absent
  /\ \E s \in States : installed' = [installed EXCEPT !.state = s]

CatalogNext == (\E g \in Gens : CatalogInstall(g)) \/ CatalogRepair

CatalogSpec == CatalogInit /\ [][CatalogNext]_installed

=============================================================================
