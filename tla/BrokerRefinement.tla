------------------------- MODULE BrokerRefinement -------------------------
(***************************************************************************)
(* The broker's ledger implements the task lifecycle.                      *)
(***************************************************************************)
EXTENDS Broker

\* What a ledger row says about its task.  The attempt of an open row counts
\* from 0 at the first delivery, and version 1 has not been offered.
StatusOf(row) ==
    [st |-> row.st, dlv |-> row.dlv,
     offers |-> IF row.st \in Terminal \/ row.ver = 1 THEN 0
                                                      ELSE row.attempt + 1,
     reply |-> row.reply]

Lifecycle == INSTANCE TaskLifecycle WITH
    Deliveries <- Nat, Offers <- Nat,
    task <- [t \in TaskIds |->
               IF t \in DOMAIN ledger
                 THEN StatusOf(ledger[t])
                 ELSE [st |-> "Unknown", dlv |-> NoDelivery, offers |-> 0,
                       reply |-> NoReply]]

\* Every transaction that reaches the ledger, from a request, from
\* maintenance, from recovery or from a request whose client has gone, moves
\* each task along its lifecycle or leaves it alone.
ImplementsLifecycle == Lifecycle!Spec
=============================================================================
