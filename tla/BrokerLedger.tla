---------------------------- MODULE BrokerLedger ----------------------------
(***************************************************************************)
(* The broker's memory and its ledger: what a row, a transaction whose     *)
(* caller has gone and an answer already given say about each other, and   *)
(* that every write of the ledger is a step of the task lifecycle.         *)
(***************************************************************************)
EXTENDS BrokerSteps

-----------------------------------------------------------------------------
(* The invariant.                                                          *)

\* A task whose retention is over, unless the clock has stepped back since.
Past(task) ==
    ~Open(task) /\ (ClockBack = 0 => task.term + TerminalRetention <= now)

\* A batch that may still be written: each row follows the one it replaces, or
\* will be suppressed, and each row it deletes has retired.
Fitting(b) ==
    /\ DOMAIN b.put \cap b.del = {}
    /\ \A t \in DOMAIN b.put : WellFormed(b.put[t])
    /\ \A t \in DOMAIN b.put \cap DOMAIN ledger :
         b.put[t].ver <= ledger[t].ver \/ Succeeds(ledger[t], b.put[t])
    /\ \A t \in b.del \cap DOMAIN ledger :
         ledger[t].st \in Terminal /\ (ClockBack = 0 => Retired(ledger[t], now))

RowsWell ==
    /\ \A t \in DOMAIN tasks : Shaped(tasks[t])
    /\ \A t \in DOMAIN ledger : WellFormed(ledger[t]) /\ ValidForStore(ledger[t])
    /\ Cardinality(DOMAIN ledger) <= MaxRetainedTasks

\* Memory, the ledger or a transaction under way binds delivery d to task t; no
\* delivery id is bound to two tasks.
Claim(t, d) ==
    /\ d # NoDelivery
    /\ \/ t \in DOMAIN tasks /\ tasks[t].dlv = d
       \/ t \in DOMAIN ledger /\ ledger[t].dlv = d
       \/ \E o \in orphans : t \in DOMAIN o.put /\ o.put[t].dlv = d
ClaimsApart ==
    \A t, u \in TaskIds : \A d \in Nat : Claim(t, d) /\ Claim(u, d) => t = u

\* What a transaction whose caller has gone may still do: it is at most one
\* version ahead of memory, and deletes what memory holds as retired.
InStep(o) ==
    /\ \A t \in DOMAIN o.put \cap DOMAIN tasks : o.put[t].ver <= tasks[t].ver + 1
    /\ \A t \in o.del \cap DOMAIN tasks : Past(tasks[t])
OrphansFit ==
    \A o \in orphans : /\ Fitting(o)
                       /\ DOMAIN o.put \subseteq DOMAIN ledger
                       /\ up /\ ~doubt => InStep(o)

\* The ledger says of a task what memory says, or something later; and just
\* one write later unless reconciliation_required is set.
LedgerAhead ==
    up => /\ \A t \in DOMAIN tasks \cap DOMAIN ledger :
               \/ ledger[t] = DurableTask(tasks[t])
               \/ /\ Later(DurableTask(tasks[t]), ledger[t])
                  /\ ~doubt => Succeeds(DurableTask(tasks[t]), ledger[t])
          /\ ~doubt => /\ DOMAIN ledger \subseteq DOMAIN tasks
                       /\ \A t \in DOMAIN tasks \ DOMAIN ledger : Past(tasks[t])

\* A row agrees with what callers have been told of its task.
ToldRow(t, row) ==
    /\ acks[t] # {} => \/ row.st \in Terminal
                       \/ row.st = "Acknowledged" /\ row.dlv \in acks[t]
    /\ \A o \in outcomes[t] : row.st = o.st /\ row.reply = o.reply
ToldAt(t) ==
    /\ up /\ t \notin DOMAIN tasks => acks[t] = {} /\ outcomes[t] = {}
    /\ \A d \in acks[t] : acks[t] = {d}
    /\ t \in DOMAIN tasks => ToldRow(t, DurableTask(tasks[t]))
    /\ t \in DOMAIN ledger => ToldRow(t, ledger[t])
Told == \A t \in TaskIds : ToldAt(t)

LedgerInv == RowsWell /\ ClaimsApart /\ OrphansFit /\ LedgerAhead /\ Told

-----------------------------------------------------------------------------
(* A transaction that is written.                                          *)

\* What was told of a row holds of every later one.
LEMMA ToldLater ==
    ASSUME Inv, NEW t \in TaskIds, NEW old, NEW new, Later(old, new), ToldRow(t, old)
    PROVE  ToldRow(t, new)
<1>1. \A o \in outcomes[t] : o.st \in Terminal
  BY DEF Inv, TypeOK, Outcome
<1>2. QED
  BY <1>1, Zenon DEF Later, ToldRow

\* SqliteTaskStore::commit moves each row one step or leaves it, and writes
\* only rows that load will accept.
LEMMA WriteMoves ==
    ASSUME Inv, RowsWell, NEW b, IsBatch(b), Fitting(b), Write(b)
    PROVE  /\ DOMAIN ledger' = (DOMAIN ledger \ b.del) \cup DOMAIN b.put
           /\ \A t \in DOMAIN ledger' :
                ledger'[t] = IF t \in DOMAIN b.put THEN b.put[t] ELSE ledger[t]
           /\ \A t \in DOMAIN ledger \cap DOMAIN ledger' :
                ledger'[t] = ledger[t] \/ Succeeds(ledger[t], ledger'[t])
           /\ \A t \in DOMAIN ledger' :
                WellFormed(ledger'[t]) /\ ValidForStore(ledger'[t])
           /\ Cardinality(DOMAIN ledger') <= MaxRetainedTasks
<1>1. /\ DOMAIN ledger' = (DOMAIN ledger \ b.del) \cup DOMAIN b.put
      /\ \A t \in DOMAIN ledger' :
           ledger'[t] = IF t \in DOMAIN b.put THEN b.put[t] ELSE ledger[t]
  BY Zenon DEF Write, Upsert, Without
<1>2. ASSUME NEW t \in DOMAIN ledger \cap DOMAIN ledger'
      PROVE  ledger'[t] = ledger[t] \/ Succeeds(ledger[t], ledger'[t])
  <2>1. CASE t \in DOMAIN b.put
    <3>1. t \notin b.del /\ ledger'[t] = b.put[t]
      BY <1>1, <2>1, Zenon DEF Fitting
    <3>2. ledger[t].ver \in Nat /\ b.put[t].ver \in Nat
      BY <2>1, Zenon DEF Inv, TypeOK, IsBatch, Partial, Row
    <3>3. ~(ledger[t].ver >= b.put[t].ver /\ ledger[t] # b.put[t])
      BY <2>1, <3>1, Zenon DEF Write, Suppressed
    <3>4. b.put[t].ver <= ledger[t].ver \/ Succeeds(ledger[t], b.put[t])
      BY <2>1, Zenon DEF Fitting
    <3>5. QED
      BY <3>1, <3>2, <3>3, <3>4, Zenon
  <2>2. CASE t \notin DOMAIN b.put
    BY <1>1, <2>2, Zenon
  <2>3. QED
    BY <2>1, <2>2, Zenon
<1>3. \A t \in DOMAIN ledger' : WellFormed(ledger'[t]) /\ ValidForStore(ledger'[t])
  BY <1>1, Zenon DEF RowsWell, Fitting, Write, Storable
<1>4. Cardinality(DOMAIN ledger') <= MaxRetainedTasks
  BY <1>1, Zenon DEF Write, Storable
<1>5. QED
  BY <1>1, <1>2, <1>3, <1>4, Zenon

\* The ledger as the lifecycle sees it: each task stays as it is or moves.
StatusAt(t) == IF t \in DOMAIN ledger THEN StatusOf(ledger[t]) ELSE Lifecycle!Unknown
LedgerMoves ==
    \A t \in TaskIds : \/ StatusAt(t)' = StatusAt(t)
                       \/ Lifecycle!Move(StatusAt(t), StatusAt(t)')
LedgerKept == LedgerInv' /\ LedgerMoves

LEMMA StillMoves ==
    ASSUME ledger' = ledger
    PROVE  LedgerMoves
BY Zenon DEF LedgerMoves, StatusAt

\* A write of rows that follow the stored ones, and of first rows, moves it.
LEMMA WriteAdvances ==
    ASSUME Inv, RowsWell, NEW b, IsBatch(b), Fitting(b), Write(b),
           \A t \in DOMAIN b.put \ DOMAIN ledger : b.put[t].ver = 1
    PROVE  LedgerMoves
<1>1. /\ DOMAIN ledger' = (DOMAIN ledger \ b.del) \cup DOMAIN b.put
      /\ \A t \in DOMAIN ledger' :
           ledger'[t] = IF t \in DOMAIN b.put THEN b.put[t] ELSE ledger[t]
      /\ \A t \in DOMAIN ledger \cap DOMAIN ledger' :
           ledger'[t] = ledger[t] \/ Succeeds(ledger[t], ledger'[t])
  BY WriteMoves, Zenon
<1> SUFFICES ASSUME NEW t \in TaskIds
             PROVE  \/ StatusAt(t)' = StatusAt(t)
                    \/ Lifecycle!Move(StatusAt(t), StatusAt(t)')
  BY Zenon DEF LedgerMoves
<1>2. CASE t \in DOMAIN ledger /\ t \in DOMAIN ledger'
  BY <1>1, <1>2, Zenon DEF StatusAt, Succeeds
<1>3. CASE t \notin DOMAIN ledger /\ t \notin DOMAIN ledger'
  BY <1>3, Zenon DEF StatusAt
<1>4. CASE t \in DOMAIN ledger /\ t \notin DOMAIN ledger'
  <2>1. t \in b.del /\ ledger[t].st \in Terminal /\ ledger[t] \in Row
    BY <1>1, <1>4, Zenon DEF Fitting, Inv, TypeOK, Partial
  <2>2. StatusAt(t).st \in Lifecycle!Ended /\ StatusAt(t)' = Lifecycle!Unknown
    BY <1>4, <2>1, StatusColumns, Zenon DEF StatusAt, Lifecycle!Ended, Terminal
  <2>3. QED
    BY <2>2, Zenon DEF Lifecycle!Move, Lifecycle!Forget
<1>5. CASE t \notin DOMAIN ledger /\ t \in DOMAIN ledger'
  <2> DEFINE row == b.put[t]
             want == [Lifecycle!Unknown EXCEPT !.st = "Queued"]
  <2>1. /\ ledger'[t] = row /\ row \in Row /\ WellFormed(row) /\ row.ver = 1
    BY <1>1, <1>5, Zenon DEF Fitting, IsBatch, Partial
  <2> HIDE DEF row
  <2>2. /\ row.st = "Queued" /\ row.dlv = NoDelivery /\ row.reply = NoReply
    BY <2>1, Zenon DEF WellFormed, ColumnsFitState, Answered
  <2>3. /\ StatusOf(row) \in Status /\ StatusOf(row).st = "Queued"
        /\ StatusOf(row).dlv = NoDelivery /\ StatusOf(row).offers = 0
        /\ StatusOf(row).reply = NoReply
    BY <2>1, <2>2, StatusColumns, Zenon
  <2>4. /\ want \in Status /\ want.st = "Queued" /\ want.dlv = NoDelivery
        /\ want.offers = 0 /\ want.reply = NoReply
    BY Zenon DEF Lifecycle!Unknown, Status, NoDelivery, Active
  <2> HIDE DEF want
  <2>5. StatusOf(row) = want
    BY <2>3, <2>4, StatusEqual, Zenon
  <2>6. StatusAt(t) = Lifecycle!Unknown /\ StatusAt(t)' = want
    BY <1>5, <2>1, <2>5, Zenon DEF StatusAt
  <2>7. QED
    BY <2>6, Zenon DEF Lifecycle!Move, Lifecycle!Submit, want
<1>6. QED
  BY <1>2, <1>3, <1>4, <1>5, Zenon

\* The transactions still waiting fit the ledger after it as they did before.
LEMMA OrphansStay ==
    ASSUME Inv, RowsWell, OrphansFit, NEW b, IsBatch(b), Fitting(b), Write(b),
           now' = now, NEW o \in orphans
    PROVE  Fitting(o)' /\ DOMAIN o.put \subseteq DOMAIN ledger'
<1>1. /\ DOMAIN ledger' = (DOMAIN ledger \ b.del) \cup DOMAIN b.put
      /\ \A t \in DOMAIN ledger \cap DOMAIN ledger' :
           ledger'[t] = ledger[t] \/ Succeeds(ledger[t], ledger'[t])
  BY WriteMoves, Zenon
<1>2. /\ b.del \cap DOMAIN o.put = {}
      /\ (DOMAIN b.put \ DOMAIN ledger) \cap o.del = {}
  <2>1. CASE o = b
    BY <2>1, Zenon DEF Fitting
  <2>2. CASE o # b
    BY <2>2, Zenon DEF Write, InOrder
  <2>3. QED
    BY <2>1, <2>2, Zenon
<1>3. Fitting(o) /\ DOMAIN o.put \subseteq DOMAIN ledger /\ IsBatch(o)
  BY Zenon DEF OrphansFit, Inv, TypeOK
<1>4. DOMAIN o.put \subseteq DOMAIN ledger'
  BY <1>1, <1>2, <1>3, Zenon
<1>5. ASSUME NEW t \in DOMAIN o.put
      PROVE  o.put[t].ver <= ledger'[t].ver \/ Succeeds(ledger'[t], o.put[t])
  <2>1. t \in DOMAIN ledger \cap DOMAIN ledger'
    BY <1>3, <1>4, Zenon
  <2>2. ledger[t].ver \in Nat /\ o.put[t].ver \in Nat
    BY <1>3, <2>1, Zenon DEF Inv, TypeOK, IsBatch, Partial, Row
  <2>3. o.put[t].ver <= ledger[t].ver \/ Succeeds(ledger[t], o.put[t])
    BY <1>3, <2>1, Zenon DEF Fitting
  <2>4. CASE ledger'[t] = ledger[t]
    BY <2>3, <2>4, Zenon
  <2>5. CASE ledger'[t].ver = ledger[t].ver + 1
    BY <2>2, <2>3, <2>5 DEF Succeeds
  <2>6. QED
    BY <1>1, <2>1, <2>4, <2>5, Zenon DEF Succeeds
<1>6. ASSUME NEW t \in o.del \cap DOMAIN ledger'
      PROVE  /\ ledger'[t].st \in Terminal
             /\ ClockBack = 0 => Retired(ledger'[t], now)
  <2>1. t \in DOMAIN ledger
    BY <1>1, <1>2, Zenon
  <2>2. ledger[t].st \in Terminal /\ (ClockBack = 0 => Retired(ledger[t], now))
    BY <1>3, <2>1, Zenon DEF Fitting
  <2>3. ledger'[t] = ledger[t]
    BY <1>1, <2>1, <2>2, Zenon DEF Succeeds
  <2>4. QED
    BY <2>2, <2>3, Zenon
<1>7. QED
  BY <1>3, <1>4, <1>5, <1>6, Zenon DEF Fitting

\* The delivery ids of a batch belong to its tasks already, or it is the batch
\* of poll_delivery with the id just drawn.
Claimed(b) ==
    \/ \A t \in DOMAIN b.put : b.put[t].dlv = NoDelivery \/ Claim(t, b.put[t].dlv)
    \/ \E t \in DOMAIN b.put : DOMAIN b.put = {t} /\ b.put[t].dlv > issued

LEMMA ClaimsAfter ==
    ASSUME Inv, ClaimsApart, NEW b, IsBatch(b), Claimed(b),
           \A t \in TaskIds, d \in Nat :
             Claim(t, d)' => Claim(t, d) \/ (t \in DOMAIN b.put /\ b.put[t].dlv = d)
    PROVE  ClaimsApart'
<1>1. ASSUME NEW t \in TaskIds, NEW d \in Nat, Claim(t, d)  PROVE  d <= issued
  <2>1. d # NoDelivery
    BY <1>1, Zenon DEF Claim
  <2>2. CASE t \in DOMAIN tasks /\ tasks[t].dlv = d
    BY <2>2, Zenon DEF Inv, LeasesDrawn, DrawnBy
  <2>3. CASE t \in DOMAIN ledger /\ ledger[t].dlv = d
    BY <2>3, Zenon DEF Inv, LeasesDrawn, DrawnBy
  <2>4. CASE \E o \in orphans : t \in DOMAIN o.put /\ o.put[t].dlv = d
    BY <2>4 DEF Inv, LeasesDrawn, DrawnBy
  <2>5. QED
    BY <1>1, <2>2, <2>3, <2>4, Zenon DEF Claim
<1> SUFFICES ASSUME NEW t \in TaskIds, NEW u \in TaskIds, NEW d \in Nat,
                    Claim(t, d)', Claim(u, d)'
             PROVE  t = u
  BY Zenon DEF ClaimsApart
<1>2. /\ Claim(t, d) \/ (t \in DOMAIN b.put /\ b.put[t].dlv = d)
      /\ Claim(u, d) \/ (u \in DOMAIN b.put /\ b.put[u].dlv = d)
      /\ d # NoDelivery
  <2>1. d # NoDelivery
    BY Zenon DEF Claim
  <2>2. QED
    BY <2>1, Zenon
<1>3. CASE \A v \in DOMAIN b.put : b.put[v].dlv = NoDelivery \/ Claim(v, b.put[v].dlv)
  BY <1>2, <1>3 DEF ClaimsApart
<1>4. ASSUME NEW v \in DOMAIN b.put, DOMAIN b.put = {v}, b.put[v].dlv > issued
      PROVE  t = u
  <2>1. issued \in Nat /\ b.put[v].dlv \in Nat
    BY DEF Inv, TypeOK, IsBatch, Partial, Row
  <2>2. CASE d <= issued
    BY <1>2, <1>4, <2>1, <2>2 DEF ClaimsApart
  <2>3. CASE ~(d <= issued)
    BY <1>1, <1>2, <1>4, <2>1, <2>3, Zenon
  <2>4. QED
    BY <2>2, <2>3, Zenon
<1>5. QED
  BY <1>3, <1>4, Zenon DEF Claimed

\* A transaction that is written while memory stands still, because its
\* caller has gone or does not learn of it.
LEMMA WriteKeepsRows ==
    ASSUME Inv, LedgerInv, NEW b, IsBatch(b), Fitting(b), Claimed(b), Write(b),
           UNCHANGED <<now, up, tasks, acks, outcomes>>,
           orphans' \subseteq orphans, Inv',
           up' /\ ~doubt' => up /\ ~doubt,
           \A t \in DOMAIN b.put \ DOMAIN ledger :
             up /\ t \notin DOMAIN tasks /\ b.put[t].ver = 1
    PROVE  RowsWell' /\ ClaimsApart' /\ OrphansFit' /\ Told' /\ LedgerMoves
<1>1. /\ DOMAIN ledger' = (DOMAIN ledger \ b.del) \cup DOMAIN b.put
      /\ \A t \in DOMAIN ledger' :
           ledger'[t] = IF t \in DOMAIN b.put THEN b.put[t] ELSE ledger[t]
      /\ \A t \in DOMAIN ledger \cap DOMAIN ledger' :
           ledger'[t] = ledger[t] \/ Succeeds(ledger[t], ledger'[t])
      /\ \A t \in DOMAIN ledger' :
           WellFormed(ledger'[t]) /\ ValidForStore(ledger'[t])
      /\ Cardinality(DOMAIN ledger') <= MaxRetainedTasks
  BY WriteMoves, Zenon DEF LedgerInv
<1>2. RowsWell'
  BY <1>1, Zenon DEF LedgerInv, RowsWell
<1>3. ClaimsApart'
  <2>1. ASSUME NEW t \in TaskIds, NEW d \in Nat, Claim(t, d)'
        PROVE  Claim(t, d) \/ (t \in DOMAIN b.put /\ b.put[t].dlv = d)
    BY <1>1, <2>1, Zenon DEF Claim
  <2>2. QED
    BY <2>1, ClaimsAfter, Zenon DEF LedgerInv
<1>4. OrphansFit'
  <2> SUFFICES ASSUME NEW o \in orphans'
               PROVE  /\ Fitting(o)' /\ DOMAIN o.put \subseteq DOMAIN ledger'
                      /\ up' /\ ~doubt' => InStep(o)'
    BY Zenon DEF OrphansFit
  <2>1. o \in orphans
    BY Zenon
  <2>2. Fitting(o)' /\ DOMAIN o.put \subseteq DOMAIN ledger'
    BY <2>1, OrphansStay, Zenon DEF LedgerInv
  <2>3. up' /\ ~doubt' => InStep(o)'
    BY <2>1, Zenon DEF LedgerInv, OrphansFit, InStep, Past
  <2>4. QED
    BY <2>2, <2>3, Zenon
<1>5. Told'
  <2> SUFFICES ASSUME NEW t \in TaskIds
               PROVE  ToldAt(t)'
    BY Zenon DEF Told
  <2>1. ToldAt(t)
    BY Zenon DEF LedgerInv, Told
  <2>2. ASSUME t \in DOMAIN ledger'
        PROVE  ToldRow(t, ledger'[t])
    <3>1. CASE t \in DOMAIN ledger
      <4>1. ledger[t] \in Row /\ ledger'[t] \in Row
        BY <2>2, <3>1, Zenon DEF Inv, TypeOK, Partial
      <4>2. ledger'[t] = ledger[t] \/ Later(ledger[t], ledger'[t])
        BY <1>1, <2>2, <3>1, <4>1, SucceedsLater, Zenon
      <4>3. ToldRow(t, ledger[t])
        BY <2>1, <3>1, Zenon DEF ToldAt
      <4>4. QED
        BY <4>2, <4>3, ToldLater, Zenon
    <3>2. CASE t \notin DOMAIN ledger
      BY <1>1, <2>1, <2>2, <3>2, Zenon DEF ToldAt, ToldRow
    <3>3. QED
      BY <3>1, <3>2, Zenon
  <2>3. QED
    BY <2>1, <2>2, Zenon DEF ToldAt, ToldRow
<1>6. LedgerMoves
  BY WriteAdvances, Zenon DEF LedgerInv
<1>7. QED
  BY <1>2, <1>3, <1>4, <1>5, <1>6

\* It leaves memory further behind, which needs reconciliation_required unless
\* it was in step with memory.
LEMMA WriteKeepsAhead ==
    ASSUME Inv, Inv', LedgerInv, NEW b, IsBatch(b), Fitting(b), Write(b),
           UNCHANGED <<now, up, tasks>>,
           \A t \in DOMAIN b.put \ DOMAIN ledger : t \notin DOMAIN tasks,
           \/ doubt'
           \/ doubt' = doubt /\ DOMAIN b.put \subseteq DOMAIN ledger
                /\ (up /\ ~doubt => InStep(b))
    PROVE  LedgerAhead'
<1>1. /\ DOMAIN ledger' = (DOMAIN ledger \ b.del) \cup DOMAIN b.put
      /\ \A t \in DOMAIN ledger' :
           ledger'[t] = IF t \in DOMAIN b.put THEN b.put[t] ELSE ledger[t]
      /\ \A t \in DOMAIN ledger \cap DOMAIN ledger' :
           ledger'[t] = ledger[t] \/ Succeeds(ledger[t], ledger'[t])
  BY WriteMoves, Zenon DEF LedgerInv
<1> SUFFICES ASSUME up
             PROVE  LedgerAhead'
  BY Zenon DEF LedgerAhead
<1>2. ASSUME NEW t \in DOMAIN tasks \cap DOMAIN ledger'
      PROVE  \/ ledger'[t] = DurableTask(tasks[t])
             \/ /\ Later(DurableTask(tasks[t]), ledger'[t])
                /\ ~doubt' => Succeeds(DurableTask(tasks[t]), ledger'[t])
  <2> DEFINE row == DurableTask(tasks[t])
  <2>1. t \in DOMAIN ledger
    BY <1>1, <1>2, Zenon
  <2>2. /\ tasks[t] \in TaskRecord /\ ledger[t] \in Row /\ ledger'[t] \in Row
    BY <1>2, <2>1, Zenon DEF Inv, TypeOK, Partial
  <2>3. row \in Row /\ row.ver = tasks[t].ver /\ row.ver \in Nat
    BY <2>2, DurableColumns, Zenon DEF Row
  <2>4. \/ ledger[t] = row
        \/ Later(row, ledger[t]) /\ (~doubt => Succeeds(row, ledger[t]))
    BY <1>2, <2>1, Zenon DEF LedgerInv, LedgerAhead
  <2> HIDE DEF row
  <2>5. CASE ledger'[t] = ledger[t]
    BY <2>4, <2>5 DEF row
  <2>6. CASE Succeeds(ledger[t], ledger'[t])
    <3>1. Later(row, ledger'[t])
      <4>1. CASE ledger[t] = row
        BY <2>2, <2>3, <2>6, <4>1, SucceedsLater, Zenon
      <4>2. CASE Later(row, ledger[t])
        BY <2>2, <2>3, <2>6, <4>2, LaterStill, Zenon
      <4>3. QED
        BY <2>4, <4>1, <4>2, Zenon
    <3>2. ASSUME ~doubt'  PROVE  Succeeds(row, ledger'[t])
      <4>1. ~doubt /\ InStep(b)
        BY <3>2
      <4>2. ledger[t] = row \/ Succeeds(row, ledger[t])
        BY <2>4, <4>1, Zenon
      <4>3. ledger'[t].ver = ledger[t].ver + 1 /\ ledger[t].ver \in Nat
        BY <2>2, <2>6, Zenon DEF Succeeds, Row
      <4>4. t \in DOMAIN b.put /\ ledger'[t] = b.put[t]
        BY <1>1, <1>2, <4>3
      <4>5. ledger'[t].ver <= row.ver + 1
        BY <1>2, <2>3, <4>1, <4>4, Zenon DEF InStep
      <4>6. ~Succeeds(row, ledger[t])
        BY <2>3, <4>3, <4>5 DEF Succeeds
      <4>7. QED
        BY <2>6, <4>2, <4>6, Zenon
    <3>3. QED
      BY <3>1, <3>2, Zenon DEF row
  <2>7. QED
    BY <1>1, <1>2, <2>1, <2>5, <2>6, Zenon
<1>3. ASSUME ~doubt'
      PROVE  /\ DOMAIN ledger' \subseteq DOMAIN tasks
             /\ \A t \in DOMAIN tasks \ DOMAIN ledger' : Past(tasks[t])
  <2>1. /\ ~doubt /\ DOMAIN b.put \subseteq DOMAIN ledger /\ InStep(b)
    BY <1>3
  <2>2. /\ DOMAIN ledger \subseteq DOMAIN tasks
        /\ \A t \in DOMAIN tasks \ DOMAIN ledger : Past(tasks[t])
    BY <2>1, Zenon DEF LedgerInv, LedgerAhead
  <2>3. QED
    BY <1>1, <2>1, <2>2, Zenon DEF InStep
<1>4. QED
  BY <1>2, <1>3, Zenon DEF LedgerAhead, Past

\* What a request that commits the batch b has checked before: each row of it
\* is the next one of its task or the first of a new task.
Made(b) ==
    /\ IsBatch(b) /\ Fitting(b) /\ Claimed(b)
    /\ \A t \in DOMAIN b.put \ DOMAIN ledger : t \notin DOMAIN tasks /\ b.put[t].ver = 1
    /\ up /\ ~doubt => InStep(b)

\* commit_transition that fails or is dropped.
LEMMA InterruptedKeepsLedger ==
    ASSUME Inv, Inv', LedgerInv, up, NEW b, Made(b), NEW droppable,
           droppable => DOMAIN b.put \subseteq DOMAIN ledger,
           Interrupted(b, droppable)
    PROVE  LedgerKept
<1>1. UNCHANGED <<now, up, tasks, acks, outcomes>>
  BY Zenon DEF Interrupted, memory
<1>2. CASE Write(b) /\ doubt' = TRUE /\ UNCHANGED orphans
  <2>1. RowsWell' /\ ClaimsApart' /\ OrphansFit' /\ Told' /\ LedgerMoves
    BY <1>1, <1>2, WriteKeepsRows, Zenon DEF Made
  <2>2. LedgerAhead'
    BY <1>1, <1>2, WriteKeepsAhead, Zenon DEF Made
  <2>3. QED
    BY <2>1, <2>2, Zenon DEF LedgerInv, LedgerKept
<1>3. CASE doubt' = TRUE /\ UNCHANGED <<store, orphans>>
  <2>1. UNCHANGED <<ledger, orphans>>
    BY <1>3, Zenon DEF store
  <2>2. RowsWell' /\ ClaimsApart' /\ Told'
    BY <1>1, <2>1 DEF LedgerInv, RowsWell, ClaimsApart, Claim, Told, ToldAt, ToldRow
  <2>3. OrphansFit'
    BY <1>1, <1>3, <2>1, Zenon DEF LedgerInv, OrphansFit, Fitting
  <2>4. LedgerAhead'
    BY <1>1, <1>3, <2>1, Zenon DEF LedgerInv, LedgerAhead
  <2>5. QED
    BY <2>1, <2>2, <2>3, <2>4, StillMoves, Zenon DEF LedgerInv, LedgerKept
<1>4. CASE /\ droppable
           /\ orphans' = orphans \cup {b}
           /\ UNCHANGED <<store, doubt>>
  <2>1. UNCHANGED <<ledger, doubt>>
    BY <1>4, Zenon DEF store
  <2>2. RowsWell' /\ Told'
    BY <1>1, <2>1 DEF LedgerInv, RowsWell, Told, ToldAt, ToldRow
  <2>3. ClaimsApart'
    <3>1. ASSUME NEW t \in TaskIds, NEW d \in Nat, Claim(t, d)'
          PROVE  Claim(t, d) \/ (t \in DOMAIN b.put /\ b.put[t].dlv = d)
      BY <1>1, <1>4, <2>1, <3>1, Zenon DEF Claim
    <3>2. QED
      BY <3>1, ClaimsAfter, Zenon DEF LedgerInv, Made
  <2>4. OrphansFit'
    <3> SUFFICES ASSUME NEW o \in orphans'
                 PROVE  /\ Fitting(o)' /\ DOMAIN o.put \subseteq DOMAIN ledger'
                        /\ up' /\ ~doubt' => InStep(o)'
      BY Zenon DEF OrphansFit
    <3>1. /\ Fitting(o) /\ DOMAIN o.put \subseteq DOMAIN ledger
          /\ up /\ ~doubt => InStep(o)
      BY <1>4, Zenon DEF LedgerInv, OrphansFit, Made
    <3>2. QED
      BY <1>1, <2>1, <3>1, Zenon DEF Fitting, InStep, Past
  <2>5. LedgerAhead'
    BY <1>1, <2>1, Zenon DEF LedgerInv, LedgerAhead, Past
  <2>6. QED
    BY <2>1, <2>2, <2>3, <2>4, <2>5, StillMoves, Zenon DEF LedgerInv, LedgerKept
<1>5. QED
  BY <1>2, <1>3, <1>4, Zenon DEF Interrupted

\* A transaction of a dropped request that lands, or is given up.
LEMMA OrphanLandsKeepsLedger ==
    ASSUME Inv, Inv', LedgerInv, OrphanLands
    PROVE  LedgerKept
<1>1. PICK o \in orphans : /\ Write(o) \/ UNCHANGED store
                           /\ orphans' = orphans \ {o}
                           /\ UNCHANGED <<now, up, doubt, memory, history>>
  BY Zenon DEF OrphanLands
<1>2. UNCHANGED <<now, up, doubt, tasks, acks, outcomes>>
  BY <1>1, Zenon DEF memory, history
<1>3. CASE Write(o)
  <2>1. /\ IsBatch(o) /\ Fitting(o) /\ DOMAIN o.put \subseteq DOMAIN ledger
        /\ up /\ ~doubt => InStep(o)
    BY Zenon DEF Inv, TypeOK, LedgerInv, OrphansFit
  <2>2. Claimed(o)
    BY Zenon DEF Claimed, Claim
  <2>3. RowsWell' /\ ClaimsApart' /\ OrphansFit' /\ Told' /\ LedgerMoves
    BY <1>1, <1>2, <1>3, <2>1, <2>2, WriteKeepsRows
  <2>4. LedgerAhead'
    BY <1>1, <1>2, <1>3, <2>1, WriteKeepsAhead
  <2>5. QED
    BY <2>3, <2>4, Zenon DEF LedgerInv, LedgerKept
<1>4. CASE UNCHANGED store
  <2>1. UNCHANGED ledger
    BY <1>4, Zenon DEF store
  <2>2. RowsWell' /\ Told'
    BY <1>2, <2>1 DEF LedgerInv, RowsWell, Told, ToldAt, ToldRow
  <2>3. ClaimsApart'
    BY <1>1, <1>2, <2>1 DEF LedgerInv, ClaimsApart, Claim
  <2>4. OrphansFit'
    BY <1>1, <1>2, <2>1 DEF LedgerInv, OrphansFit, Fitting, InStep, Past
  <2>5. LedgerAhead'
    BY <1>2, <2>1, Zenon DEF LedgerInv, LedgerAhead, Past
  <2>6. QED
    BY <2>1, <2>2, <2>3, <2>4, <2>5, StillMoves DEF LedgerInv, LedgerKept
<1>5. QED
  BY <1>1, <1>3, <1>4, Zenon

\* Steps that touch neither table: the clock, which retires tasks for good
\* unless it can step back, and the rest.
LEMMA StillKeepsLedger ==
    ASSUME Inv, LedgerInv,
           UNCHANGED <<up, ledger, orphans, doubt, tasks, acks, outcomes>>,
           now' \in Nat, ClockBack = 0 => now <= now'
    PROVE  LedgerKept
<1>1. RowsWell' /\ ClaimsApart' /\ Told'
  BY DEF LedgerInv, RowsWell, ClaimsApart, Claim, Told, ToldAt, ToldRow
<1>2. ASSUME NEW t \in DOMAIN tasks, Past(tasks[t])  PROVE  Past(tasks[t])'
  <2>1. /\ tasks[t].term \in Nat \cup {NoTime} /\ now \in Nat
        /\ TerminalRetention \in Nat
    BY DurableRowsAssumption, Zenon
       DEF Inv, TypeOK, Partial, TaskRecord, DurableRowsAssumption
  <2>2. QED
    BY <1>2, <2>1 DEF Past, Open, NoTime
<1>3. ASSUME NEW t \in DOMAIN ledger, ClockBack = 0, Retired(ledger[t], now)
      PROVE  Retired(ledger[t], now')
  <2>1. /\ ledger[t].term \in Nat \cup {NoTime} /\ now \in Nat
        /\ TerminalRetention \in Nat
    BY DurableRowsAssumption, Zenon DEF Inv, TypeOK, Partial, Row, DurableRowsAssumption
  <2>2. QED
    BY <1>3, <2>1 DEF Retired, RetentionDeadline, NoTime
<1>4. OrphansFit'
  <2> SUFFICES ASSUME NEW o \in orphans
               PROVE  /\ Fitting(o)' /\ DOMAIN o.put \subseteq DOMAIN ledger
                      /\ up /\ ~doubt => InStep(o)'
    BY Zenon DEF OrphansFit
  <2>1. /\ Fitting(o) /\ DOMAIN o.put \subseteq DOMAIN ledger
        /\ up /\ ~doubt => InStep(o)
    BY Zenon DEF LedgerInv, OrphansFit
  <2>2. Fitting(o)'
    BY <1>3, <2>1, Zenon DEF Fitting
  <2>3. up /\ ~doubt => InStep(o)'
    BY <1>2, <2>1, Zenon DEF InStep
  <2>4. QED
    BY <2>1, <2>2, <2>3, Zenon
<1>5. LedgerAhead'
  BY <1>2, Zenon DEF LedgerInv, LedgerAhead
<1>6. QED
  BY <1>1, <1>4, <1>5, StillMoves, Zenon DEF LedgerInv, LedgerKept

\* Losing the process loses no row and no promise.
LEMMA CrashKeepsLedger ==
    ASSUME Inv, LedgerInv, Crash
    PROVE  LedgerKept
<1>1. /\ ~up' /\ orphans' = {} /\ DOMAIN tasks' = {}
      /\ UNCHANGED <<now, ledger, acks, outcomes>>
  BY EmptyPartial, Zenon DEF Crash, NoMemory, store, history
<1>2. RowsWell' /\ LedgerAhead' /\ OrphansFit'
  BY <1>1, Zenon DEF LedgerInv, RowsWell, LedgerAhead, OrphansFit
<1>3. ClaimsApart'
  BY <1>1, Zenon DEF LedgerInv, ClaimsApart, Claim
<1>4. Told'
  BY <1>1, Zenon DEF LedgerInv, Told, ToldAt, ToldRow
<1>5. QED
  BY <1>1, <1>2, <1>3, <1>4, StillMoves, Zenon DEF LedgerInv, LedgerKept

-----------------------------------------------------------------------------
(* A request that commits.                                                 *)

\* The batch of a request or of maintenance_batch: from what memory says of
\* each task, one write on, or the end of its retention.
Follows(b) ==
    /\ IsBatch(b) /\ Claimed(b)
    /\ \A t \in DOMAIN b.put :
         /\ WellFormed(b.put[t])
         /\ t \in DOMAIN tasks => Succeeds(DurableTask(tasks[t]), b.put[t])
         /\ t \notin DOMAIN tasks => b.put[t].ver = 1
    /\ \A t \in b.del : t \in DOMAIN tasks /\ Past(tasks[t])

\* Such a batch fits the ledger too, although only memory was consulted.
LEMMA FollowsMade ==
    ASSUME Inv, LedgerInv, up, ~doubt, NEW b, Follows(b)
    PROVE  /\ Made(b)
           /\ DOMAIN b.put \cap DOMAIN tasks \subseteq DOMAIN ledger
<1>1. ASSUME NEW t \in DOMAIN tasks
      PROVE  /\ tasks[t] \in TaskRecord /\ Shaped(tasks[t])
             /\ DurableTask(tasks[t]) \in Row
             /\ DurableTask(tasks[t]).ver = tasks[t].ver
             /\ DurableTask(tasks[t]).term = tasks[t].term
             /\ DurableTask(tasks[t]).st \in Terminal <=> ~Open(tasks[t])
  <2>1. tasks[t] \in TaskRecord /\ Shaped(tasks[t])
    BY Zenon DEF Inv, TypeOK, Partial, LedgerInv, RowsWell
  <2>2. QED
    BY <2>1, DurableColumns, DurableState, Zenon
<1>2. /\ DOMAIN ledger \subseteq DOMAIN tasks
      /\ \A t \in DOMAIN tasks \ DOMAIN ledger : ~Open(tasks[t])
      /\ \A t \in DOMAIN ledger : \/ ledger[t] = DurableTask(tasks[t])
                                 \/ Succeeds(DurableTask(tasks[t]), ledger[t])
  BY Zenon DEF LedgerInv, LedgerAhead, Past
<1>3. \A t \in DOMAIN b.put \cap DOMAIN tasks :
        /\ Open(tasks[t]) /\ t \in DOMAIN ledger
        /\ b.put[t].ver = tasks[t].ver + 1
  BY <1>1, <1>2 DEF Follows, Succeeds
<1>4. DOMAIN b.put \cap b.del = {}
  BY <1>3, Zenon DEF Follows, Past
<1>5. ASSUME NEW t \in DOMAIN b.put \cap DOMAIN ledger
      PROVE  b.put[t].ver <= ledger[t].ver \/ Succeeds(ledger[t], b.put[t])
  <2>1. t \in DOMAIN tasks /\ Succeeds(DurableTask(tasks[t]), b.put[t])
    BY <1>2, <1>5, Zenon DEF Follows
  <2>2. CASE ledger[t] = DurableTask(tasks[t])
    BY <2>1, <2>2, Zenon
  <2>3. CASE Succeeds(DurableTask(tasks[t]), ledger[t])
    <3>1. ledger[t].ver = b.put[t].ver /\ ledger[t].ver \in Nat
      BY <1>5, <2>1, <2>3, Zenon DEF Succeeds, Inv, TypeOK, Partial, Row
    <3>2. QED
      BY <3>1
  <2>4. QED
    BY <1>2, <1>5, <2>2, <2>3, Zenon
<1>6. ASSUME NEW t \in b.del \cap DOMAIN ledger
      PROVE  ledger[t].st \in Terminal /\ (ClockBack = 0 => Retired(ledger[t], now))
  <2>1. t \in DOMAIN tasks /\ Past(tasks[t])
    BY Zenon DEF Follows
  <2>2. ledger[t] = DurableTask(tasks[t]) /\ ledger[t].st \in Terminal
    BY <1>1, <1>2, <2>1, Zenon DEF Past, Succeeds
  <2>3. ledger[t].term = tasks[t].term
    BY <1>1, <2>1, <2>2, Zenon
  <2>4. QED
    BY <2>1, <2>2, <2>3, Zenon DEF Past, Open, Retired, RetentionDeadline
<1>7. Fitting(b)
  BY <1>4, <1>5, <1>6, Zenon DEF Fitting, Follows
<1>8. InStep(b)
  <2>1. \A t \in DOMAIN b.put \cap DOMAIN tasks : b.put[t].ver <= tasks[t].ver + 1
    BY <1>1, <1>3 DEF TaskRecord
  <2>2. QED
    BY <2>1, Zenon DEF InStep, Follows
<1>9. QED
  BY <1>3, <1>7, <1>8, Zenon DEF Made, Follows

\* Committing it and applying it to memory leaves the two tables in agreement.
LEMMA CompletedKeepsTables ==
    ASSUME Inv, Inv', LedgerInv, up, ~doubt, NEW b, Follows(b), Completed(b),
           DOMAIN tasks' = (DOMAIN tasks \cup DOMAIN b.put) \ b.del,
           \A t \in DOMAIN b.put : /\ Shaped(tasks'[t])
                                    /\ DurableTask(tasks'[t]) = b.put[t],
           \A t \in DOMAIN tasks' \ DOMAIN b.put : tasks'[t] = tasks[t]
    PROVE  RowsWell' /\ ClaimsApart' /\ OrphansFit' /\ LedgerAhead' /\ LedgerMoves
<1>1. Write(b) /\ UNCHANGED <<now, up, doubt, orphans>>
  BY Zenon DEF Completed
<1>2. Made(b) /\ IsBatch(b) /\ Fitting(b) /\ Claimed(b)
  BY FollowsMade, Zenon DEF Made
<1>3. /\ DOMAIN ledger' = (DOMAIN ledger \ b.del) \cup DOMAIN b.put
      /\ \A t \in DOMAIN ledger' :
           ledger'[t] = IF t \in DOMAIN b.put THEN b.put[t] ELSE ledger[t]
      /\ \A t \in DOMAIN ledger' :
           WellFormed(ledger'[t]) /\ ValidForStore(ledger'[t])
      /\ Cardinality(DOMAIN ledger') <= MaxRetainedTasks
  BY <1>1, <1>2, WriteMoves, Zenon DEF LedgerInv
<1>4. DOMAIN b.put \cap b.del = {}
  BY <1>2, Zenon DEF Fitting
<1>5. DOMAIN b.put \subseteq DOMAIN tasks' /\ DOMAIN b.put \subseteq DOMAIN ledger'
  BY <1>3, <1>4, Zenon
<1>6. \A t \in DOMAIN tasks' : tasks'[t] \in TaskRecord
  BY Zenon DEF Inv, TypeOK, Partial
<1>7. \A t \in DOMAIN b.put : /\ tasks'[t].dlv = b.put[t].dlv
                             /\ tasks'[t].ver = b.put[t].ver
  BY <1>5, <1>6, DurableColumns
<1>8. /\ DOMAIN ledger \subseteq DOMAIN tasks
      /\ \A t \in DOMAIN tasks \ DOMAIN ledger : Past(tasks[t])
      /\ \A t \in DOMAIN ledger :
           \/ ledger[t] = DurableTask(tasks[t])
           \/ /\ Later(DurableTask(tasks[t]), ledger[t])
              /\ Succeeds(DurableTask(tasks[t]), ledger[t])
  BY Zenon DEF LedgerInv, LedgerAhead
<1>9. RowsWell'
  BY <1>3, Zenon DEF LedgerInv, RowsWell
<1>10. ClaimsApart'
  <2>1. ASSUME NEW t \in TaskIds, NEW d \in Nat, Claim(t, d)'
        PROVE  Claim(t, d) \/ (t \in DOMAIN b.put /\ b.put[t].dlv = d)
    <3>1. t \in DOMAIN tasks' /\ t \notin DOMAIN b.put => t \in DOMAIN tasks
      BY Zenon
    <3>2. QED
      BY <1>1, <1>3, <1>7, <2>1, <3>1, Zenon DEF Claim
  <2>2. QED
    BY <1>2, <2>1, ClaimsAfter, Zenon DEF LedgerInv
<1>11. OrphansFit'
  <2> SUFFICES ASSUME NEW o \in orphans
               PROVE  /\ Fitting(o)' /\ DOMAIN o.put \subseteq DOMAIN ledger'
                      /\ InStep(o)'
    BY <1>1, Zenon DEF OrphansFit
  <2>1. /\ InStep(o) /\ Fitting(o) /\ IsBatch(o)
        /\ DOMAIN o.put \subseteq DOMAIN ledger
    BY Zenon DEF LedgerInv, OrphansFit, Inv, TypeOK
  <2>2. Fitting(o)' /\ DOMAIN o.put \subseteq DOMAIN ledger'
    BY <1>1, <1>2, OrphansStay, Zenon DEF LedgerInv
  <2>3. ASSUME NEW t \in DOMAIN o.put \cap DOMAIN tasks'
        PROVE  o.put[t].ver <= tasks'[t].ver + 1
    <3>1. t \in DOMAIN tasks
      BY <1>8, <2>1, Zenon
    <3>2. /\ o.put[t].ver <= tasks[t].ver + 1 /\ tasks[t].ver \in Nat
          /\ o.put[t].ver \in Nat
      BY <2>1, <2>3, <3>1, Zenon DEF InStep, Inv, TypeOK, Partial, TaskRecord, IsBatch, Row
    <3>3. CASE t \in DOMAIN b.put
      <4>1. b.put[t].ver = tasks[t].ver + 1
        <5>1. DurableTask(tasks[t]).ver = tasks[t].ver
          BY <3>1, DurableColumns, Zenon DEF Inv, TypeOK, Partial
        <5>2. QED
          BY <3>1, <3>3, <5>1, Zenon DEF Follows, Succeeds
      <4>2. QED
        BY <1>7, <3>2, <3>3, <4>1
    <3>4. CASE t \notin DOMAIN b.put
      BY <2>3, <3>2, <3>4, Zenon
    <3>5. QED
      BY <3>3, <3>4, Zenon
  <2>4. ASSUME NEW t \in o.del \cap DOMAIN tasks'
        PROVE  Past(tasks[t])'
    <3>1. t \notin DOMAIN b.put
      <4>1. CASE t \in DOMAIN tasks
        <5>1. ~Open(tasks[t]) /\ tasks[t] \in TaskRecord /\ Shaped(tasks[t])
          BY <2>1, <2>4, <4>1, Zenon
             DEF InStep, Past, Inv, TypeOK, Partial, LedgerInv, RowsWell
        <5>2. DurableTask(tasks[t]).st \in Terminal
          BY <5>1, DurableState, Zenon
        <5>3. QED
          BY <4>1, <5>2, Zenon DEF Follows, Succeeds
      <4>2. CASE t \notin DOMAIN tasks
        <5>1. t \notin DOMAIN ledger
          BY <1>8, <4>2, Zenon
        <5>2. CASE o = b
          BY <1>4, <2>4, <5>2, Zenon
        <5>3. CASE o # b
          BY <1>1, <2>4, <5>1, <5>3, Zenon DEF Write, InOrder
        <5>4. QED
          BY <5>2, <5>3, Zenon
      <4>3. QED
        BY <4>1, <4>2, Zenon
    <3>2. t \in DOMAIN tasks /\ tasks'[t] = tasks[t]
      BY <2>4, <3>1, Zenon
    <3>3. QED
      BY <1>1, <2>1, <2>4, <3>2, Zenon DEF InStep, Past
  <2>5. QED
    BY <2>2, <2>3, <2>4, Zenon DEF InStep, Past
<1>12. LedgerAhead'
  <2>1. ASSUME NEW t \in DOMAIN tasks' \cap DOMAIN ledger'
        PROVE  \/ ledger'[t] = DurableTask(tasks'[t])
               \/ /\ Later(DurableTask(tasks'[t]), ledger'[t])
                  /\ Succeeds(DurableTask(tasks'[t]), ledger'[t])
    BY <1>3, <1>8, Zenon
  <2>2. DOMAIN ledger' \subseteq DOMAIN tasks'
    BY <1>3, <1>4, <1>8, Zenon
  <2>3. ASSUME NEW t \in DOMAIN tasks' \ DOMAIN ledger'
        PROVE  Past(tasks[t])'
    <3>1. t \in DOMAIN tasks \ DOMAIN ledger /\ tasks'[t] = tasks[t]
      BY <1>3, Zenon
    <3>2. QED
      BY <1>1, <1>8, <3>1, Zenon DEF Past
  <2>4. QED
    BY <1>1, <2>1, <2>2, <2>3, Zenon DEF LedgerAhead, Past
<1>13. LedgerMoves
  BY <1>1, <1>2, WriteAdvances, Zenon DEF Made, LedgerInv
<1>14. QED
  BY <1>9, <1>10, <1>11, <1>12, <1>13, Zenon

\* What was told of a task still holds when such a batch has been applied, and
\* is forgotten when the task is.
LEMMA CompletedTells ==
    ASSUME Inv, Inv', LedgerInv, up, ~doubt, NEW b, Follows(b), Completed(b),
           DOMAIN tasks' = (DOMAIN tasks \cup DOMAIN b.put) \ b.del,
           \A t \in DOMAIN b.put : DurableTask(tasks'[t]) = b.put[t],
           \A t \in DOMAIN tasks' \ DOMAIN b.put : tasks'[t] = tasks[t],
           NEW t \in TaskIds,
           acks'[t] = IF t \in b.del THEN {} ELSE acks[t],
           outcomes'[t] = IF t \in b.del THEN {} ELSE outcomes[t]
    PROVE  ToldAt(t)'
<1>1. Write(b) /\ UNCHANGED <<now, up, doubt, orphans>>
  BY Zenon DEF Completed
<1>2. IsBatch(b) /\ Fitting(b)
  BY FollowsMade, Zenon DEF Made
<1>3. /\ DOMAIN ledger' = (DOMAIN ledger \ b.del) \cup DOMAIN b.put
      /\ \A u \in DOMAIN ledger' :
           ledger'[u] = IF u \in DOMAIN b.put THEN b.put[u] ELSE ledger[u]
  BY <1>1, <1>2, WriteMoves, Zenon DEF LedgerInv
<1>4. ToldAt(t) /\ DOMAIN b.put \cap b.del = {}
  BY <1>2, Zenon DEF LedgerInv, Told, Fitting
<1>5. CASE t \in b.del
  BY <1>3, <1>4, <1>5, Zenon DEF ToldAt, ToldRow
<1>6. CASE t \notin b.del /\ t \in DOMAIN b.put
  <2>1. ToldRow(t, b.put[t])
    <3>1. CASE t \in DOMAIN tasks
      <4>1. DurableTask(tasks[t]) \in Row /\ b.put[t] \in Row
        BY <1>2, <1>6, <3>1, DurableColumns, Zenon DEF Inv, TypeOK, Partial, IsBatch
      <4>2. Later(DurableTask(tasks[t]), b.put[t])
        BY <1>6, <3>1, <4>1, SucceedsLater, Zenon DEF Follows
      <4>3. ToldRow(t, DurableTask(tasks[t]))
        BY <1>4, <3>1, Zenon DEF ToldAt
      <4>4. QED
        BY <4>2, <4>3, ToldLater, Zenon
    <3>2. CASE t \notin DOMAIN tasks
      BY <1>4, <3>2, Zenon DEF ToldAt, ToldRow
    <3>3. QED
      BY <3>1, <3>2, Zenon
  <2>2. acks'[t] = acks[t] /\ outcomes'[t] = outcomes[t] /\ t \in DOMAIN tasks'
    BY <1>6, Zenon
  <2>3. QED
    BY <1>3, <1>4, <1>6, <2>1, <2>2 DEF ToldAt, ToldRow
<1>7. CASE t \notin b.del /\ t \notin DOMAIN b.put
  <2>1. /\ acks'[t] = acks[t] /\ outcomes'[t] = outcomes[t]
        /\ t \in DOMAIN tasks' <=> t \in DOMAIN tasks
        /\ t \in DOMAIN tasks' => tasks'[t] = tasks[t]
        /\ t \in DOMAIN ledger' <=> t \in DOMAIN ledger
        /\ t \in DOMAIN ledger' => ledger'[t] = ledger[t]
    BY <1>3, <1>7, Zenon
  <2>2. QED
    BY <1>1, <1>4, <2>1, Zenon DEF ToldAt, ToldRow
<1>8. QED
  BY <1>5, <1>6, <1>7, Zenon

\* The lease of a record that is not acknowledged can be taken back.
LEMMA LeasedRecord ==
    ASSUME Inv, LedgerInv, NEW t \in DOMAIN tasks, ~tasks[t].acked,
           tasks[t].dlv # NoDelivery
    PROVE  LET row == DurableTask(tasks[t])
           IN  /\ Open(tasks[t]) /\ row \in Row /\ WellFormed(row)
               /\ row.st = "Leased" /\ row.dlv = tasks[t].dlv
               /\ RequeuedRow(row) \in Row /\ RequeuedRow(row).dlv = NoDelivery
               /\ WellFormed(RequeuedRow(row)) /\ Succeeds(row, RequeuedRow(row))
               /\ Shaped(ReleaseLease(tasks[t]))
               /\ DurableTask(ReleaseLease(tasks[t])) = RequeuedRow(row)
<1> DEFINE row == DurableTask(tasks[t])
<1>1. /\ tasks[t] \in TaskRecord /\ Shaped(tasks[t]) /\ now \in Nat
  BY Zenon DEF Inv, TypeOK, Partial, LedgerInv, RowsWell
<1>2. Open(tasks[t])
  BY Zenon DEF Inv, LeasesDrawn
<1>3. row \in Row /\ row.dlv = tasks[t].dlv
  BY <1>1, DurableColumns, Zenon
<1>4. WellFormed(row) /\ row.st = "Leased"
  BY <1>1, <1>2, DurableWellFormed, DurableState, Zenon
<1>5. /\ Shaped(ReleaseLease(tasks[t]))
      /\ DurableTask(ReleaseLease(tasks[t])) = RequeuedRow(row)
  BY <1>1, <1>2, ReleaseDurable, Zenon
<1> HIDE DEF row
<1>6. RequeuedRow(row) \in Row /\ RequeuedRow(row).dlv = NoDelivery
  BY <1>3, RequeuedColumns, Zenon
<1>7. WellFormed(RequeuedRow(row)) /\ Succeeds(row, RequeuedRow(row))
  BY <1>3, <1>4, RequeuedSucceeds, Zenon
<1>8. QED
  BY <1>2, <1>3, <1>4, <1>5, <1>6, <1>7, Zenon DEF row

\* The batch that gives up the leases of lost registrations, applied.
LEMMA ReleaseFollows ==
    ASSUME Inv, LedgerInv, NEW mark \in Nat, NEW R
    PROVE  LET b == ReleaseBatch(mark, R)
           IN  /\ Follows(b) /\ b.del = {} /\ DOMAIN b.put = Held(R)
               /\ Held(R) \subseteq DOMAIN tasks
               /\ DOMAIN Released(R) = DOMAIN tasks
               /\ \A t \in Held(R) : /\ Shaped(Released(R)[t])
                                     /\ DurableTask(Released(R)[t]) = b.put[t]
               /\ \A t \in DOMAIN tasks \ Held(R) : Released(R)[t] = tasks[t]
<1> DEFINE b == ReleaseBatch(mark, R)
<1>1. /\ IsBatch(b) /\ b.del = {} /\ DOMAIN b.put = Held(R)
      /\ \A t \in Held(R) : b.put[t] = RequeuedRow(DurableTask(tasks[t]))
  BY ReleaseBatchOk, Zenon DEF ReleaseBatch
<1>2. Held(R) \subseteq DOMAIN tasks
  BY Zenon DEF Held
<1>3. ASSUME NEW t \in Held(R)
      PROVE  /\ WellFormed(b.put[t]) /\ b.put[t].dlv = NoDelivery
             /\ Succeeds(DurableTask(tasks[t]), b.put[t])
             /\ Shaped(ReleaseLease(tasks[t]))
             /\ DurableTask(ReleaseLease(tasks[t])) = b.put[t]
  <2>1. t \in DOMAIN tasks /\ ~tasks[t].acked /\ tasks[t].dlv # NoDelivery
    BY Zenon DEF Held, LeasedBy
  <2>2. QED
    BY <1>1, <2>1, LeasedRecord, Zenon
<1> HIDE DEF b
<1>4. Follows(b)
  BY <1>1, <1>2, <1>3, Zenon DEF Follows, Claimed
<1>5. /\ DOMAIN Released(R) = DOMAIN tasks
      /\ \A t \in Held(R) : Released(R)[t] = ReleaseLease(tasks[t])
      /\ \A t \in DOMAIN tasks \ Held(R) : Released(R)[t] = tasks[t]
  BY <1>2, Zenon DEF Released
<1>6. QED
  BY <1>1, <1>2, <1>3, <1>4, <1>5, Zenon DEF b

\* register and remove_registration, and what they do to the rows they requeue.
LEMMA ReleaseKeepsLedger ==
    ASSUME Inv, Inv', LedgerInv, up, ~doubt, NEW mark \in Nat, NEW R,
           \/ Interrupted(ReleaseBatch(mark, R), TRUE)
           \/ /\ Completed(ReleaseBatch(mark, R)) /\ tasks' = Released(R)
              /\ UNCHANGED <<acks, outcomes>>
    PROVE  LedgerKept
<1> DEFINE b == ReleaseBatch(mark, R)
<1>1. /\ Follows(b) /\ b.del = {} /\ DOMAIN b.put = Held(R)
      /\ Held(R) \subseteq DOMAIN tasks
      /\ DOMAIN Released(R) = DOMAIN tasks
      /\ \A t \in Held(R) : /\ Shaped(Released(R)[t])
                            /\ DurableTask(Released(R)[t]) = b.put[t]
      /\ \A t \in DOMAIN tasks \ Held(R) : Released(R)[t] = tasks[t]
  BY ReleaseFollows, Zenon
<1> HIDE DEF b
<1>2. CASE Interrupted(b, TRUE)
  <2>1. Made(b) /\ DOMAIN b.put \subseteq DOMAIN ledger
    BY <1>1, FollowsMade, Zenon
  <2>2. QED
    BY <1>2, <2>1, InterruptedKeepsLedger, Zenon
<1>3. CASE Completed(b) /\ tasks' = Released(R) /\ UNCHANGED <<acks, outcomes>>
  <2>1. /\ DOMAIN tasks' = (DOMAIN tasks \cup DOMAIN b.put) \ b.del
        /\ \A t \in DOMAIN b.put : /\ Shaped(tasks'[t])
                                   /\ DurableTask(tasks'[t]) = b.put[t]
        /\ \A t \in DOMAIN tasks' \ DOMAIN b.put : tasks'[t] = tasks[t]
        /\ \A t \in TaskIds : /\ acks'[t] = IF t \in b.del THEN {} ELSE acks[t]
                              /\ outcomes'[t] = IF t \in b.del THEN {}
                                                              ELSE outcomes[t]
    BY <1>1, <1>3, Zenon
  <2>2. RowsWell' /\ ClaimsApart' /\ OrphansFit' /\ LedgerAhead' /\ LedgerMoves
    BY <1>1, <1>3, <2>1, CompletedKeepsTables, Zenon
  <2>3. Told'
    BY <1>1, <1>3, <2>1, CompletedTells, Zenon DEF Told
  <2>4. QED
    BY <2>2, <2>3, Zenon DEF LedgerInv, LedgerKept
<1>4. QED
  BY <1>2, <1>3, Zenon DEF b

LEMMA RegisterKeepsLedger ==
    ASSUME Inv, Inv', LedgerInv, NEW a, Register(a)
    PROVE  LedgerKept
<1> DEFINE old == IF a \in DOMAIN byAgent THEN {byAgent[a]} ELSE {}
<1>1. /\ up /\ ~doubt /\ epoch + 1 \in Nat
  BY DEF Register, Settled, Inv, TypeOK
<1>2. \/ Interrupted(ReleaseBatch(epoch + 1, old), TRUE)
      \/ /\ Completed(ReleaseBatch(epoch + 1, old)) /\ tasks' = Released(old)
         /\ UNCHANGED <<acks, outcomes>>
  BY Zenon DEF Register
<1> HIDE DEF old
<1>3. QED
  BY <1>1, <1>2, ReleaseKeepsLedger, Zenon

LEMMA RemoveRegistrationKeepsLedger ==
    ASSUME Inv, Inv', LedgerInv, NEW r, RemoveRegistration(r)
    PROVE  LedgerKept
<1>1. /\ up /\ ~doubt /\ 0 \in Nat
  BY Zenon DEF RemoveRegistration, Settled
<1>2. \/ Interrupted(ReleaseBatch(0, {r}), TRUE)
      \/ /\ Completed(ReleaseBatch(0, {r})) /\ tasks' = Released({r})
         /\ UNCHANGED <<acks, outcomes>>
  BY Zenon DEF RemoveRegistration, history
<1>3. QED
  BY <1>1, <1>2, ReleaseKeepsLedger, Zenon

\* The batch of a request that writes one row.
LEMMA OneRowFollows ==
    ASSUME Inv, LedgerInv, NEW t \in TaskIds, NEW row \in Row, WellFormed(row),
           t \in DOMAIN tasks => Succeeds(DurableTask(tasks[t]), row),
           t \notin DOMAIN tasks => row.ver = 1,
           row.dlv = NoDelivery \/ Claim(t, row.dlv) \/ row.dlv > issued
    PROVE  LET b == OneRow(t, row)
           IN  Follows(b) /\ DOMAIN b.put = {t} /\ b.put[t] = row /\ b.del = {}
<1> DEFINE b == OneRow(t, row)
<1>1. IsBatch(b)
  BY OneRowBatch DEF Row
<1>2. DOMAIN b.put = {t} /\ b.put[t] = row /\ b.del = {}
  BY Zenon DEF OneRow
<1> HIDE DEF b
<1>3. Claimed(b)
  BY <1>2, Zenon DEF Claimed
<1>4. Follows(b)
  BY <1>1, <1>2, <1>3, Zenon DEF Follows
<1>5. QED
  BY <1>2, <1>4, Zenon DEF b

\* Such a request interrupted, and such a request that returns Ok; what callers
\* have been told of its own task afterwards is shown at each of them.
LEMMA OneRowInterrupted ==
    ASSUME Inv, Inv', LedgerInv, up, ~doubt, NEW t \in DOMAIN tasks,
           NEW row \in Row, WellFormed(row), Succeeds(DurableTask(tasks[t]), row),
           row.dlv = NoDelivery \/ Claim(t, row.dlv) \/ row.dlv > issued,
           Interrupted(OneRow(t, row), TRUE)
    PROVE  LedgerKept
<1> DEFINE b == OneRow(t, row)
<1>1. t \in TaskIds
  BY Zenon DEF Inv, TypeOK, Partial
<1>2. Follows(b) /\ DOMAIN b.put = {t} /\ b.del = {}
  BY <1>1, OneRowFollows, Zenon
<1>3. Interrupted(b, TRUE)
  BY Zenon
<1> HIDE DEF b
<1>4. Made(b) /\ DOMAIN b.put \subseteq DOMAIN ledger
  BY <1>2, FollowsMade, Zenon
<1>5. QED
  BY <1>3, <1>4, InterruptedKeepsLedger, Zenon

LEMMA OneRowCommits ==
    ASSUME Inv, Inv', LedgerInv, up, ~doubt, NEW t \in DOMAIN tasks,
           NEW row \in Row, WellFormed(row), Succeeds(DurableTask(tasks[t]), row),
           row.dlv = NoDelivery \/ Claim(t, row.dlv) \/ row.dlv > issued,
           Completed(OneRow(t, row)),
           NEW new, Shaped(new), DurableTask(new) = row,
           tasks' = [tasks EXCEPT ![t] = new],
           \A u \in TaskIds \ {t} : acks'[u] = acks[u] /\ outcomes'[u] = outcomes[u],
           \A d \in acks'[t] : acks'[t] = {d},
           acks'[t] # {} => \/ row.st \in Terminal
                            \/ row.st = "Acknowledged" /\ row.dlv \in acks'[t],
           \A o \in outcomes'[t] : row.st = o.st /\ row.reply = o.reply
    PROVE  LedgerKept
<1> DEFINE b == OneRow(t, row)
<1>1. t \in TaskIds
  BY Zenon DEF Inv, TypeOK, Partial
<1>2. Follows(b) /\ DOMAIN b.put = {t} /\ b.put[t] = row /\ b.del = {}
  BY <1>1, OneRowFollows, Zenon
<1>3. Completed(b)
  BY Zenon
<1> HIDE DEF b
<1>4. /\ DOMAIN tasks' = (DOMAIN tasks \cup DOMAIN b.put) \ b.del
      /\ tasks'[t] = new
      /\ \A u \in DOMAIN tasks' \ DOMAIN b.put : tasks'[u] = tasks[u]
  BY <1>2, Zenon
<1>5. RowsWell' /\ ClaimsApart' /\ OrphansFit' /\ LedgerAhead' /\ LedgerMoves
  BY <1>2, <1>3, <1>4, CompletedKeepsTables, Zenon
<1>6. ASSUME NEW u \in TaskIds \ {t}  PROVE  ToldAt(u)'
  BY <1>2, <1>3, <1>4, CompletedTells, Zenon
<1>7. ToldAt(t)'
  <2>1. IsBatch(b) /\ Fitting(b)
    BY <1>2, FollowsMade, Zenon DEF Made
  <2>2. /\ DOMAIN ledger' = (DOMAIN ledger \ b.del) \cup DOMAIN b.put
        /\ \A u \in DOMAIN ledger' :
             ledger'[u] = IF u \in DOMAIN b.put THEN b.put[u] ELSE ledger[u]
    BY <1>3, <2>1, WriteMoves, Zenon DEF Completed, LedgerInv
  <2>3. t \in DOMAIN tasks' /\ DurableTask(tasks'[t]) = row
    BY <1>2, <1>4, Zenon
  <2>4. t \in DOMAIN ledger' /\ ledger'[t] = row
    BY <1>2, <2>2, Zenon
  <2>5. QED
    BY <2>3, <2>4, Zenon DEF ToldAt, ToldRow
<1>8. QED
  BY <1>1, <1>5, <1>6, <1>7, Zenon DEF LedgerInv, Told, LedgerKept

\* Nobody has been told the end of an open task, nor of an acknowledgement of
\* one that is not acknowledged.
LEMMA NotYetTold ==
    ASSUME Inv, LedgerInv, NEW t \in DOMAIN tasks, Open(tasks[t])
    PROVE  /\ outcomes[t] = {}
           /\ ~tasks[t].acked => acks[t] = {}
           /\ tasks[t].acked => acks[t] \subseteq {tasks[t].dlv}
<1> DEFINE row == DurableTask(tasks[t])
<1>1. /\ t \in TaskIds /\ tasks[t] \in TaskRecord /\ Shaped(tasks[t])
      /\ \A o \in outcomes[t] : o.st \in Terminal
  BY DEF Inv, TypeOK, Partial, LedgerInv, RowsWell, Outcome
<1>2. row.dlv = tasks[t].dlv
  BY <1>1, DurableColumns, Zenon
<1>3. /\ row.st \notin Terminal
      /\ ~tasks[t].acked => row.st # "Acknowledged"
  BY <1>1, DurableState, Zenon
<1>4. ToldRow(t, row) /\ \A d \in acks[t] : acks[t] = {d}
  BY <1>1, Zenon DEF LedgerInv, Told, ToldAt
<1> HIDE DEF row
<1>5. QED
  BY <1>1, <1>2, <1>3, <1>4, Zenon DEF ToldRow

\* enqueue, whose batch no client can abandon.
LEMMA EnqueueKeepsLedger ==
    ASSUME Inv, Inv', LedgerInv, NEW r, NEW t \in TaskIds, NEW m \in Messages,
           Enqueue(r, t, m)
    PROVE  LedgerKept
<1> DEFINE row == QueuedRow(m, now)
           b == OneRow(t, row)
           new == NewTask(m, now, sequence + 1)
<1>1. /\ up /\ ~doubt /\ t \notin DOMAIN tasks /\ now \in Nat /\ sequence + 1 \in Nat
  BY DEF Enqueue, Settled, Inv, TypeOK
<1>2. \/ /\ Completed(b) /\ tasks' = Insert(tasks, t, new)
         /\ UNCHANGED <<acks, outcomes>>
      \/ Interrupted(b, FALSE)
  BY Zenon DEF Enqueue, history
<1>3. /\ row \in Row /\ row.dlv = NoDelivery /\ row.ver = 1 /\ WellFormed(row)
      /\ Shaped(new) /\ DurableTask(new) = row
  BY <1>1, NewTaskRecord, NewDurable, Zenon DEF QueuedRow
<1> HIDE DEF row, new
<1>4. Follows(b) /\ DOMAIN b.put = {t} /\ b.put[t] = row /\ b.del = {}
  BY <1>1, <1>3, OneRowFollows, Zenon
<1> HIDE DEF b
<1>5. CASE Interrupted(b, FALSE)
  <2>1. Made(b)
    BY <1>1, <1>4, FollowsMade, Zenon
  <2>2. QED
    BY <1>1, <1>5, <2>1, InterruptedKeepsLedger, Zenon
<1>6. CASE Completed(b) /\ tasks' = Insert(tasks, t, new) /\ UNCHANGED <<acks, outcomes>>
  <2>1. /\ DOMAIN tasks' = (DOMAIN tasks \cup DOMAIN b.put) \ b.del
        /\ tasks'[t] = new
        /\ \A u \in DOMAIN tasks' \ DOMAIN b.put : tasks'[u] = tasks[u]
    BY <1>4, <1>6, Zenon DEF Insert
  <2>2. \A u \in DOMAIN b.put : Shaped(tasks'[u]) /\ DurableTask(tasks'[u]) = b.put[u]
    BY <1>3, <1>4, <2>1, Zenon
  <2>3. RowsWell' /\ ClaimsApart' /\ OrphansFit' /\ LedgerAhead' /\ LedgerMoves
    BY <1>1, <1>4, <1>6, <2>1, <2>2, CompletedKeepsTables, Zenon
  <2>4. \A u \in TaskIds : ToldAt(u)'
    BY <1>1, <1>4, <1>6, <2>1, <2>2, CompletedTells, Zenon
  <2>5. QED
    BY <2>3, <2>4, Zenon DEF LedgerInv, Told, LedgerKept
<1>7. QED
  BY <1>2, <1>5, <1>6, Zenon

\* poll_delivery.
LEMMA PollDeliveryKeepsLedger ==
    ASSUME Inv, Inv', LedgerInv, NEW r \in DOMAIN regs, PollDelivery(r)
    PROVE  LedgerKept
<1>1. PICK i \in DOMAIN inbox[r] :
        LET t == inbox[r][i]
            n == tasks[t].last + 1
            b == OneRow(t, LeasedRow(DurableTask(tasks[t]), issued + 1, now, n))
        IN  /\ Settled /\ Leasable(t)
            /\ \/ /\ Completed(b)
                  /\ tasks' = [tasks EXCEPT ![t] = LeaseTask(@, issued + 1, r, n)]
                  /\ UNCHANGED <<acks, outcomes>>
               \/ Interrupted(b, TRUE)
  BY Zenon DEF PollDelivery
<1> DEFINE t == inbox[r][i]
           task == tasks[t]
           d == issued + 1
           n == task.last + 1
           old == DurableTask(task)
           row == LeasedRow(old, d, now, n)
           new == LeaseTask(task, d, r, n)
<1>2. /\ up /\ ~doubt /\ t \in DOMAIN tasks /\ Open(task) /\ ~task.acked
  BY <1>1, Zenon DEF Settled, Leasable, Deliverable
<1>3. /\ task \in TaskRecord /\ Shaped(task) /\ now \in Nat /\ issued \in Nat
      /\ d \in Nat \ {0} /\ r \in Nat /\ task.dlv <= issued
  BY <1>2 DEF Inv, TypeOK, Partial, LedgerInv, RowsWell, LeasesDrawn, DrawnBy
<1>4. \/ /\ Completed(OneRow(t, row)) /\ UNCHANGED <<acks, outcomes>>
         /\ tasks' = [tasks EXCEPT ![t] = new]
      \/ Interrupted(OneRow(t, row), TRUE)
  BY <1>1, Zenon
<1>5. t \in DOMAIN tasks /\ acks[t] = {} /\ outcomes[t] = {}
  BY <1>2, NotYetTold, Zenon
<1> HIDE DEF t
<1>6. n \in Nat /\ Shaped(new) /\ DurableTask(new) = row
  BY <1>2, <1>3, LeaseDurable, Zenon
<1>7. /\ old \in Row /\ old.ver = task.ver /\ old.dlv = task.dlv
      /\ old.attempt = AttemptOf(task)
      /\ WellFormed(old) /\ old.st \in {"Queued", "Leased"}
  BY <1>2, <1>3, DurableColumns, DurableState, DurableWellFormed, Zenon
<1>8. n = IF old.ver = 1 THEN 0 ELSE old.attempt + 1
  BY <1>2, <1>3, <1>7 DEF Shaped, AttemptOf, NoAttempt
<1> HIDE DEF old, new, d, n
<1>9. /\ row \in Row /\ row.dlv = d
  <2>1. row \in Row
    <3>1. old \in Row /\ now \in Nat /\ d \in Nat /\ n \in Nat
      BY <1>3, <1>6, <1>7, Zenon
    <3>2. QED
      BY <3>1, RowTransitions, Zenon
  <2>2. QED
    BY <1>7, <2>1, Zenon DEF LeasedRow, Row
<1>10. WellFormed(row) /\ Succeeds(old, row)
  <2>1. d # old.dlv
    BY <1>3, <1>7 DEF d, TaskRecord
  <2>2. QED
    BY <1>3, <1>6, <1>7, <1>8, <2>1, LeasedSucceeds, Zenon
<1> HIDE DEF row
<1>11. row.dlv > issued
  BY <1>3, <1>9 DEF d
<1>12. /\ Succeeds(DurableTask(tasks[t]), row)
       /\ row.dlv = NoDelivery \/ Claim(t, row.dlv) \/ row.dlv > issued
  BY <1>10, <1>11, Zenon DEF old, task
<1>13. CASE Interrupted(OneRow(t, row), TRUE)
  BY <1>2, <1>9, <1>10, <1>12, <1>13, OneRowInterrupted, Zenon
<1>14. CASE /\ Completed(OneRow(t, row)) /\ UNCHANGED <<acks, outcomes>>
            /\ tasks' = [tasks EXCEPT ![t] = new]
  <2>1. /\ \A u \in TaskIds \ {t} : acks'[u] = acks[u] /\ outcomes'[u] = outcomes[u]
        /\ \A x \in acks'[t] : acks'[t] = {x}
        /\ ~(acks'[t] # {})
        /\ \A o \in outcomes'[t] : row.st = o.st /\ row.reply = o.reply
    BY <1>5, <1>14, Zenon
  <2>2. QED
    BY <1>2, <1>6, <1>9, <1>10, <1>12, <1>14, <2>1, OneRowCommits, Zenon
<1>15. QED
  BY <1>4, <1>13, <1>14, Zenon

\* ack_delivery: the one delivery of the task anybody will be told of.
LEMMA AckDeliveryKeepsLedger ==
    ASSUME Inv, Inv', LedgerInv, NEW r, NEW d, AckDelivery(r, d)
    PROVE  LedgerKept
<1> DEFINE t == byDelivery[d]
           task == tasks[t]
           old == DurableTask(task)
           row == AcknowledgedRow(old, now)
           new == AcknowledgeTask(task)
<1>1. /\ up /\ ~doubt /\ d \in DOMAIN byDelivery /\ task.dlv = d
      /\ Open(task) /\ ~task.acked
  BY Zenon DEF AckDelivery, Settled, Deliverable
<1>2. \/ /\ Completed(OneRow(t, row)) /\ tasks' = [tasks EXCEPT ![t] = new]
         /\ acks' = [acks EXCEPT ![t] = @ \cup {d}] /\ outcomes' = outcomes
      \/ Interrupted(OneRow(t, row), TRUE)
  BY Zenon DEF AckDelivery
<1>3. t \in DOMAIN tasks /\ d \in Nat /\ d # NoDelivery
  BY <1>1, Zenon DEF Inv, TypeOK, Partial, DeliveryIndexExact, NoDelivery
<1>4. acks[t] = {} /\ outcomes[t] = {}
  BY <1>1, <1>3, NotYetTold, Zenon
<1> HIDE DEF t
<1>5. /\ t \in TaskIds /\ task \in TaskRecord /\ Shaped(task) /\ now \in Nat
      /\ acks \in [TaskIds -> SUBSET Nat]
  BY <1>3, Zenon DEF Inv, TypeOK, Partial, LedgerInv, RowsWell
<1>6. Shaped(new) /\ DurableTask(new) = row
  BY <1>1, <1>3, <1>5, AcknowledgeDurable, Zenon
<1>7. /\ old \in Row /\ old.dlv = d /\ WellFormed(old) /\ old.st = "Leased"
  BY <1>1, <1>3, <1>5, DurableColumns, DurableState, DurableWellFormed, Zenon
<1> HIDE DEF old, new
<1>8. /\ row \in Row /\ row.dlv = d /\ row.st = "Acknowledged"
  BY <1>5, <1>7, AcknowledgedColumns, Zenon
<1>9. WellFormed(row) /\ Succeeds(old, row)
  BY <1>5, <1>7, AcknowledgedSucceeds, Zenon
<1> HIDE DEF row
<1>10. /\ Succeeds(DurableTask(tasks[t]), row)
       /\ row.dlv = NoDelivery \/ Claim(t, row.dlv) \/ row.dlv > issued
  BY <1>1, <1>3, <1>8, <1>9, Zenon DEF old, task, Claim
<1>11. CASE Interrupted(OneRow(t, row), TRUE)
  BY <1>1, <1>3, <1>8, <1>9, <1>10, <1>11, OneRowInterrupted, Zenon
<1>12. CASE /\ Completed(OneRow(t, row)) /\ tasks' = [tasks EXCEPT ![t] = new]
            /\ acks' = [acks EXCEPT ![t] = @ \cup {d}] /\ outcomes' = outcomes
  <2>1. acks'[t] = {d} /\ outcomes'[t] = {}
    BY <1>4, <1>5, <1>12, Zenon
  <2>2. /\ \A u \in TaskIds \ {t} : acks'[u] = acks[u] /\ outcomes'[u] = outcomes[u]
        /\ \A x \in acks'[t] : acks'[t] = {x}
        /\ row.st = "Acknowledged" /\ row.dlv \in acks'[t]
        /\ \A o \in outcomes'[t] : row.st = o.st /\ row.reply = o.reply
    BY <1>5, <1>8, <1>12, <2>1, Zenon
  <2>3. QED
    BY <1>1, <1>3, <1>6, <1>8, <1>9, <1>10, <1>12, <2>2, OneRowCommits, Zenon
<1>13. QED
  BY <1>2, <1>11, <1>12, Zenon

\* A request that changes neither table and tells a caller what memory says: the
\* acknowledgement of an open task, or the end of one.
LEMMA TellingKeepsLedger ==
    ASSUME Inv, Inv', LedgerInv, up, ~doubt,
           UNCHANGED <<now, up, ledger, orphans, doubt, tasks>>,
           NEW t \in DOMAIN tasks,
           \A u \in TaskIds \ {t} : acks'[u] = acks[u] /\ outcomes'[u] = outcomes[u],
           \A d \in acks'[t] : acks'[t] = {d},
           ToldRow(t, DurableTask(tasks[t]))'
    PROVE  LedgerKept
<1>1. RowsWell' /\ ClaimsApart' /\ OrphansFit' /\ LedgerAhead'
  <2>1. RowsWell' /\ ClaimsApart'
    BY DEF LedgerInv, RowsWell, ClaimsApart, Claim
  <2>2. OrphansFit'
    BY Zenon DEF LedgerInv, OrphansFit, Fitting, InStep, Past
  <2>3. LedgerAhead'
    BY Zenon DEF LedgerInv, LedgerAhead, Past
  <2>4. QED
    BY <2>1, <2>2, <2>3, Zenon
<1>2. t \in TaskIds
  BY Zenon DEF Inv, TypeOK, Partial
<1>3. ASSUME NEW u \in TaskIds \ {t}  PROVE  ToldAt(u)'
  <2>1. ToldAt(u)
    BY Zenon DEF LedgerInv, Told
  <2>2. QED
    BY <2>1, Zenon DEF ToldAt, ToldRow
<1>4. ToldAt(t)'
  <2>1. ASSUME t \in DOMAIN ledger  PROVE  ToldRow(t, ledger[t])'
    <3>1. \/ ledger[t] = DurableTask(tasks[t])
          \/ Later(DurableTask(tasks[t]), ledger[t])
      BY <2>1, Zenon DEF LedgerInv, LedgerAhead
    <3>2. \A o \in outcomes'[t] : o.st \in Terminal
      BY <1>2 DEF Inv, TypeOK, Outcome
    <3>3. QED
      BY <3>1, <3>2, Zenon DEF Later, ToldRow
  <2>2. QED
    BY <2>1, Zenon DEF ToldAt
<1>5. QED
  BY <1>1, <1>2, <1>3, <1>4, StillMoves, Zenon DEF LedgerInv, Told, LedgerKept

LEMMA AckAgainKeepsLedger ==
    ASSUME Inv, Inv', LedgerInv, NEW r, NEW d, AckAgain(r, d)
    PROVE  LedgerKept
<1>1. d \in DOMAIN byDelivery
  BY Zenon DEF AckAgain
<1>2. PICK t \in DOMAIN tasks : t = byDelivery[d]
  BY <1>1, Zenon DEF Inv, DeliveryIndexExact
<1>3. /\ up /\ ~doubt /\ tasks[t].dlv = d
      /\ Open(tasks[t]) /\ tasks[t].acked
      /\ acks' = [acks EXCEPT ![t] = @ \cup {d}] /\ outcomes' = outcomes
      /\ UNCHANGED <<now, up, ledger, orphans, doubt, tasks>>
  BY <1>2, Zenon DEF AckAgain, Settled, store, memory
<1>4. acks[t] \subseteq {d} /\ outcomes[t] = {}
  BY <1>3, NotYetTold, Zenon
<1>5. /\ t \in TaskIds /\ tasks[t] \in TaskRecord /\ Shaped(tasks[t])
      /\ acks \in [TaskIds -> SUBSET Nat]
  BY Zenon DEF Inv, TypeOK, Partial, LedgerInv, RowsWell
<1>6. acks'[t] = {d} /\ outcomes'[t] = {}
  BY <1>3, <1>4, <1>5, Zenon
<1>7. DurableTask(tasks[t]).st = "Acknowledged" /\ DurableTask(tasks[t]).dlv = d
  BY <1>3, <1>5, DurableState, DurableColumns, Zenon
<1>8. ToldRow(t, DurableTask(tasks[t]))'
  BY <1>3, <1>6, <1>7, Zenon DEF ToldRow
<1>9. \A u \in TaskIds \ {t} : acks'[u] = acks[u] /\ outcomes'[u] = outcomes[u]
  BY <1>3, <1>5, Zenon
<1>10. QED
  BY <1>3, <1>6, <1>8, <1>9, TellingKeepsLedger, Zenon

\* reply, fail_task, reject_task and cancel_task: the first of them, and the
\* same request repeated.
LEMMA EndKeepsLedger ==
    ASSUME Inv, Inv', LedgerInv, NEW r, NEW t, NEW st, NEW p, Concludes(st, p),
           End(r, t, st, p)
    PROVE  LedgerKept
<1> DEFINE task == tasks[t]
           old == DurableTask(task)
           row == TerminalRow(old, now, st, p)
           new == TerminalizeTask(task, st, p)
<1>1. /\ up /\ ~doubt /\ t \in DOMAIN tasks
      /\ Terminalize(t, st, p) \/ Repeated(t, st, p)
  BY Zenon DEF End, Settled
<1>2. /\ t \in TaskIds /\ task \in TaskRecord /\ Shaped(task) /\ now \in Nat
      /\ outcomes \in [TaskIds -> SUBSET Outcome]
  BY <1>1, Zenon DEF Inv, TypeOK, Partial, LedgerInv, RowsWell
<1>3. st \in Terminal /\ p \in Replies \cup {NoReply}
  BY Zenon DEF Concludes
<1>4. /\ old \in Row /\ old.reply = task.reply /\ WellFormed(old)
      /\ old.st \in Terminal <=> ~Open(task)
  BY <1>2, DurableColumns, DurableState, DurableWellFormed, Zenon
<1>5. CASE Repeated(t, st, p)
  <2>1. /\ old.st = st /\ task.reply = p
        /\ outcomes' = [outcomes EXCEPT ![t] = @ \cup {[st |-> st, reply |-> p]}]
        /\ acks' = acks
        /\ UNCHANGED <<now, up, ledger, orphans, doubt, tasks>>
    BY <1>5, Zenon DEF Repeated, Report, store, memory
  <2>2. outcomes'[t] = outcomes[t] \cup {[st |-> st, reply |-> p]}
    BY <1>2, <2>1, Zenon
  <2>3. ToldRow(t, old) /\ \A d \in acks[t] : acks[t] = {d}
    BY <1>1, <1>2, Zenon DEF LedgerInv, Told, ToldAt
  <2>4. ToldRow(t, DurableTask(tasks[t]))'
    BY <1>4, <2>1, <2>2, <2>3 DEF ToldRow
  <2>5. \A u \in TaskIds \ {t} : acks'[u] = acks[u] /\ outcomes'[u] = outcomes[u]
    BY <1>2, <2>1, Zenon
  <2>6. \A d \in acks'[t] : acks'[t] = {d}
    BY <2>1, <2>3, Zenon
  <2>7. QED
    BY <1>1, <2>1, <2>4, <2>5, <2>6, TellingKeepsLedger, Zenon
<1>6. CASE Terminalize(t, st, p)
  <2>1. Open(task)
    BY <1>6, Zenon DEF Terminalize
  <2>2. \/ /\ Completed(OneRow(t, row)) /\ tasks' = [tasks EXCEPT ![t] = new]
           /\ outcomes' = [outcomes EXCEPT ![t] = @ \cup {[st |-> st, reply |-> p]}]
           /\ acks' = acks
        \/ Interrupted(OneRow(t, row), TRUE)
    BY <1>6, Zenon DEF Terminalize, Report
  <2>3. Shaped(new) /\ DurableTask(new) = row
    BY <1>2, <2>1, TerminalizeDurable, Zenon
  <2>4. outcomes[t] = {} /\ \A d \in acks[t] : acks[t] = {d}
    BY <1>1, <1>2, <2>1, NotYetTold, Zenon DEF LedgerInv, Told, ToldAt
  <2>5. old.st \in Active
    BY <1>4, <2>1, Zenon DEF Row
  <2> HIDE DEF old, new
  <2>6. /\ row \in Row /\ row.dlv = NoDelivery /\ row.st = st /\ row.reply = p
    BY <1>2, <1>3, <1>4, TerminalColumns
  <2>7. WellFormed(row) /\ Succeeds(old, row)
    BY <1>2, <1>4, <2>5, TerminalSucceeds, Zenon
  <2> HIDE DEF row
  <2>8. /\ Succeeds(DurableTask(tasks[t]), row)
        /\ row.dlv = NoDelivery \/ Claim(t, row.dlv) \/ row.dlv > issued
    BY <2>6, <2>7, Zenon DEF old, task
  <2>9. CASE Interrupted(OneRow(t, row), TRUE)
    BY <1>1, <2>6, <2>7, <2>8, <2>9, OneRowInterrupted, Zenon
  <2>10. CASE /\ Completed(OneRow(t, row)) /\ tasks' = [tasks EXCEPT ![t] = new]
              /\ outcomes' = [outcomes EXCEPT ![t] = @ \cup {[st |-> st, reply |-> p]}]
              /\ acks' = acks
    <3>1. outcomes'[t] = {[st |-> st, reply |-> p]}
      BY <1>2, <2>4, <2>10, Zenon
    <3>2. /\ \A u \in TaskIds \ {t} : acks'[u] = acks[u] /\ outcomes'[u] = outcomes[u]
          /\ \A x \in acks'[t] : acks'[t] = {x}
          /\ row.st \in Terminal
          /\ \A o \in outcomes'[t] : row.st = o.st /\ row.reply = o.reply
      BY <1>2, <1>3, <2>4, <2>6, <2>10, <3>1
    <3>3. QED
      BY <1>1, <2>3, <2>6, <2>7, <2>8, <2>10, <3>2, OneRowCommits, Zenon
  <2>11. QED
    BY <2>2, <2>9, <2>10, Zenon
<1>7. QED
  BY <1>1, <1>5, <1>6, Zenon

\* maintain_state: the tasks it expires, requeues and prunes are written by one
\* transaction, which follows from the table.
LEMMA MaintainFollows ==
    ASSUME Inv, LedgerInv
    PROVE  LET b == MaintainBatch
           IN  /\ Follows(b) /\ b.del = Overdue /\ DOMAIN b.put = Due \cup Stranded
               /\ DOMAIN b.put \subseteq DOMAIN tasks
               /\ \A t \in Due :
                    /\ Shaped(TerminalizeTask(tasks[t], "Expired", NoReply))
                    /\ DurableTask(TerminalizeTask(tasks[t], "Expired", NoReply))
                         = b.put[t]
               /\ \A t \in Stranded : /\ t \notin Due
                                      /\ Shaped(ReleaseLease(tasks[t]))
                                      /\ DurableTask(ReleaseLease(tasks[t])) = b.put[t]
<1> DEFINE b == MaintainBatch
<1>1. IsBatch(b)
  BY MaintainBatchOk, Zenon
<1>2. /\ b.del = Overdue /\ DOMAIN b.put = Due \cup Stranded
      /\ \A t \in Due :
           b.put[t] = TerminalRow(DurableTask(tasks[t]), now, "Expired", NoReply)
      /\ \A t \in Stranded : t \notin Due
      /\ \A t \in Stranded : b.put[t] = RequeuedRow(DurableTask(tasks[t]))
  <2>1. \A t \in Stranded : t \notin Due
    BY Zenon DEF Stranded
  <2>2. QED
    BY <2>1, Zenon DEF MaintainBatch
<1>3. Due \cup Stranded \subseteq DOMAIN tasks
  BY Zenon DEF Due, Stranded
<1>4. ASSUME NEW t \in Due
      PROVE  /\ WellFormed(b.put[t]) /\ b.put[t].dlv = NoDelivery
             /\ Succeeds(DurableTask(tasks[t]), b.put[t])
             /\ Shaped(TerminalizeTask(tasks[t], "Expired", NoReply))
             /\ DurableTask(TerminalizeTask(tasks[t], "Expired", NoReply)) = b.put[t]
  <2> DEFINE old == DurableTask(tasks[t])
             row == TerminalRow(old, now, "Expired", NoReply)
  <2>1. /\ t \in DOMAIN tasks /\ tasks[t] \in TaskRecord /\ Shaped(tasks[t])
        /\ now \in Nat /\ Open(tasks[t])
    BY Zenon DEF Due, Inv, TypeOK, Partial, LedgerInv, RowsWell
  <2>2. Concludes("Expired", NoReply)
    BY Zenon DEF Concludes, Terminal
  <2>3. /\ Shaped(TerminalizeTask(tasks[t], "Expired", NoReply))
        /\ DurableTask(TerminalizeTask(tasks[t], "Expired", NoReply)) = row
    BY <2>1, <2>2, TerminalizeDurable, Zenon
  <2>4. old \in Row /\ WellFormed(old) /\ old.st \in Active
    <3>1. old \in Row /\ WellFormed(old) /\ old.st \notin Terminal
      BY <2>1, DurableColumns, DurableState, DurableWellFormed, Zenon
    <3>2. QED
      BY <3>1, Zenon DEF Row
  <2> HIDE DEF old
  <2>5. WellFormed(row) /\ Succeeds(old, row)
    BY <2>1, <2>2, <2>4, TerminalSucceeds, Zenon
  <2>6. row.dlv = NoDelivery
    BY <2>4, Zenon DEF TerminalRow, Row
  <2>7. b.put[t] = row
    BY <1>2, Zenon DEF old
  <2>8. QED
    BY <2>3, <2>5, <2>6, <2>7, Zenon DEF old
<1>5. ASSUME NEW t \in Stranded
      PROVE  /\ WellFormed(b.put[t]) /\ b.put[t].dlv = NoDelivery
             /\ Succeeds(DurableTask(tasks[t]), b.put[t])
             /\ Shaped(ReleaseLease(tasks[t]))
             /\ DurableTask(ReleaseLease(tasks[t])) = b.put[t]
  <2>1. t \in DOMAIN tasks /\ ~tasks[t].acked /\ tasks[t].dlv # NoDelivery
    BY Zenon DEF Stranded, LeasedBy
  <2>2. QED
    BY <1>2, <2>1, LeasedRecord, Zenon
<1>6. ASSUME NEW t \in b.del  PROVE  t \in DOMAIN tasks /\ Past(tasks[t])
  BY <1>2, Zenon DEF Overdue, Past
<1> HIDE DEF b
<1>7. Claimed(b)
  BY <1>2, <1>4, <1>5, Zenon DEF Claimed
<1>8. Follows(b)
  BY <1>1, <1>2, <1>3, <1>4, <1>5, <1>6, <1>7, ZenonT(20) DEF Follows
<1>9. QED
  BY <1>2, <1>3, <1>4, <1>5, <1>8, Zenon DEF b

LEMMA MaintainKeepsLedger ==
    ASSUME Inv, Inv', IndexesExact, LedgerInv, Maintain
    PROVE  LedgerKept
<1> DEFINE b == MaintainBatch
<1>1. up /\ ~doubt
  BY Zenon DEF Maintain
<1>2. /\ Follows(b) /\ b.del = Overdue /\ DOMAIN b.put = Due \cup Stranded
      /\ DOMAIN b.put \subseteq DOMAIN tasks
      /\ \A t \in Due :
           /\ Shaped(TerminalizeTask(tasks[t], "Expired", NoReply))
           /\ DurableTask(TerminalizeTask(tasks[t], "Expired", NoReply)) = b.put[t]
      /\ \A t \in Stranded : /\ t \notin Due
                             /\ Shaped(ReleaseLease(tasks[t]))
                             /\ DurableTask(ReleaseLease(tasks[t])) = b.put[t]
  BY MaintainFollows, Zenon
<1>3. Pruned = Overdue
  <2>1. ASSUME NEW t \in Overdue  PROVE  t \in Pruned
    <3> DEFINE e == <<tasks[t].term + TerminalRetention, t>>
    <3>1. e \in deadlines /\ e[1] <= now /\ e[2] = t /\ ~Open(tasks[t])
          /\ tasks[t].term + TerminalRetention = e[1] /\ t \in DOMAIN tasks
      BY Zenon DEF Overdue, IndexesExact
    <3> HIDE DEF e
    <3>2. QED
      BY <3>1, Zenon DEF Pruned
  <2>2. ASSUME NEW t \in Pruned  PROVE  t \in Overdue
    BY Zenon DEF Pruned, Overdue
  <2>3. QED
    BY <2>1, <2>2, Zenon
<1>4. Due \cap Overdue = {} /\ Stranded \cap Overdue = {}
  <2>1. \A t \in DOMAIN tasks : ~Open(tasks[t]) => tasks[t].dlv = NoDelivery
    BY Zenon DEF Inv, LeasesDrawn
  <2>2. QED
    BY <2>1, Zenon DEF Due, Stranded, Overdue, LeasedBy
<1>5. \/ Interrupted(b, TRUE)
      \/ /\ Completed(b)
         /\ tasks' = [t \in DOMAIN tasks \ Pruned |->
                        IF t \in Due
                          THEN TerminalizeTask(tasks[t], "Expired", NoReply)
                          ELSE IF t \in Stranded THEN ReleaseLease(tasks[t])
                          ELSE tasks[t]]
         /\ acks' = [t \in TaskIds |-> IF t \in Pruned THEN {} ELSE acks[t]]
         /\ outcomes' = [t \in TaskIds |-> IF t \in Pruned THEN {} ELSE outcomes[t]]
  BY Zenon DEF Maintain
<1> HIDE DEF b
<1>6. CASE Interrupted(b, TRUE)
  <2>1. Made(b) /\ DOMAIN b.put \subseteq DOMAIN ledger
    BY <1>1, <1>2, FollowsMade, Zenon
  <2>2. QED
    BY <1>1, <1>6, <2>1, InterruptedKeepsLedger, Zenon
<1>7. CASE /\ Completed(b)
           /\ tasks' = [t \in DOMAIN tasks \ Pruned |->
                          IF t \in Due
                            THEN TerminalizeTask(tasks[t], "Expired", NoReply)
                            ELSE IF t \in Stranded THEN ReleaseLease(tasks[t])
                            ELSE tasks[t]]
           /\ acks' = [t \in TaskIds |-> IF t \in Pruned THEN {} ELSE acks[t]]
           /\ outcomes' = [t \in TaskIds |-> IF t \in Pruned THEN {} ELSE outcomes[t]]
  <2>1. /\ DOMAIN tasks' = (DOMAIN tasks \cup DOMAIN b.put) \ b.del
        /\ \A t \in DOMAIN tasks' \ DOMAIN b.put : tasks'[t] = tasks[t]
        /\ \A t \in Due : tasks'[t] = TerminalizeTask(tasks[t], "Expired", NoReply)
        /\ \A t \in Stranded : tasks'[t] = ReleaseLease(tasks[t])
    BY <1>2, <1>3, <1>4, <1>7, Zenon
  <2>2. \A t \in DOMAIN b.put : Shaped(tasks'[t]) /\ DurableTask(tasks'[t]) = b.put[t]
    BY <1>2, <2>1, Zenon
  <2>3. /\ Follows(b) /\ Completed(b)
        /\ DOMAIN tasks' = (DOMAIN tasks \cup DOMAIN b.put) \ b.del
        /\ \A t \in DOMAIN tasks' \ DOMAIN b.put : tasks'[t] = tasks[t]
    BY <1>2, <1>7, <2>1, Zenon
  <2>4. RowsWell' /\ ClaimsApart' /\ OrphansFit' /\ LedgerAhead' /\ LedgerMoves
    BY <1>1, <2>2, <2>3, CompletedKeepsTables, Zenon
  <2>5. \A t \in TaskIds : /\ acks'[t] = IF t \in b.del THEN {} ELSE acks[t]
                           /\ outcomes'[t] = IF t \in b.del THEN {} ELSE outcomes[t]
    BY <1>2, <1>3, <1>7, Zenon
  <2>6. \A t \in TaskIds : ToldAt(t)'
    BY <1>1, <2>2, <2>3, <2>5, CompletedTells, Zenon
  <2>7. QED
    BY <2>4, <2>6, Zenon DEF LedgerInv, Told, LedgerKept
<1>8. QED
  BY <1>5, <1>6, <1>7, Zenon

-----------------------------------------------------------------------------
(* Rebuilding the table from the ledger.                                   *)

\* The repair that validate_and_reconcile_snapshot writes: leases that nobody
\* holds any more lapse, overdue tasks expire, retired ones go.
LEMMA ReconcileMade ==
    ASSUME Inv, LedgerInv, SnapshotValid(ledger), ~up \/ doubt
    PROVE  LET b == ReconcileBatch(ledger, now)
               rows == ReconciledRows(ledger, now)
           IN  /\ Made(b) /\ DOMAIN b.put \subseteq DOMAIN ledger
               /\ \A t \in DOMAIN b.put : b.put[t].dlv = NoDelivery
               /\ DOMAIN rows = (DOMAIN ledger \ b.del) \cup DOMAIN b.put
               /\ \A t \in DOMAIN rows :
                    rows[t] = IF t \in DOMAIN b.put THEN b.put[t] ELSE ledger[t]
<1> DEFINE b == ReconcileBatch(ledger, now)
           rows == ReconciledRows(ledger, now)
<1>1. IsBatch(b)
  BY ReconcileBatchOk, Zenon
<1>2. /\ b.del = {t \in DOMAIN ledger : Retired(ledger[t], now)}
      /\ DOMAIN b.put = {t \in DOMAIN rows : rows[t] # ledger[t]}
      /\ \A t \in DOMAIN b.put : b.put[t] = rows[t]
  BY Zenon DEF ReconcileBatch
<1>3. /\ DOMAIN rows = {t \in DOMAIN ledger : ~Retired(ledger[t], now)}
      /\ \A t \in DOMAIN rows : rows[t] = ReconciledRow(ledger[t], now)
  BY Zenon DEF ReconciledRows
<1> HIDE DEF b, rows
<1>4. /\ DOMAIN b.put \subseteq DOMAIN ledger /\ DOMAIN b.put \cap b.del = {}
      /\ DOMAIN rows = (DOMAIN ledger \ b.del) \cup DOMAIN b.put
      /\ \A t \in DOMAIN rows :
           rows[t] = IF t \in DOMAIN b.put THEN b.put[t] ELSE ledger[t]
  BY <1>2, <1>3, Zenon
<1>5. \A t \in DOMAIN ledger : ledger[t] \in Row /\ WellFormed(ledger[t])
  BY Zenon DEF Inv, TypeOK, Partial, LedgerInv, RowsWell
<1>6. ASSUME NEW t \in DOMAIN b.put
      PROVE  /\ WellFormed(b.put[t]) /\ Succeeds(ledger[t], b.put[t])
             /\ b.put[t].dlv = NoDelivery
  <2> DEFINE row == ledger[t]
  <2>1. row \in Row /\ WellFormed(row) /\ now \in Nat
    BY <1>4, <1>5, Zenon DEF Inv, TypeOK
  <2>2. b.put[t] = ReconciledRow(row, now) /\ b.put[t] # row
    BY <1>2, <1>3, Zenon
  <2> HIDE DEF row
  <2>3. CASE /\ row.st \in Active
             /\ b.put[t] = TerminalRow(row, now, "Expired", NoReply)
    <3>1. Concludes("Expired", NoReply)
      BY Zenon DEF Concludes, Terminal
    <3>2. TerminalRow(row, now, "Expired", NoReply).dlv = NoDelivery
      BY <2>1, Zenon DEF TerminalRow, Row
    <3>3. QED
      BY <2>1, <2>3, <3>1, <3>2, TerminalSucceeds, Zenon DEF row
  <2>4. CASE row.st = "Leased" /\ b.put[t] = RequeuedRow(row)
    BY <2>1, <2>4, RequeuedColumns, RequeuedSucceeds DEF row
  <2>5. QED
    BY <2>2, <2>3, <2>4, Zenon DEF ReconciledRow
<1>7. ASSUME NEW t \in b.del  PROVE  ledger[t].st \in Terminal
  BY <1>2, <1>5, Zenon DEF Retired, WellFormed, ColumnsFitState
<1>8. Fitting(b)
  BY <1>2, <1>4, <1>6, <1>7, Zenon DEF Fitting
<1>9. Claimed(b)
  BY <1>6, Zenon DEF Claimed
<1>10. Made(b)
  BY <1>1, <1>4, <1>8, <1>9, Zenon DEF Made
<1>11. QED
  BY <1>4, <1>6, <1>10, Zenon DEF b, rows

\* restore_task for every row of it: memory and ledger then say the same.
LEMMA RebuildKeepsLedger ==
    ASSUME Inv, Inv', LedgerInv, SnapshotValid(ledger), ~up \/ doubt,
           Write(ReconcileBatch(ledger, now)),
           Rebuild(ReconciledRows(ledger, now)),
           UNCHANGED <<now, orphans>>
    PROVE  LedgerKept
<1> DEFINE b == ReconcileBatch(ledger, now)
           rows == ReconciledRows(ledger, now)
<1>1. /\ Made(b) /\ \A t \in DOMAIN b.put : b.put[t].dlv = NoDelivery
      /\ DOMAIN b.put \subseteq DOMAIN ledger
      /\ DOMAIN rows = (DOMAIN ledger \ b.del) \cup DOMAIN b.put
      /\ \A t \in DOMAIN rows :
           rows[t] = IF t \in DOMAIN b.put THEN b.put[t] ELSE ledger[t]
  BY ReconcileMade, Zenon
<1>2. Write(b) /\ Rebuild(rows)
  BY Zenon
<1> HIDE DEF b, rows
<1>3. IsBatch(b) /\ Fitting(b) /\ Claimed(b)
  BY <1>1, Zenon DEF Made
<1>4. /\ DOMAIN ledger' = (DOMAIN ledger \ b.del) \cup DOMAIN b.put
      /\ \A t \in DOMAIN ledger' :
           ledger'[t] = IF t \in DOMAIN b.put THEN b.put[t] ELSE ledger[t]
      /\ \A t \in DOMAIN ledger \cap DOMAIN ledger' :
           ledger'[t] = ledger[t] \/ Succeeds(ledger[t], ledger'[t])
      /\ \A t \in DOMAIN ledger' :
           WellFormed(ledger'[t]) /\ ValidForStore(ledger'[t])
      /\ Cardinality(DOMAIN ledger') <= MaxRetainedTasks
  BY <1>2, <1>3, WriteMoves, Zenon DEF LedgerInv
<1>5. /\ DOMAIN rows = DOMAIN ledger' /\ DOMAIN ledger' \subseteq DOMAIN ledger
      /\ \A t \in DOMAIN rows : rows[t] = ledger'[t]
  BY <1>1, <1>4, Zenon
<1>6. /\ tasks' = RestoredTasks(rows)
      /\ acks' = [t \in TaskIds |-> IF t \in DOMAIN rows THEN acks[t] ELSE {}]
      /\ outcomes' = [t \in TaskIds |-> IF t \in DOMAIN rows THEN outcomes[t] ELSE {}]
  BY <1>2, Zenon DEF Rebuild
<1>7. \A t \in DOMAIN ledger' : ledger'[t] \in Row /\ t \in TaskIds
  BY Zenon DEF Inv, TypeOK, Partial
<1>8. DOMAIN tasks' = DOMAIN ledger'
  BY <1>5, <1>6, Zenon DEF RestoredTasks
<1>9. ASSUME NEW t \in DOMAIN ledger'
      PROVE  Shaped(tasks'[t]) /\ DurableTask(tasks'[t]) = ledger'[t]
  <2> DEFINE n == Cardinality({u \in DOMAIN rows : Before(rows, u, t)}) + 1
             owner == LiveRegistration(rows[t].msg.to)
  <2>1. tasks'[t] = RestoreTask(rows[t], n, owner)
    BY <1>5, <1>6, Zenon DEF RestoredTasks
  <2>2. n \in Nat
    <3>1. tasks'[t] \in TaskRecord
      BY <1>8, Zenon DEF Inv, TypeOK, Partial
    <3>2. tasks'[t].seq = n
      BY <2>1 DEF RestoreTask
    <3>3. QED
      BY <3>1, <3>2, Zenon DEF TaskRecord
  <2>3. owner \in Nat
    BY Zenon DEF LiveRegistration, NoRegistration, Inv, TypeOK, Partial
  <2> HIDE DEF n, owner
  <2>4. rows[t] \in Row /\ WellFormed(rows[t]) /\ rows[t] = ledger'[t]
    BY <1>4, <1>5, <1>7, Zenon
  <2>5. QED
    BY <2>1, <2>2, <2>3, <2>4, RestoreDurable
<1>10. ASSUME NEW t \in DOMAIN ledger'
       PROVE  /\ tasks'[t].ver = ledger'[t].ver /\ tasks'[t].dlv = ledger'[t].dlv
              /\ tasks'[t].term = ledger'[t].term
              /\ ledger'[t].st \in Terminal <=> ~Open(tasks'[t])
  <2>1. tasks'[t] \in TaskRecord
    BY <1>8, Zenon DEF Inv, TypeOK, Partial
  <2>2. QED
    BY <1>9, <2>1, DurableColumns, DurableState
<1>11. RowsWell'
  BY <1>4, <1>8, <1>9, Zenon DEF RowsWell
<1>12. ClaimsApart'
  <2>1. ASSUME NEW t \in TaskIds, NEW d \in Nat, Claim(t, d)'
        PROVE  Claim(t, d) \/ (t \in DOMAIN b.put /\ b.put[t].dlv = d)
    BY <1>4, <1>5, <1>8, <1>10, <2>1 DEF Claim
  <2>2. QED
    BY <1>3, <2>1, ClaimsAfter, Zenon DEF LedgerInv
<1>13. OrphansFit'
  <2> SUFFICES ASSUME NEW o \in orphans
               PROVE  /\ Fitting(o)' /\ DOMAIN o.put \subseteq DOMAIN ledger'
                      /\ InStep(o)'
    BY Zenon DEF OrphansFit
  <2>1. Fitting(o)' /\ DOMAIN o.put \subseteq DOMAIN ledger'
    BY <1>2, <1>3, OrphansStay, Zenon DEF LedgerInv
  <2>2. ASSUME NEW t \in DOMAIN o.put  PROVE  o.put[t].ver <= tasks'[t].ver + 1
    <3>1. /\ o.put[t].ver <= ledger'[t].ver \/ o.put[t].ver = ledger'[t].ver + 1
          /\ ledger'[t].ver \in Nat /\ o.put[t].ver \in Nat
      <4>1. t \in DOMAIN ledger' /\ ledger'[t] \in Row /\ o.put[t] \in Row
        BY <1>7, <2>1, Zenon DEF Inv, TypeOK, IsBatch, Partial
      <4>2. o.put[t].ver <= ledger'[t].ver \/ Succeeds(ledger'[t], o.put[t])
        BY <2>1, <4>1, Zenon DEF Fitting
      <4>3. QED
        BY <4>1, <4>2, Zenon DEF Succeeds, Row
    <3>2. QED
      <4>1. t \in DOMAIN ledger' /\ tasks'[t].ver = ledger'[t].ver
        BY <1>10, <2>1, Zenon
      <4>2. QED
        BY <3>1, <4>1
  <2>3. ASSUME NEW t \in o.del \cap DOMAIN tasks'  PROVE  Past(tasks[t])'
    <3>1. ledger'[t].st \in Terminal /\ (ClockBack = 0 => Retired(ledger'[t], now))
      BY <1>8, <2>1, Zenon DEF Fitting
    <3>2. QED
      BY <1>8, <1>10, <3>1, Zenon DEF Past, Open, Retired, RetentionDeadline
  <2>4. QED
    BY <2>1, <2>2, <2>3, Zenon DEF InStep
<1>14. LedgerAhead'
  BY <1>8, <1>9, Zenon DEF LedgerAhead
<1>15. ASSUME NEW t \in TaskIds  PROVE  ToldAt(t)'
  <2>1. ToldAt(t)
    BY Zenon DEF LedgerInv, Told
  <2>2. CASE t \notin DOMAIN ledger'
    BY <1>5, <1>6, <1>8, <2>2, Zenon DEF ToldAt, ToldRow
  <2>3. CASE t \in DOMAIN ledger'
    <3>1. acks'[t] = acks[t] /\ outcomes'[t] = outcomes[t] /\ t \in DOMAIN ledger
      BY <1>5, <1>6, <2>3, Zenon
    <3>2. ledger[t] \in Row /\ ledger'[t] \in Row
      BY <1>7, <2>3, <3>1, Zenon DEF Inv, TypeOK, Partial
    <3>3. ledger'[t] = ledger[t] \/ Later(ledger[t], ledger'[t])
      BY <1>4, <2>3, <3>1, <3>2, SucceedsLater
    <3>4. ToldRow(t, ledger'[t])
      BY <2>1, <3>1, <3>3, ToldLater, Zenon DEF ToldAt
    <3>5. DurableTask(tasks'[t]) = ledger'[t]
      BY <1>9, <2>3, Zenon
    <3>6. QED
      BY <1>8, <2>1, <2>3, <3>1, <3>4, <3>5, Zenon DEF ToldAt, ToldRow
  <2>4. QED
    BY <2>2, <2>3, Zenon
<1>16. LedgerMoves
  BY <1>1, <1>2, <1>3, WriteAdvances, Zenon DEF LedgerInv
<1>17. QED
  <2>1. Told'
    BY <1>15, Zenon DEF Told
  <2>2. LedgerInv'
    BY <1>11, <1>12, <1>13, <1>14, <2>1, Zenon DEF LedgerInv
  <2>3. QED
    BY <1>16, <2>2, Zenon DEF LedgerKept

LEMMA ReconcileKeepsLedger ==
    ASSUME Inv, Inv', LedgerInv, Reconcile
    PROVE  LedgerKept
<1> DEFINE b == ReconcileBatch(ledger, now)
<1>1. up /\ doubt /\ SnapshotValid(ledger)
  BY Zenon DEF Reconcile
<1>2. \/ /\ Write(b) /\ Rebuild(ReconciledRows(ledger, now))
         /\ UNCHANGED <<now, orphans>>
      \/ Interrupted(b, TRUE)
  BY Zenon DEF Reconcile
<1>3. Made(b) /\ DOMAIN b.put \subseteq DOMAIN ledger
  BY <1>1, ReconcileMade, Zenon
<1>4. CASE Interrupted(b, TRUE)
  BY <1>1, <1>3, <1>4, InterruptedKeepsLedger, Zenon
<1>5. CASE /\ Write(b) /\ Rebuild(ReconciledRows(ledger, now))
           /\ UNCHANGED <<now, orphans>>
  BY <1>1, <1>5, RebuildKeepsLedger, Zenon
<1>6. QED
  BY <1>2, <1>4, <1>5, Zenon

LEMMA RecoverKeepsLedger ==
    ASSUME Inv, Inv', LedgerInv, Recover
    PROVE  LedgerKept
<1> DEFINE b == ReconcileBatch(ledger, now)
<1>1. ~up /\ SnapshotValid(ledger) /\ Write(b)
  BY Zenon DEF Recover
<1>2. CASE Rebuild(ReconciledRows(ledger, now)) /\ UNCHANGED <<now, orphans>>
  BY <1>1, <1>2, RebuildKeepsLedger, Zenon
<1>3. CASE UNCHANGED <<now, up, orphans, doubt, tasks, acks, outcomes>>
  <2>1. Made(b) /\ DOMAIN b.put \subseteq DOMAIN ledger
    BY <1>1, ReconcileMade, Zenon
  <2> HIDE DEF b
  <2>2. RowsWell' /\ ClaimsApart' /\ OrphansFit' /\ Told' /\ LedgerMoves
    BY <1>1, <1>3, <2>1, WriteKeepsRows, Zenon DEF Made
  <2>3. LedgerAhead'
    BY <1>1, <1>3, Zenon DEF LedgerAhead
  <2>4. QED
    BY <2>2, <2>3, Zenon DEF LedgerInv, LedgerKept
<1>4. QED
  BY <1>2, <1>3, Zenon DEF Recover, memory, history

-----------------------------------------------------------------------------
(* Every step.                                                             *)

\* Every step keeps the two tables in agreement and moves the ledger along the
\* lifecycle.
LEMMA StepKeepsLedger ==
    ASSUME Inv, Inv', IndexesExact, LedgerInv, [Next]_vars
    PROVE  LedgerKept
<1>1. CASE Maintain
  BY <1>1, MaintainKeepsLedger, Zenon
<1>2. CASE Reconcile
  BY <1>2, ReconcileKeepsLedger, Zenon
<1>3. ASSUME NEW a \in Agents, Register(a)  PROVE  LedgerKept
  BY <1>3, RegisterKeepsLedger, Zenon
<1>4. ASSUME NEW r \in DOMAIN regs,
             \/ Renew(r)
             \/ RemoveRegistration(r)
             \/ \E t \in TaskIds, m \in Messages : Enqueue(r, t, m)
             \/ PollDelivery(r)
             \/ \E d \in 1 .. issued : AckDelivery(r, d) \/ AckAgain(r, d)
             \/ \E t \in TaskIds, p \in Replies :
                  Reply(r, t, p) \/ FailTask(r, t, p) \/ RejectTask(r, t, p)
             \/ \E t \in TaskIds : CancelTask(r, t)
      PROVE  LedgerKept
  <2>1. CASE Renew(r)
    <3>1. /\ UNCHANGED <<up, ledger, orphans, doubt, tasks, acks, outcomes>>
          /\ now' = now /\ now \in Nat
      BY <2>1, Zenon DEF Renew, store, history, Inv, TypeOK
    <3>2. QED
      BY <3>1, StillKeepsLedger
  <2>2. CASE RemoveRegistration(r)
    BY <2>2, RemoveRegistrationKeepsLedger, Zenon
  <2>3. CASE \E t \in TaskIds, m \in Messages : Enqueue(r, t, m)
    BY <2>3, EnqueueKeepsLedger, Zenon
  <2>4. CASE PollDelivery(r)
    BY <2>4, PollDeliveryKeepsLedger, Zenon
  <2>5. CASE \E d \in 1 .. issued : AckDelivery(r, d) \/ AckAgain(r, d)
    BY <2>5, AckDeliveryKeepsLedger, AckAgainKeepsLedger, Zenon
  <2>6. CASE \E t, st, p : Concludes(st, p) /\ End(r, t, st, p)
    BY <2>6, EndKeepsLedger, Zenon
  <2>7. ASSUME NEW t, NEW p \in Replies,
               Reply(r, t, p) \/ FailTask(r, t, p) \/ RejectTask(r, t, p)
        PROVE  \E u, st, q : Concludes(st, q) /\ End(r, u, st, q)
    <3>1. /\ Concludes("Replied", p) /\ Concludes("Failed", p)
          /\ Concludes("Rejected", p)
      BY DurableRowsAssumption, Zenon DEF DurableRowsAssumption, Concludes, Terminal
    <3>2. QED
      BY <2>7, <3>1, Zenon DEF Reply, FailTask, RejectTask
  <2>8. ASSUME NEW t, CancelTask(r, t)
        PROVE  \E u, st, q : Concludes(st, q) /\ End(r, u, st, q)
    <3>1. Concludes("Canceled", NoReply)
      BY Zenon DEF Concludes, Terminal
    <3>2. QED
      BY <2>8, <3>1, Zenon DEF CancelTask
  <2>9. QED
    BY <1>4, <2>1, <2>2, <2>3, <2>4, <2>5, <2>6, <2>7, <2>8, Zenon
<1>5. CASE Tick
  <2>1. /\ UNCHANGED <<up, ledger, orphans, doubt, tasks, acks, outcomes>>
        /\ now' \in Nat /\ (ClockBack = 0 => now <= now')
    BY <1>5, BrokerAssumption
       DEF Tick, store, memory, history, Inv, TypeOK, BrokerAssumption
  <2>2. QED
    BY <2>1, StillKeepsLedger, Zenon
<1>6. CASE OrphanLands
  BY <1>6, OrphanLandsKeepsLedger, Zenon
<1>7. CASE Crash
  BY <1>7, CrashKeepsLedger, Zenon
<1>8. CASE Recover
  BY <1>8, RecoverKeepsLedger, Zenon
<1>9. CASE UNCHANGED vars
  <2>1. /\ UNCHANGED <<up, ledger, orphans, doubt, tasks, acks, outcomes>>
        /\ now' = now /\ now \in Nat
    BY <1>9, Zenon DEF vars, store, memory, history, Inv, TypeOK
  <2>2. QED
    BY <2>1, StillKeepsLedger
<1>10. QED
  BY <1>1, <1>2, <1>3, <1>4, <1>5, <1>6, <1>7, <1>8, <1>9, Zenon DEF Next

-----------------------------------------------------------------------------
(* What the invariant says of the ledger.                                  *)

\* An empty ledger agrees with an empty table.
LEMMA InitLedger ==
    ASSUME ListLaws, Init
    PROVE  LedgerInv
<1>1. /\ DOMAIN ledger = {} /\ DOMAIN tasks = {} /\ orphans = {}
      /\ \A t \in TaskIds : acks[t] = {} /\ outcomes[t] = {}
  BY EmptyPartial, Zenon DEF Init
<1>2. Cardinality(DOMAIN ledger) <= MaxRetainedTasks
  <2>1. Cardinality(DOMAIN ledger) = 0
    BY <1>1, Zenon DEF ListLaws, CountsSmall
  <2>2. QED
    BY <2>1, DurableRowsAssumption DEF DurableRowsAssumption
<1>3. RowsWell /\ OrphansFit /\ LedgerAhead
  BY <1>1, <1>2, Zenon DEF RowsWell, OrphansFit, LedgerAhead
<1>4. ClaimsApart
  BY <1>1, Zenon DEF ClaimsApart, Claim
<1>5. Told
  BY <1>1, Zenon DEF Told, ToldAt, ToldRow
<1>6. QED
  BY <1>3, <1>4, <1>5, Zenon DEF LedgerInv

\* An unflagged difference between a record and its row is one write, and only
\* rows past their retention are missing.
LEMMA LedgerAgrees ==
    ASSUME ClockBack = 0, Inv, LedgerInv
    PROVE  LedgerAgreement
<1> SUFFICES ASSUME up  PROVE  LedgerAgreement
  BY Zenon DEF LedgerAgreement
<1>1. ASSUME NEW t \in DOMAIN tasks \cap DOMAIN ledger
      PROVE  \/ ledger[t] = DurableTask(tasks[t])
             \/ ledger[t].ver = tasks[t].ver + 1
             \/ doubt /\ ledger[t].ver > tasks[t].ver
  <2>1. DurableTask(tasks[t]).ver = tasks[t].ver
    BY DurableColumns, Zenon DEF Inv, TypeOK, Partial
  <2>2. QED
    BY <2>1, Zenon DEF LedgerInv, LedgerAhead, Later, Succeeds
<1>2. ASSUME ~doubt
      PROVE  /\ DOMAIN ledger \subseteq DOMAIN tasks
             /\ \A t \in DOMAIN tasks \ DOMAIN ledger :
                  tasks[t].term # NoTime /\ tasks[t].term + TerminalRetention <= now
  BY <1>2, Zenon DEF LedgerInv, LedgerAhead, Past, Open
<1>3. QED
  BY <1>1, <1>2, Zenon DEF LedgerAgreement

\* One delivery of a task is acknowledged, and its row says so until it ends.
LEMMA AcksAgree ==
    ASSUME ListLaws, Inv, LedgerInv
    PROVE  AckedOnce
<1> SUFFICES ASSUME NEW t \in TaskIds
             PROVE  /\ Cardinality(acks[t]) <= 1
                    /\ acks[t] # {} /\ t \in DOMAIN ledger =>
                         \/ ledger[t].st \in Terminal
                         \/ ledger[t].st = "Acknowledged" /\ ledger[t].dlv \in acks[t]
  BY Zenon DEF AckedOnce
<1>1. ToldAt(t)
  BY Zenon DEF LedgerInv, Told
<1>2. acks[t] = {} \/ \E d : acks[t] = {d}
  BY <1>1, Zenon DEF ToldAt
<1>3. Cardinality(acks[t]) <= 1
  <2>1. CASE acks[t] = {}
    BY <2>1 DEF ListLaws, CountsSmall
  <2>2. ASSUME NEW d, acks[t] = {d}  PROVE  Cardinality(acks[t]) <= 1
    <3>1. Cardinality({d}) = 1
      BY Zenon DEF ListLaws, CountsSmall
    <3>2. QED
      BY <2>2, <3>1
  <2>3. QED
    BY <1>2, <2>1, <2>2, Zenon
<1>4. QED
  BY <1>1, <1>3, Zenon DEF ToldAt, ToldRow

\* A row that validate_durable_for_store let in passes validate_durable_task.
LEMMA RowsRecover ==
    ASSUME Inv, LedgerInv
    PROVE  AlwaysRecoverable
<1>1. ASSUME NEW t \in DOMAIN ledger
      PROVE  DecodesAsTask(ledger[t]) /\ ValidDurableTask(ledger[t])
  <2> DEFINE row == ledger[t]
  <2>1. row \in Row /\ WellFormed(row) /\ ValidForStore(row)
    BY Zenon DEF Inv, TypeOK, Partial, LedgerInv, RowsWell
  <2>2. /\ row.created \in Nat /\ row.until \in Nat \cup {NoTime}
        /\ DeliveryLease \in Nat
    BY <2>1, DurableRowsAssumption, Zenon DEF Row, DurableRowsAssumption
  <2> HIDE DEF row
  <2>3. row.dlv # NoDelivery => row.until >= row.created
    BY <2>1, <2>2 DEF ValidForStore, NoTime
  <2>4. DecodesAsTask(row) /\ ValidDurableTask(row)
    BY <2>1, <2>3, Zenon DEF DecodesAsTask, ValidDurableTask, ValidForStore, WellFormed
  <2>5. QED
    BY <2>4, Zenon DEF row
<1>2. ASSUME NEW t \in DOMAIN ledger, NEW u \in DOMAIN ledger, t # u,
             ledger[t].dlv # NoDelivery
      PROVE  ledger[t].dlv # ledger[u].dlv
  <2>1. t \in TaskIds /\ u \in TaskIds /\ ledger[t].dlv \in Nat
    BY Zenon DEF Inv, TypeOK, Partial, Row
  <2>2. QED
    BY <1>2, <2>1, Zenon DEF LedgerInv, ClaimsApart, Claim
<1>3. QED
  BY <1>1, <1>2, Zenon DEF AlwaysRecoverable, SnapshotValid, LedgerInv, RowsWell

\* A ledger whose rows move along the lifecycle is a step of TaskLifecycle.
LEMMA MovesImplement ==
    ASSUME Inv', LedgerMoves
    PROVE  Lifecycle!Next
<1> DEFINE status == [t \in TaskIds |->
                        IF t \in DOMAIN ledger
                          THEN StatusOf(ledger[t])
                          ELSE [st |-> "Unknown", dlv |-> NoDelivery, offers |-> 0,
                                reply |-> NoReply]]
<1>1. \A t \in TaskIds : status[t] = StatusAt(t) /\ status'[t] = StatusAt(t)'
  BY Zenon DEF StatusAt, Lifecycle!Unknown
<1>2. status' \in [TaskIds -> Lifecycle!Status]
  <2>1. ASSUME NEW t \in TaskIds  PROVE  StatusAt(t)' \in Lifecycle!Status
    <3>1. CASE t \in DOMAIN ledger'
      <4>1. ledger'[t] \in Row
        BY <3>1, Zenon DEF Inv, TypeOK, Partial
      <4>2. StatusOf(ledger'[t]) \in Status
        BY <4>1, StatusColumns, Zenon
      <4>3. QED
        BY <3>1, <4>2, Zenon
           DEF StatusAt, Status, Lifecycle!Status, Lifecycle!Ended, Active, Terminal
    <3>2. CASE t \notin DOMAIN ledger'
      BY <3>2, Zenon DEF StatusAt, Lifecycle!Unknown, Lifecycle!Status, NoDelivery
    <3>3. QED
      BY <3>1, <3>2, Zenon
  <2>2. QED
    BY <1>1, <2>1, Zenon
<1>3. QED
  BY <1>1, <1>2, Zenon DEF Lifecycle!Next, LedgerMoves
=============================================================================
