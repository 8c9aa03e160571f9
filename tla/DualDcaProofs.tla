--------------------------- MODULE DualDcaProofs ---------------------------
(***************************************************************************)
(* Proofs about DualDca for any markets, outcomes, levels, exchange        *)
(* orders, error limit and faults.                                         *)
(***************************************************************************)
EXTENDS DualDca, TLAPS

\* The exchange knows for which leg it took an order.
OrderInv ==
  \A e \in ExIds : exSt[e] = "none" <=> exLeg[e] = NoLeg

\* A recorded order that is not dead keeps its leg from being pending.
FreshInv ==
  \A e \in fresh :
    /\ exLeg[e] \in Legs
    /\ exSt[e] # "canceled" =>
         leg[exLeg[e]] \in {"filled", "canceled"} \/ oid[exLeg[e]] = e

\* What the tick knows about the order it has just placed.
HandInv ==
  pc \in {"placed", "filled"} =>
    /\ hand \in Legs /\ placed \in ExIds /\ exLeg[placed] = hand
    /\ ack = "filled" => exSt[placed] = "filled"
    /\ pc = "filled" => ack = "filled"
    /\ pc = "placed" => leg[hand] = "pending"

\* The orders whose status the tick still has to ask for.
FillsInv == pc = "fills" => \A l \in todo : l \in Legs /\ leg[l] = "submitted"

DataInv ==
  /\ SubmittedNamesOrder /\ FilledIsMatched /\ BoughtOncePerVisit
  /\ OrderInv /\ FreshInv

IInv == TypeOK /\ DataInv /\ HandInv /\ FillsInv

---------------------------------------------------------------------------
\* Steps that touch neither the legs nor the exchange.
LEMMA DataUnchanged ==
  ASSUME DataInv, UNCHANGED <<legVars, exVars, fresh>>
  PROVE  DataInv'
BY DEF DataInv, legVars, exVars, SubmittedNamesOrder, FilledIsMatched,
       BoughtOncePerVisit, OrderInv, FreshInv

\* Canceling the orders of any ids is well typed and kills live orders only.
LEMMA CancelTypes ==
  ASSUME TypeOK, NEW ids, CancelOrders(ids)
  PROVE  /\ exSt' \in [ExIds -> {"none", "live", "filled", "canceled"}]
         /\ \A e \in ExIds : exSt'[e] = exSt[e]
                             \/ (exSt[e] = "live" /\ exSt'[e] = "canceled")
<1>1. PICK refused : exSt' = [e \in ExIds |-> IF e \in ids \ refused /\ exSt[e] = "live"
                                              THEN "canceled" ELSE exSt[e]]
  BY Zenon DEF CancelOrders
<1> QED
  BY <1>1 DEF TypeOK

\* Canceling legs (cancel_dual_dca_active_orders) keeps the books, and so does
\* the insertion of pending legs after it, as long as the visit to their
\* market begins anew.
LEMMA CancelKeeps ==
  ASSUME TypeOK, DataInv, NEW S \in SUBSET Legs, NEW N \in SUBSET Legs,
         N \cap Cancelable(Legs) \subseteq S,
         leg' = [l \in Legs |-> IF l \in N THEN "pending"
                                ELSE IF l \in Cancelable(S) THEN "canceled"
                                ELSE leg[l]],
         oid' = ClearIds(S), NEW ids, CancelOrders(ids), UNCHANGED exLeg,
         fresh' \in SUBSET fresh, \A e \in fresh' : exLeg[e] \notin N
  PROVE  DataInv' /\ leg' \in [Legs -> LegStatuses] /\ oid' \in [Legs -> ExIds \cup {NoEx}]
<1> USE DEF DataInv
<1>1. /\ exSt' \in [ExIds -> {"none", "live", "filled", "canceled"}]
      /\ \A e \in ExIds : exSt'[e] = exSt[e]
                          \/ (exSt[e] = "live" /\ exSt'[e] = "canceled")
  BY CancelTypes
<1>2. leg' \in [Legs -> LegStatuses] /\ oid' \in [Legs -> ExIds \cup {NoEx}]
  BY DEF TypeOK, ClearIds, LegStatuses
<1>3. SubmittedNamesOrder'
  BY DualDcaAssumption DEF SubmittedNamesOrder, Cancelable, ClearIds, TypeOK
<1>4. FilledIsMatched'
  <2> SUFFICES ASSUME NEW l \in Legs, leg'[l] = "filled"
               PROVE  \E e \in ExIds : exLeg[e] = l /\ exSt'[e] = "filled"
    BY DEF FilledIsMatched
  <2>1. leg[l] = "filled"
    BY DEF TypeOK
  <2>2. PICK e \in ExIds : exLeg[e] = l /\ exSt[e] = "filled"
    BY <2>1 DEF FilledIsMatched
  <2> QED
    BY <1>1, <2>2
<1>5. BoughtOncePerVisit'
  BY <1>1 DEF BoughtOncePerVisit, TypeOK
<1>6. OrderInv'
  BY <1>1 DEF OrderInv
<1>7. FreshInv'
  <2> SUFFICES ASSUME NEW e \in fresh'
               PROVE  /\ exLeg[e] \in Legs
                      /\ exSt'[e] # "canceled" =>
                           leg'[exLeg[e]] \in {"filled", "canceled"} \/ oid'[exLeg[e]] = e
    BY DEF FreshInv
  <2>1. e \in fresh /\ e \in ExIds /\ exLeg[e] \in Legs /\ exLeg[e] \notin N
    BY DEF FreshInv, TypeOK
  <2>2. exSt'[e] # "canceled" => exSt[e] # "canceled"
    BY <1>1, <2>1
  <2> QED
    BY <2>1, <2>2 DEF FreshInv, ClearIds, Cancelable
<1> QED
  BY <1>2, <1>3, <1>4, <1>5, <1>6, <1>7

\* The exchange takes an order it did not know.
LEMMA AcceptKeeps ==
  ASSUME TypeOK, DataInv, NEW e \in ExIds, NEW l \in Legs,
         NEW st \in {"live", "filled", "canceled"}, Accept(e, l, st),
         UNCHANGED <<legVars, fresh>>
  PROVE  /\ DataInv'
         /\ exSt' \in [ExIds -> {"none", "live", "filled", "canceled"}]
         /\ exLeg' \in [ExIds -> Legs \cup {NoLeg}]
<1> USE DEF DataInv
<1>1. /\ exSt' \in [ExIds -> {"none", "live", "filled", "canceled"}]
      /\ exLeg' \in [ExIds -> Legs \cup {NoLeg}]
      /\ exSt'[e] = st /\ exLeg'[e] = l
      /\ \A f \in ExIds \ {e} : exSt'[f] = exSt[f] /\ exLeg'[f] = exLeg[f]
  BY DEF Accept, TypeOK
<1>2. exLeg[e] = NoLeg /\ exSt[e] = "none"
  BY DEF OrderInv, Accept
<1>3. e \notin fresh /\ fresh \subseteq ExIds
  BY <1>2, DualDcaAssumption DEF FreshInv, TypeOK
<1>4. SubmittedNamesOrder'
  BY <1>1, <1>2, DualDcaAssumption DEF SubmittedNamesOrder, legVars, TypeOK
<1>5. FilledIsMatched'
  <2> SUFFICES ASSUME NEW k \in Legs, leg[k] = "filled"
               PROVE  \E f \in ExIds : exLeg'[f] = k /\ exSt'[f] = "filled"
    BY DEF FilledIsMatched, legVars
  <2>1. PICK f \in ExIds : exLeg[f] = k /\ exSt[f] = "filled"
    BY DEF FilledIsMatched
  <2> QED
    BY <1>1, <1>2, <2>1
<1>6. BoughtOncePerVisit'
  BY <1>1, <1>3 DEF BoughtOncePerVisit
<1>7. OrderInv'
  BY <1>1, DualDcaAssumption DEF OrderInv
<1>8. FreshInv'
  BY <1>1, <1>3 DEF FreshInv, legVars
<1> QED
  BY <1>1, <1>4, <1>5, <1>6, <1>7, <1>8

\* The two ways the job row is rescheduled.
LEMMA RowTypes ==
  ASSUME TypeOK, ScheduleRetry \/ (\E m \in Markets \cup {NoMarket} : UpdateMarketState(m))
  PROVE  errors' \in 0 .. MaxErrors /\ due' \in BOOLEAN
<1>1. errors \in 0 .. MaxErrors /\ MaxErrors \in Nat
  BY DualDcaAssumption DEF TypeOK
<1>2. errors' = 0 \/ errors' = (IF errors < MaxErrors THEN errors + 1 ELSE errors)
  BY DEF ScheduleRetry, UpdateMarketState
<1>3. due' = FALSE
  BY DEF ScheduleRetry, UpdateMarketState
<1>4. due' \in BOOLEAN
  BY <1>3, Zenon
<1> QED
  BY <1>1, <1>2, <1>4

---------------------------------------------------------------------------
\* The inductive invariant holds initially.
LEMMA DualDcaInit ==
  Init => IInv
BY DualDcaAssumption
   DEF Init, IInv, DataInv, TypeOK, SubmittedNamesOrder, FilledIsMatched,
       BoughtOncePerVisit, OrderInv, FreshInv, HandInv, FillsInv, JobStatuses,
       LegStatuses, Pcs

\* Steps of the tick that leave legs, orders and exchange alone, and the steps
\* of the clock and of the flow's owner.
LEMMA QuietKeeps ==
  ASSUME IInv,
         \/ List \/ Close \/ DiscoveryFails \/ NoMarketFound
         \/ \E m \in Markets : Select(m)
         \/ EndStandDown \/ CheckFills \/ CheckTriggers
         \/ \E l \in Legs : StatusFails(l)
         \/ \E o \in Outcomes : Skip(o)
         \/ Finish \/ Return \/ Fail \/ Crash \/ TimePasses \/ StopRun
  PROVE  IInv'
<1> USE DEF IInv
<1>1. CASE List \/ Return \/ Crash
  <2>1. TypeOK'
    BY <1>1 DEF TypeOK, List, Return, Crash, Goto, EndTick, jobVars, legVars, exVars, Pcs
  <2>2. DataInv'
    BY <1>1, DataUnchanged DEF List, Return, Crash
  <2> QED
    BY <1>1, <2>1, <2>2 DEF List, Return, Crash, Goto, EndTick, HandInv, FillsInv
<1>2. CASE Close \/ NoMarketFound \/ EndStandDown \/ Finish
  <2>0. errors' \in 0 .. MaxErrors /\ due' \in BOOLEAN
    <3>1. CASE Close
      BY <1>2, <3>1 DEF Close, TypeOK
    <3>2. CASE NoMarketFound \/ EndStandDown \/ Finish
      BY <3>2, RowTypes DEF NoMarketFound, EndStandDown, Finish, TypeOK
    <3> QED
      BY <1>2, <3>1, <3>2
  <2>1. TypeOK'
    BY <1>2, <2>0 DEF TypeOK, Close, NoMarketFound, EndStandDown, Finish, UpdateMarketState,
       Goto, EndTick, legVars, exVars, Pcs, JobStatuses, Discovering
  <2>2. DataInv'
    BY <1>2, DataUnchanged DEF Close, NoMarketFound, EndStandDown, Finish
  <2> QED
    BY <1>2, <2>1, <2>2 DEF Close, NoMarketFound, EndStandDown, Finish, Goto, EndTick,
       HandInv, FillsInv
<1>3. CASE DiscoveryFails \/ Fail
  <2>0. errors' \in 0 .. MaxErrors /\ due' \in BOOLEAN
    BY <1>3, RowTypes DEF DiscoveryFails, Fail
  <2>1. TypeOK'
    BY <1>3, <2>0 DEF TypeOK, DiscoveryFails, Fail, Goto, EndTick, legVars, exVars, Pcs
  <2>2. DataInv'
    BY <1>3, DataUnchanged DEF DiscoveryFails, Fail
  <2> QED
    BY <1>3, <2>1, <2>2 DEF DiscoveryFails, Fail, Goto, EndTick, HandInv, FillsInv
<1>4. ASSUME NEW m \in Markets, Select(m) PROVE IInv'
  <2>1. TypeOK'
    BY <1>4 DEF TypeOK, Select, jobVars, legVars, exVars, Pcs
  <2>2. DataInv'
    BY <1>4, DataUnchanged DEF Select
  <2> QED
    BY <1>4, <2>1, <2>2 DEF Select, HandInv, FillsInv
<1>5. CASE CheckFills
  <2>0. errors' \in 0 .. MaxErrors /\ due' \in BOOLEAN
    <3>1. CASE UpdateMarketState(mkt)
      BY <3>1, RowTypes DEF TypeOK
    <3>2. CASE UNCHANGED <<slug, errors, due>>
      BY <3>2 DEF TypeOK
    <3> QED
      BY <1>5, <3>1, <3>2 DEF CheckFills
  <2>1. TypeOK'
    BY <1>5, <2>0 DEF TypeOK, CheckFills, UpdateMarketState, ActiveLegs, LegsOf, legVars, exVars,
       Pcs
  <2>2. DataInv'
    BY <1>5, DataUnchanged DEF CheckFills
  <2>3. FillsInv'
    BY <1>5 DEF CheckFills, FillsInv, ActiveLegs, LegsOf, legVars
  <2> QED
    BY <1>5, <2>1, <2>2, <2>3 DEF CheckFills, HandInv
<1>6. CASE CheckTriggers
  <2>1. TypeOK'
    BY <1>6 DEF TypeOK, CheckTriggers, jobVars, legVars, exVars, Pcs
  <2>2. DataInv'
    BY <1>6, DataUnchanged DEF CheckTriggers
  <2> QED
    BY <1>6, <2>1, <2>2 DEF CheckTriggers, HandInv, FillsInv
<1>7. ASSUME NEW l \in Legs, StatusFails(l) PROVE IInv'
  <2>1. TypeOK'
    BY <1>7 DEF TypeOK, StatusFails, jobVars, legVars, exVars
  <2>2. DataInv'
    BY <1>7, DataUnchanged DEF StatusFails
  <2> QED
    BY <1>7, <2>1, <2>2 DEF StatusFails, HandInv, FillsInv, legVars, exVars
<1>8. ASSUME NEW o \in Outcomes, Skip(o) PROVE IInv'
  <2>1. TypeOK'
    BY <1>8 DEF TypeOK, Skip, jobVars, legVars, exVars
  <2>2. DataInv'
    BY <1>8, DataUnchanged DEF Skip
  <2> QED
    BY <1>8, <2>1, <2>2 DEF Skip, HandInv, FillsInv
<1>9. CASE TimePasses \/ StopRun
  <2>1. TypeOK'
    BY <1>9 DEF TypeOK, TimePasses, StopRun, legVars, tickVars, exVars, JobStatuses
  <2>2. DataInv'
    BY <1>9, DataUnchanged DEF TimePasses, StopRun
  <2> QED
    BY <1>9, <2>1, <2>2 DEF TimePasses, StopRun, HandInv, FillsInv, tickVars, legVars, exVars
<1> QED
  BY <1>1, <1>2, <1>3, <1>4, <1>5, <1>6, <1>7, <1>8, <1>9

\* The steps that cancel legs: the job is given up, or a market is.
LEMMA StandDownKeeps ==
  ASSUME IInv, GiveUp \/ StandDown
  PROVE  IInv'
<1> USE DEF IInv
<1>1. PICK S \in SUBSET Legs : CancelActiveOrders(S)
  BY DEF GiveUp, StandDown, LegsOf
<1>2. DataInv' /\ leg' \in [Legs -> LegStatuses] /\ oid' \in [Legs -> ExIds \cup {NoEx}]
  <2>1. UNCHANGED <<exLeg, fresh>>
    BY DEF GiveUp, StandDown, CancelActiveOrders
  <2>2. leg' = [l \in Legs |-> IF l \in {} THEN "pending"
                              ELSE IF l \in Cancelable(S) THEN "canceled" ELSE leg[l]]
    BY <1>1 DEF CancelActiveOrders
  <2>3. oid' = ClearIds(S) /\ CancelOrders(ReturnedIds(S))
    BY <1>1 DEF CancelActiveOrders
  <2>4. /\ {} \in SUBSET Legs /\ {} \cap Cancelable(Legs) \subseteq S
        /\ fresh' \in SUBSET fresh /\ \A e \in fresh' : exLeg[e] \notin {}
    BY <2>1
  <2> QED
    BY <2>1, <2>2, <2>3, <2>4, CancelKeeps
<1>3. exSt' \in [ExIds -> {"none", "live", "filled", "canceled"}]
  BY <1>1, CancelTypes DEF CancelActiveOrders
<1>4. TypeOK'
  BY <1>1, <1>2, <1>3 DEF TypeOK, GiveUp, StandDown, CancelActiveOrders, Goto, jobVars, Pcs
<1> QED
  BY <1>2, <1>4 DEF GiveUp, StandDown, Goto, HandInv, FillsInv

\* A market is entered.
LEMMA EnterKeeps ==
  ASSUME IInv, NEW S \in SUBSET LegsOf(mkt), EnterMarket(S)
  PROVE  IInv'
<1> USE DEF IInv
<1>1. S \in SUBSET Legs /\ Legs \in SUBSET Legs
  BY DEF LegsOf
<1>2. DataInv' /\ leg' \in [Legs -> LegStatuses] /\ oid' \in [Legs -> ExIds \cup {NoEx}]
  <2>1. \A e \in fresh' : exLeg[e] \notin S
    BY DEF EnterMarket
  <2>2. fresh' \in SUBSET fresh
    BY DEF EnterMarket
  <2>3. leg' = [l \in Legs |-> IF l \in S THEN "pending"
                              ELSE IF l \in Cancelable(Legs) THEN "canceled" ELSE leg[l]]
    BY DEF EnterMarket
  <2>4. S \cap Cancelable(Legs) \subseteq Legs
    BY <1>1
  <2>5. oid' = ClearIds(Legs) /\ CancelOrders(ReturnedIds(Legs)) /\ exLeg' = exLeg
    BY DEF EnterMarket
  <2> QED
    BY <1>1, <2>1, <2>2, <2>3, <2>4, <2>5, CancelKeeps
<1>3. exSt' \in [ExIds -> {"none", "live", "filled", "canceled"}]
  BY CancelTypes DEF EnterMarket
<1>4. TypeOK'
  BY <1>2, <1>3 DEF TypeOK, EnterMarket, Goto, jobVars, Pcs
<1> QED
  BY <1>2, <1>4 DEF EnterMarket, Goto, HandInv, FillsInv

\* The status of a leg's order is read.
LEMMA CheckLegKeeps ==
  ASSUME IInv, NEW l \in Legs, CheckLeg(l)
  PROVE  IInv'
<1> USE DEF IInv, DataInv
<1>1. leg[l] = "submitted" /\ oid[l] \in ExIds /\ exLeg[oid[l]] = l
  BY DEF CheckLeg, FillsInv, SubmittedNamesOrder, TypeOK
<1>2. CASE UNCHANGED legVars
  <2>1. DataInv'
    BY <1>2, DataUnchanged DEF CheckLeg
  <2>2. TypeOK'
    BY <1>2 DEF TypeOK, CheckLeg, jobVars, legVars, exVars
  <2> QED
    BY <1>2, <2>1, <2>2 DEF CheckLeg, HandInv, FillsInv, legVars, exVars
<1>3. ASSUME NEW s \in {"filled", "pending"}, leg' = [leg EXCEPT ![l] = s],
             oid' = [oid EXCEPT ![l] = NoEx],
             exSt[oid[l]] = IF s = "filled" THEN "filled" ELSE "canceled"
      PROVE  IInv'
  <2>1. TypeOK'
    BY <1>3 DEF TypeOK, CheckLeg, jobVars, exVars, LegStatuses
  <2>2. SubmittedNamesOrder'
    BY <1>3 DEF SubmittedNamesOrder, TypeOK, CheckLeg, exVars
  <2>3. FilledIsMatched'
    BY <1>1, <1>3 DEF FilledIsMatched, TypeOK, CheckLeg, exVars
  <2>4. BoughtOncePerVisit' /\ OrderInv'
    BY DEF BoughtOncePerVisit, OrderInv, CheckLeg, exVars
  <2>5. FreshInv'
    <3> SUFFICES ASSUME NEW e \in fresh
                 PROVE  /\ exLeg[e] \in Legs
                        /\ exSt[e] # "canceled" =>
                             leg'[exLeg[e]] \in {"filled", "canceled"} \/ oid'[exLeg[e]] = e
      BY DEF FreshInv, CheckLeg, exVars
    <3>1. CASE exLeg[e] = l
      BY <1>1, <1>3, <3>1 DEF FreshInv, TypeOK
    <3>2. CASE exLeg[e] # l
      BY <1>3, <3>2 DEF FreshInv, TypeOK
    <3> QED
      BY <3>1, <3>2
  <2>6. HandInv' /\ FillsInv'
    BY <1>3 DEF CheckLeg, HandInv, FillsInv, TypeOK
  <2> QED
    BY <2>1, <2>2, <2>3, <2>4, <2>5, <2>6
<1> QED
  BY <1>2, <1>3 DEF CheckLeg

\* An order is placed, with or without an answer.
LEMMA PlaceKeeps ==
  ASSUME IInv, NEW o \in Outcomes, Place(o) \/ PlaceAnswerLost(o)
  PROVE  IInv'
<1> USE DEF IInv
<1>1. \A l \in NextPending(o) : l \in Legs /\ leg[l] = "pending"
  BY DEF NextPending, LegsOf
<1>2. CASE Place(o)
  <2>1. PICK l \in NextPending(o), e \in ExIds, st \in {"live", "filled", "canceled"} :
          Accept(e, l, st) /\ hand' = l /\ placed' = e /\ ack' \in AckOf(st)
    BY <1>2 DEF Place
  <2>2. UNCHANGED <<legVars, fresh>> /\ pc' = "placed"
    BY <1>2 DEF Place
  <2>3. /\ DataInv'
        /\ exSt' \in [ExIds -> {"none", "live", "filled", "canceled"}]
        /\ exLeg' \in [ExIds -> Legs \cup {NoLeg}]
    BY <1>1, <2>1, <2>2, AcceptKeeps
  <2>4. /\ ack' \in {"none", "open", "filled", "canceled", "rejected"}
        /\ ack' = "filled" => st = "filled"
    BY <2>1 DEF AckOf
  <2>5. exSt'[e] = st /\ exLeg'[e] = l
    BY <2>1 DEF Accept, TypeOK
  <2>6. TypeOK'
    BY <1>1, <1>2, <2>1, <2>3, <2>4 DEF TypeOK, Place, jobVars, legVars, Pcs
  <2>7. HandInv'
    BY <1>1, <2>1, <2>2, <2>4, <2>5 DEF HandInv, legVars
  <2> QED
    BY <2>2, <2>3, <2>6, <2>7 DEF FillsInv
<1>3. CASE PlaceAnswerLost(o)
  <2>1. PICK l \in NextPending(o), e \in ExIds : Accept(e, l, "live")
    BY <1>3 DEF PlaceAnswerLost
  <2>2. UNCHANGED <<legVars, fresh>>
    BY <1>3 DEF PlaceAnswerLost
  <2>3. /\ DataInv'
        /\ exSt' \in [ExIds -> {"none", "live", "filled", "canceled"}]
        /\ exLeg' \in [ExIds -> Legs \cup {NoLeg}]
    BY <1>1, <2>1, <2>2, AcceptKeeps
  <2>4. errors' \in 0 .. MaxErrors /\ due' \in BOOLEAN
    BY <1>3, RowTypes DEF PlaceAnswerLost
  <2>5. TypeOK'
    BY <1>3, <2>3, <2>4 DEF TypeOK, PlaceAnswerLost, EndTick, legVars, Pcs
  <2> QED
    BY <1>3, <2>3, <2>5 DEF PlaceAnswerLost, EndTick, HandInv, FillsInv
<1> QED
  BY <1>2, <1>3

\* The answer is recorded.
LEMMA RecordKeeps ==
  ASSUME IInv, RecordAck \/ RecordFill
  PROVE  IInv'
<1> USE DEF IInv, DataInv
<1>1. /\ hand \in Legs /\ placed \in ExIds /\ exLeg[placed] = hand
      /\ ack = "filled" => exSt[placed] = "filled"
      /\ pc = "filled" => ack = "filled"
      /\ pc = "placed" => leg[hand] = "pending"
  BY DEF HandInv, RecordAck, RecordFill
<1>2. HandInv' /\ FillsInv'
  BY <1>1 DEF HandInv, FillsInv, RecordAck, RecordFill, Goto, NextOutcome, exVars, TypeOK
<1>3. UNCHANGED <<jobVars, run, exVars, mkt, todo>> /\ pc' \in Pcs
      /\ hand' \in Legs \cup {NoLeg} /\ placed' \in ExIds \cup {NoEx}
      /\ ack' \in {"none", "open", "filled", "canceled", "rejected"}
  BY DEF RecordAck, RecordFill, Goto, NextOutcome, TypeOK, Pcs
<1>4. CASE UNCHANGED <<legVars, fresh>>
  <2>1. DataInv'
    BY <1>3, <1>4, DataUnchanged
  <2>2. TypeOK'
    BY <1>3, <1>4 DEF TypeOK, jobVars, legVars, exVars
  <2> QED
    BY <1>2, <2>1, <2>2
<1>5. CASE /\ pc = "placed"
           /\ leg' = [leg EXCEPT ![hand] = "submitted"]
           /\ oid' = [oid EXCEPT ![hand] = placed]
           /\ fresh' = fresh \cup {placed}
  <2>1. TypeOK'
    BY <1>1, <1>3, <1>5 DEF TypeOK, jobVars, exVars, LegStatuses
  <2>2. SubmittedNamesOrder'
    BY <1>1, <1>3, <1>5, DualDcaAssumption DEF SubmittedNamesOrder, TypeOK, exVars
  <2>3. FilledIsMatched' /\ OrderInv'
    BY <1>1, <1>3, <1>5 DEF FilledIsMatched, OrderInv, TypeOK, exVars
  <2>4. \A e \in fresh : exLeg[e] = hand => exSt[e] = "canceled"
    BY <1>1, <1>5, DualDcaAssumption DEF FreshInv, SubmittedNamesOrder, TypeOK
  <2>5. BoughtOncePerVisit'
    BY <1>1, <1>3, <1>5, <2>4 DEF BoughtOncePerVisit, exVars
  <2>6. FreshInv'
    <3> SUFFICES ASSUME NEW e \in fresh \cup {placed}
                 PROVE  /\ exLeg[e] \in Legs
                        /\ exSt[e] # "canceled" =>
                             leg'[exLeg[e]] \in {"filled", "canceled"} \/ oid'[exLeg[e]] = e
      BY <1>3, <1>5 DEF FreshInv, exVars
    <3>1. CASE e = placed
      BY <1>1, <1>5, <3>1 DEF TypeOK
    <3>2. CASE e # placed /\ exLeg[e] = hand
      BY <1>1, <2>4, <3>2
    <3>3. CASE e # placed /\ exLeg[e] # hand
      BY <1>1, <1>5, <3>3 DEF FreshInv, TypeOK
    <3> QED
      BY <3>1, <3>2, <3>3
  <2> QED
    BY <1>2, <2>1, <2>2, <2>3, <2>5, <2>6
<1>6. CASE RecordFill
  <2>1. TypeOK'
    BY <1>1, <1>3, <1>6 DEF TypeOK, RecordFill, jobVars, exVars, LegStatuses
  <2>2. SubmittedNamesOrder'
    BY <1>1, <1>3, <1>6 DEF SubmittedNamesOrder, RecordFill, TypeOK, exVars
  <2>3. FilledIsMatched' /\ OrderInv' /\ BoughtOncePerVisit'
    BY <1>1, <1>3, <1>6 DEF FilledIsMatched, OrderInv, BoughtOncePerVisit, RecordFill,
       TypeOK, exVars
  <2>4. FreshInv'
    BY <1>1, <1>3, <1>6 DEF FreshInv, RecordFill, TypeOK, exVars
  <2> QED
    BY <1>2, <2>1, <2>2, <2>3, <2>4
<1> QED
  BY <1>4, <1>5, <1>6 DEF RecordAck

\* The exchange fills or drops an order by itself.
LEMMA ExchangeKeeps ==
  ASSUME IInv, NEW e \in ExIds, ExchangeMoves(e)
  PROVE  IInv'
<1> USE DEF IInv, DataInv
<1>1. PICK s \in {"filled", "canceled"} : exSt' = [exSt EXCEPT ![e] = s]
  BY DEF ExchangeMoves
<1>2. exSt[e] = "live" /\ UNCHANGED <<jobVars, run, legVars, tickVars, exLeg, fresh>>
  BY DEF ExchangeMoves
<1>3. TypeOK'
  BY <1>1, <1>2 DEF TypeOK, jobVars, legVars, tickVars
<1>4. SubmittedNamesOrder' /\ FilledIsMatched' /\ OrderInv' /\ BoughtOncePerVisit'
  BY <1>1, <1>2, DualDcaAssumption DEF SubmittedNamesOrder, FilledIsMatched, OrderInv,
     BoughtOncePerVisit, legVars, TypeOK
<1>5. FreshInv'
  BY <1>1, <1>2 DEF FreshInv, legVars, TypeOK
<1>6. HandInv' /\ FillsInv'
  BY <1>1, <1>2 DEF HandInv, FillsInv, legVars, tickVars, TypeOK
<1> QED
  BY <1>3, <1>4, <1>5, <1>6

\* The inductive invariant of the dual-DCA job.
LEMMA DualDcaInductive ==
  Spec => []IInv
<1>1. Init => IInv
  BY DualDcaInit
<1>2. IInv /\ [Next]_vars => IInv'
  <2> SUFFICES ASSUME IInv, [Next]_vars PROVE IInv'
    OBVIOUS
  <2>1. CASE UNCHANGED vars
    <3>1. UNCHANGED <<legVars, exVars, fresh>> /\ UNCHANGED <<jobVars, run, tickVars>>
      BY <2>1 DEF vars
    <3>2. DataInv'
      BY <3>1, DataUnchanged DEF IInv
    <3> QED
      BY <3>1, <3>2 DEF IInv, TypeOK, HandInv, FillsInv, jobVars, legVars, tickVars, exVars
  <2>2. CASE Tick
    BY <2>2, QuietKeeps, StandDownKeeps, EnterKeeps, CheckLegKeeps, PlaceKeeps, RecordKeeps
       DEF Tick
  <2>3. CASE Faulty \/ TimePasses \/ StopRun
    BY <2>3, QuietKeeps, PlaceKeeps DEF Faulty
  <2>4. CASE \E e \in ExIds : ExchangeMoves(e)
    BY <2>4, ExchangeKeeps
  <2> QED
    BY <2>1, <2>2, <2>3, <2>4 DEF Next
<1> QED
  BY <1>1, <1>2, PTL DEF Spec

---------------------------------------------------------------------------
\* The job, its legs and its tick keep their types, whatever fails.
THEOREM DualDcaTypes == Spec => []TypeOK
<1>1. IInv => TypeOK
  BY DEF IInv
<1> QED
  BY <1>1, DualDcaInductive, PTL

\* Status and order id of a leg agree through upserts, cancels, retries and
\* interrupted ticks.
THEOREM DualDcaIds == Spec => []SubmittedNamesOrder
<1>1. IInv => SubmittedNamesOrder
  BY DEF IInv, DataInv
<1> QED
  BY <1>1, DualDcaInductive, PTL

\* No leg is closed as filled without a match on the exchange.
THEOREM DualDcaFills == Spec => []FilledIsMatched
<1>1. IInv => FilledIsMatched
  BY DEF IInv, DataInv
<1> QED
  BY <1>1, DualDcaInductive, PTL

\* Within a visit to a market no level is bought twice by recorded orders.
THEOREM DualDcaBoughtOnce == Spec => []BoughtOncePerVisit
<1>1. IInv => BoughtOncePerVisit
  BY DEF IInv, DataInv
<1> QED
  BY <1>1, DualDcaInductive, PTL
=============================================================================
