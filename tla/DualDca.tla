------------------------------ MODULE DualDca ------------------------------
(***************************************************************************)
(* One dual-DCA job: the loop that ticks it inside the runner, its legs    *)
(* (rows of trade_flow_dual_dca_legs, one per market, outcome and level),  *)
(* the CLOB its orders rest on, and the actors that stop its flow.         *)
(*                                                                         *)
(* A tick is a sequence of database and exchange calls; an Err or a crash  *)
(* may end it after any of them.  Which market is live, and whether a      *)
(* trigger, the risk gate, the cutoff or the profit target says yes, is a  *)
(* choice.  Jobs of one listing are processed one after the other and      *)
(* share no rows, so one job is enough.  The job and its run exist: the    *)
(* foreign key of the job deletes it with its run.                         *)
(***************************************************************************)
EXTENDS Naturals

CONSTANTS
  Markets, Outcomes,  \* market slugs, outcome labels of the job's side_mode
  Levels,             \* dca_levels
  ExIds,              \* exchange order ids (the bound on placements)
  MaxErrors,          \* FLOW_DUAL_DCA_MAX_CONSECUTIVE_ERRORS
  Faults,             \* subset of {"error", "crash", "lost_ack"}
  NoMarket, NoEx, NoLeg

Legs == Markets \X Outcomes \X (0 .. Levels - 1)
LegsOf(m) == {l \in Legs : l[1] = m}

ASSUME DualDcaAssumption ==
  /\ Levels \in Nat \ {0}
  /\ MaxErrors \in Nat \ {0}
  /\ NoMarket \notin Markets
  /\ NoEx \notin ExIds
  /\ NoLeg \notin Legs

VARIABLES
  job, errors, slug,     \* columns status, consecutive_errors, last_market_slug
  due,                   \* next_check_at <= NOW()
  run,                   \* status of the flow run
  leg, oid,              \* columns status, active_exchange_order_id of the legs
  pc, mkt, todo,         \* the tick: step, selected market, what its loop has left
  hand, placed, ack,     \* leg, exchange order and answer of an order just placed
  exSt, exLeg,           \* the exchange: state of an order, the leg it is for
  fresh                  \* history: recorded orders of the present visit to their market

jobVars == <<job, errors, slug, due>>
legVars == <<leg, oid>>
tickVars == <<pc, mkt, todo, hand, placed, ack>>
exVars == <<exSt, exLeg>>
vars == <<jobVars, run, legVars, tickVars, exVars, fresh>>

JobStatuses == {"active", "paused", "completed", "canceled"}
LegStatuses == {"none", "pending", "submitted", "filled", "canceled"}
Pcs == {"idle", "listed", "complete", "pause", "market", "standdown", "entered", "fills",
        "orders", "placed", "filled", "done"}

Init ==
  /\ job = "active" /\ errors = 0 /\ slug = NoMarket /\ due = TRUE
  /\ run = "running"
  /\ leg = [l \in Legs |-> "none"]
  /\ oid = [l \in Legs |-> NoEx]
  /\ pc = "idle" /\ mkt = NoMarket /\ todo = {}
  /\ hand = NoLeg /\ placed = NoEx /\ ack = "none"
  /\ exSt = [e \in ExIds |-> "none"]
  /\ exLeg = [e \in ExIds |-> NoLeg]
  /\ fresh = {}

---------------------------------------------------------------------------
(* Canceling legs.  The UPDATE of cancel_dual_dca_active_legs clears the   *)
(* order id in the statement whose RETURNING clause is to report it, and   *)
(* RETURNING sees the row after the update.                                *)

Cancelable(S) == {l \in S : leg[l] \in {"pending", "submitted"}}
ClearIds(S) == [l \in Legs |-> IF l \in Cancelable(S) THEN NoEx ELSE oid[l]]
ReturnedIds(S) == {ClearIds(S)[l] : l \in Cancelable(S)} \ {NoEx}

\* client.cancel for every id returned; a cancel that fails is only logged.
CancelOrders(ids) ==
  \E refused \in IF Faults = {} THEN {{}} ELSE SUBSET ids :
    exSt' = [e \in ExIds |-> IF e \in ids \ refused /\ exSt[e] = "live"
                             THEN "canceled" ELSE exSt[e]]

CancelActiveOrders(S) ==
  /\ leg' = [l \in Legs |-> IF l \in Cancelable(S) THEN "canceled" ELSE leg[l]]
  /\ oid' = ClearIds(S)
  /\ CancelOrders(ReturnedIds(S))
  /\ UNCHANGED exLeg

---------------------------------------------------------------------------
(* The tick.                                                               *)

\* The tick is over: its local variables are gone.
EndTick ==
  /\ pc' = "idle" /\ mkt' = NoMarket /\ todo' = {}
  /\ hand' = NoLeg /\ placed' = NoEx /\ ack' = "none"

Goto(s) == pc' = s /\ UNCHANGED <<mkt, todo, hand, placed, ack>>

\* The order in hand has been dealt with.
NextOutcome == pc' = "orders" /\ hand' = NoLeg /\ placed' = NoEx /\ ack' = "none"

UpdateMarketState(m) == slug' = m /\ errors' = 0 /\ due' = FALSE

List ==
  /\ pc = "idle" /\ job = "active" /\ due
  /\ Goto("listed")
  /\ UNCHANGED <<jobVars, run, legVars, exVars, fresh>>

\* The job is given up: its legs first, its status after them.
GiveUp ==
  /\ pc = "listed"
  /\ run # "running" \/ errors >= MaxErrors
  /\ CancelActiveOrders(Legs)
  /\ Goto(IF run # "running" THEN "complete" ELSE "pause")
  /\ UNCHANGED <<jobVars, run, fresh>>

\* Mutant: the job that has failed too often is not paused.
CloseStoppedOnly ==
  /\ pc \in {"complete", "pause"}
  /\ job' = IF pc = "complete" THEN "completed" ELSE job
  /\ Goto("done")
  /\ UNCHANGED <<errors, slug, due, run, legVars, exVars, fresh>>

Close ==
  /\ pc \in {"complete", "pause"}
  /\ job' = IF pc = "complete" THEN "completed" ELSE "paused"
  /\ Goto("done")
  /\ UNCHANGED <<errors, slug, due, run, legVars, exVars, fresh>>

\* consecutive_errors + 1; beyond MaxErrors no test tells the values apart.
ScheduleRetry ==
  /\ errors' = IF errors < MaxErrors THEN errors + 1 ELSE errors
  /\ due' = FALSE

Discovering == pc = "listed" /\ run = "running" /\ errors < MaxErrors

DiscoveryFails ==
  /\ Discovering
  /\ ScheduleRetry
  /\ Goto("done")
  /\ UNCHANGED <<job, slug, run, legVars, exVars, fresh>>

NoMarketFound ==
  /\ Discovering
  /\ UpdateMarketState(NoMarket)
  /\ Goto("done")
  /\ UNCHANGED <<job, run, legVars, exVars, fresh>>

Select(m) ==
  /\ Discovering
  /\ pc' = "market" /\ mkt' = m
  /\ UNCHANGED <<jobVars, run, legVars, todo, hand, placed, ack, exVars, fresh>>

\* Profit target, loss limit or cutoff: nothing more in this market.
StandDown ==
  /\ pc = "market"
  /\ CancelActiveOrders(LegsOf(mkt))
  /\ Goto("standdown")
  /\ UNCHANGED <<jobVars, run, fresh>>

EndStandDown ==
  /\ pc = "standdown"
  /\ UpdateMarketState(mkt)
  /\ Goto("done")
  /\ UNCHANGED <<job, run, legVars, exVars, fresh>>

\* A market other than the last one: every active leg is canceled, then a
\* leg is upserted for each level of each outcome that the size minimum and
\* the risk gate allow (S; those before an Err, when the tick ends in one).
\* The upsert sets the status and leaves the order id.
EnterMarket(S) ==
  /\ pc = "market" /\ slug # mkt /\ S \subseteq LegsOf(mkt)
  /\ leg' = [l \in Legs |-> IF l \in S THEN "pending"
                            ELSE IF l \in Cancelable(Legs) THEN "canceled"
                            ELSE leg[l]]
  /\ oid' = ClearIds(Legs)
  /\ CancelOrders(ReturnedIds(Legs))
  /\ fresh' = {e \in fresh : exLeg[e] \notin LegsOf(mkt)}
  /\ Goto("entered")
  /\ UNCHANGED <<jobVars, run, exLeg>>

\* The legs whose orders list_dual_dca_legs_with_active_orders reports.
ActiveLegs(m) == {l \in LegsOf(m) : leg[l] = "submitted" /\ oid[l] # NoEx}

CheckFills ==
  /\ \/ pc = "entered" /\ UpdateMarketState(mkt)
     \/ pc = "market" /\ slug = mkt /\ UNCHANGED <<slug, errors, due>>
  /\ pc' = "fills" /\ todo' = ActiveLegs(mkt)
  /\ UNCHANGED <<job, run, legVars, mkt, hand, placed, ack, exVars, fresh>>

\* Mutant: every order that is no longer live counts as filled.
CheckLegDeadIsFill(l) ==
  /\ pc = "fills" /\ l \in todo
  /\ IF exSt[oid[l]] \in {"filled", "canceled"}
     THEN /\ leg' = [leg EXCEPT ![l] = "filled"]
          /\ oid' = [oid EXCEPT ![l] = NoEx]
     ELSE UNCHANGED legVars
  /\ todo' = todo \ {l}
  /\ UNCHANGED <<jobVars, run, pc, mkt, hand, placed, ack, exVars, fresh>>

\* client.status: a fill closes the leg, a dead order reopens it, whatever
\* part of it was matched.
CheckLeg(l) ==
  /\ pc = "fills" /\ l \in todo
  /\ \/ /\ exSt[oid[l]] = "filled"
        /\ leg' = [leg EXCEPT ![l] = "filled"]
        /\ oid' = [oid EXCEPT ![l] = NoEx]
     \/ /\ exSt[oid[l]] = "canceled"
        /\ leg' = [leg EXCEPT ![l] = "pending"]
        /\ oid' = [oid EXCEPT ![l] = NoEx]
     \/ exSt[oid[l]] = "live" /\ UNCHANGED legVars
  /\ todo' = todo \ {l}
  /\ UNCHANGED <<jobVars, run, pc, mkt, hand, placed, ack, exVars, fresh>>

\* Mutant: an order whose status cannot be read is taken for dead.
StatusFailsReopens(l) ==
  /\ pc = "fills" /\ l \in todo
  /\ leg' = [leg EXCEPT ![l] = "pending"]
  /\ oid' = [oid EXCEPT ![l] = NoEx]
  /\ todo' = todo \ {l}
  /\ UNCHANGED <<jobVars, run, pc, mkt, hand, placed, ack, exVars, fresh>>

StatusFails(l) ==
  /\ pc = "fills" /\ l \in todo
  /\ todo' = todo \ {l}
  /\ UNCHANGED <<jobVars, run, legVars, pc, mkt, hand, placed, ack, exVars, fresh>>

CheckTriggers ==
  /\ pc = "fills" /\ todo = {}
  /\ pc' = "orders" /\ todo' = Outcomes
  /\ UNCHANGED <<jobVars, run, legVars, mkt, hand, placed, ack, exVars, fresh>>

\* No pending leg, its trigger not crossed, or the risk gate says no.
Skip(o) ==
  /\ pc = "orders" /\ o \in todo
  /\ todo' = todo \ {o}
  /\ UNCHANGED <<jobVars, run, legVars, pc, mkt, hand, placed, ack, exVars, fresh>>

\* next_pending_dual_dca_leg
NextPending(o) ==
  {l \in LegsOf(mkt) :
     /\ l[2] = o /\ leg[l] = "pending"
     /\ \A k \in LegsOf(mkt) : k[2] = o /\ leg[k] = "pending" => l[3] <= k[3]}

\* The exchange takes the order: it rests, is matched or dies at once.
Accept(e, l, st) ==
  /\ exSt[e] = "none"
  /\ exSt' = [exSt EXCEPT ![e] = st]
  /\ exLeg' = [exLeg EXCEPT ![e] = l]

AckOf(st) == CASE st = "live" -> {"open"}
               [] st = "filled" -> {"filled", "open"}
               [] st = "canceled" -> {"canceled", "rejected"}

Place(o) ==
  /\ pc = "orders" /\ o \in todo
  /\ \E l \in NextPending(o), e \in ExIds, st \in {"live", "filled", "canceled"} :
       /\ Accept(e, l, st)
       /\ hand' = l /\ placed' = e
       /\ ack' \in AckOf(st)
  /\ pc' = "placed" /\ todo' = todo \ {o}
  /\ UNCHANGED <<jobVars, run, legVars, mkt, fresh>>

\* Mutant: the id of the order is not stored.
RecordStatusOnly ==
  /\ pc = "placed"
  /\ leg' = [leg EXCEPT ![hand] = "submitted"]
  /\ fresh' = fresh \cup {placed}
  /\ IF ack = "filled" THEN Goto("filled") ELSE NextOutcome /\ UNCHANGED <<mkt, todo>>
  /\ UNCHANGED <<jobVars, run, oid, exVars>>

\* set_dual_dca_leg_submitted, except for a rejected order: its leg stays
\* pending.
RecordAck ==
  /\ pc = "placed"
  /\ IF ack = "rejected" THEN UNCHANGED <<legVars, fresh>>
     ELSE /\ leg' = [leg EXCEPT ![hand] = "submitted"]
          /\ oid' = [oid EXCEPT ![hand] = placed]
          /\ fresh' = fresh \cup {placed}
  /\ IF ack = "filled" THEN Goto("filled") ELSE NextOutcome /\ UNCHANGED <<mkt, todo>>
  /\ UNCHANGED <<jobVars, run, exVars>>

\* set_dual_dca_leg_filled for an order that was matched at once.
RecordFill ==
  /\ pc = "filled"
  /\ leg' = [leg EXCEPT ![hand] = "filled"]
  /\ oid' = [oid EXCEPT ![hand] = NoEx]
  /\ NextOutcome
  /\ UNCHANGED <<jobVars, run, mkt, todo, exVars, fresh>>

Finish ==
  /\ pc = "orders" /\ todo = {}
  /\ UpdateMarketState(mkt)
  /\ EndTick
  /\ UNCHANGED <<job, run, legVars, exVars, fresh>>

\* The last event is appended.
Return ==
  /\ pc = "done"
  /\ EndTick
  /\ UNCHANGED <<jobVars, run, legVars, exVars, fresh>>

\* An Err anywhere in the tick schedules a retry.
Fail ==
  /\ "error" \in Faults /\ pc # "idle"
  /\ ScheduleRetry
  /\ EndTick
  /\ UNCHANGED <<job, slug, run, legVars, exVars, fresh>>

\* place answers Err although the exchange took the order.
PlaceAnswerLost(o) ==
  /\ "lost_ack" \in Faults
  /\ pc = "orders" /\ o \in todo
  /\ \E l \in NextPending(o), e \in ExIds : Accept(e, l, "live")
  /\ ScheduleRetry
  /\ EndTick
  /\ UNCHANGED <<job, slug, run, legVars, fresh>>

\* The runner dies, or the retry cannot be scheduled either.
Crash ==
  /\ "crash" \in Faults /\ pc # "idle"
  /\ EndTick
  /\ UNCHANGED <<jobVars, run, legVars, exVars, fresh>>

---------------------------------------------------------------------------
(* The world around the job.                                               *)

TimePasses ==
  /\ pc = "idle" /\ ~due
  /\ due' = TRUE
  /\ UNCHANGED <<job, errors, slug, run, legVars, tickVars, exVars, fresh>>

\* The run ends: the runner cancels it (the job finds out at its next tick),
\* or the user stops the flow, which also cancels the job.
StopRun ==
  /\ run = "running"
  /\ run' = "canceled"
  /\ \/ UNCHANGED job
     \/ job' = IF job \in {"active", "paused"} THEN "canceled" ELSE job
  /\ UNCHANGED <<errors, slug, due, legVars, tickVars, exVars, fresh>>

ExchangeMoves(e) ==
  /\ exSt[e] = "live"
  /\ exSt' \in {[exSt EXCEPT ![e] = s] : s \in {"filled", "canceled"}}
  /\ UNCHANGED <<jobVars, run, legVars, tickVars, exLeg, fresh>>

Tick ==
  \/ List \/ GiveUp \/ Close \/ DiscoveryFails \/ NoMarketFound
  \/ \E m \in Markets : Select(m)
  \/ StandDown \/ EndStandDown
  \/ \E S \in SUBSET LegsOf(mkt) : EnterMarket(S)
  \/ CheckFills \/ CheckTriggers
  \/ \E l \in Legs : CheckLeg(l) \/ StatusFails(l)
  \/ \E o \in Outcomes : Skip(o) \/ Place(o)
  \/ RecordAck \/ RecordFill \/ Finish \/ Return

Faulty == (\E o \in Outcomes : PlaceAnswerLost(o)) \/ Fail \/ Crash

Next == Tick \/ Faulty \/ TimePasses \/ StopRun \/ \E e \in ExIds : ExchangeMoves(e)

Spec == Init /\ [][Next]_vars

\* The runner's loop keeps ticking, the clock keeps running, and errors and
\* crashes do not hit the end of a job for ever.
FairSpec ==
  Spec /\ WF_vars(Tick) /\ WF_vars(TimePasses) /\ SF_vars(GiveUp) /\ SF_vars(Close)

---------------------------------------------------------------------------
(* Properties.                                                             *)

TypeOK ==
  /\ job \in JobStatuses /\ errors \in 0 .. MaxErrors
  /\ slug \in Markets \cup {NoMarket} /\ due \in BOOLEAN
  /\ run \in {"running", "canceled"}
  /\ leg \in [Legs -> LegStatuses]
  /\ oid \in [Legs -> ExIds \cup {NoEx}]
  /\ pc \in Pcs /\ mkt \in Markets \cup {NoMarket}
  /\ todo \subseteq Legs \cup Outcomes
  /\ hand \in Legs \cup {NoLeg} /\ placed \in ExIds \cup {NoEx}
  /\ ack \in {"none", "open", "filled", "canceled", "rejected"}
  /\ exSt \in [ExIds -> {"none", "live", "filled", "canceled"}]
  /\ exLeg \in [ExIds -> Legs \cup {NoLeg}]
  /\ fresh \subseteq ExIds

\* The order id column and the status column of a leg agree: exactly the
\* submitted legs name an order, and it is an order that was placed for them.
\* The upsert of a leg resets only its status, so this needs the cancel that
\* every entry of a market begins with.
SubmittedNamesOrder ==
  \A l \in Legs : /\ leg[l] = "submitted" <=> oid[l] # NoEx
                  /\ oid[l] # NoEx => exLeg[oid[l]] = l

\* A leg that is marked filled was matched on the exchange.
FilledIsMatched ==
  \A l \in Legs : leg[l] = "filled" =>
    \E e \in ExIds : exLeg[e] = l /\ exSt[e] = "filled"

\* Within one visit to a market no leg has two recorded orders that buy: of
\* any two, one is dead.  The retry of a dead order, the refused cancels and
\* the ticks cut short by an Err or a crash all have to respect it.
BoughtOncePerVisit ==
  \A e, f \in fresh : e # f /\ exLeg[e] = exLeg[f]
                      => "canceled" \in {exSt[e], exSt[f]}

\* A job whose run has ended, or that has failed too often, is given up.
GivesUp == (run # "running" \/ errors >= MaxErrors) ~> (job # "active")

\* cancel_dual_dca_active_legs: "Returns (leg_id, exchange_order_id) for legs
\* that had active CLOB orders", for its caller to cancel them.  With no
\* refused cancel, no order of a canceled leg stays live.
CanceledLegHasNoOrder ==
  \A e \in ExIds : exSt[e] = "live" => leg[exLeg[e]] # "canceled"
=============================================================================
