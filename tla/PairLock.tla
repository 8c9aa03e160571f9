------------------------------ MODULE PairLock ------------------------------
(***************************************************************************)
(* One pair-lock session of the trade builder: a primary buy, a counter    *)
(* buy that may only be sent once the primary has filled, the session row  *)
(* that ties the two, the sells that unwind what is not hedged and the     *)
(* stop losses of the legs.                                                *)
(*                                                                         *)
(* The flow step that creates the pair, one task per candidate order, the  *)
(* sells and the exchange run concurrently.  A task works on the copy of   *)
(* its row it read when it started: the session id in that copy decides    *)
(* whether its fill reaches the session at all.                            *)
(*                                                                         *)
(* The exchange takes its fee out of the bought shares: an order's fill    *)
(* and its row are gross, what the wallet holds and what the session       *)
(* records are net, and the parent position is gross until the wallet's    *)
(* inventory is first seen.                                                *)
(*                                                                         *)
(* conf, chosen in Init, is the node's configuration: auto                 *)
(* (auto_remaining_budget sizing, else manual), conditional (the counter   *)
(* has a trigger price), protective, ignoreSl, waitEnd (no orphan grace in *)
(* an up/down market), sl; and faults, what may go wrong.                  *)
(***************************************************************************)
EXTENDS Naturals

CONSTANTS
  Configs,   \* the configurations Init chooses from
  MaxQty     \* bound on the quantity one order buys

ASSUME PairLockAssumption ==
  /\ MaxQty \in Nat
  /\ \A c \in Configs : c.auto \in BOOLEAN

VARIABLES conf,
          creator,   \* program counter of the flow step
          row,       \* the candidate orders' rows
          held,      \* what the wallet holds of each token
          pos,       \* trade_builder_parent_positions
          ex,        \* the exchange's order of each candidate
          task,      \* the task of each candidate order
          session,   \* trade_builder_pair_sessions
          unwind,    \* the orphan_unwind_sell orders of each leg
          sl         \* status of each leg's stop-loss child

vars == <<conf, creator, row, held, pos, ex, task, session, unwind, sl>>

Legs == {"primary", "counter"}
Slots == 1..2                   \* bound on the unwind orders of one leg
NoLeg == "no_leg"

Terminal == {"completed", "canceled", "expired", "canceled_requested"}
Processable == {"pending", "armed", "open", "canceled_requested",
                "guard_blocked", "inventory_pending"}
RowStatuses == Terminal \cup Processable \cup {"none", "blocked", "error"}
Closed == {"completed", "expired", "error"}
SellStatuses == {"none", "armed", "triggered", "open", "canceled_requested",
                 "canceled", "completed"}

\* size: what an order was created with; shares that hedge the lead; the
\* whole remaining budget in USDC, with no bound on the shares.
Sizes == {"initial", "hedge", "budget"}
\* What a lead's fill leaves for its counter: money and a price below the
\* pair's target; money, but the lead alone reaches the target; no money.
Rests == {"capped", "uncapped", "spent"}

NoRow == [status |-> "none", sess |-> FALSE, active |-> FALSE, filled |-> 0,
          size |-> "initial"]
NoTask == [pc |-> "idle", sess |-> FALSE, status |-> "none", active |-> FALSE,
           listed |-> {}]
NoSession == [status |-> "none", lead |-> NoLeg,
              fill |-> [l \in Legs |-> 0], locked |-> 0,
              elapsed |-> FALSE, rest |-> "capped"]
NoPosition == [qty |-> 0, from |-> "none", sold |-> FALSE]
NoOrder == [st |-> "none", qty |-> 0, fee |-> 0, topped |-> FALSE]
NoSell == [status |-> "none", qty |-> 0, gross |-> FALSE]

Init ==
  /\ conf \in Configs
  /\ creator = "primary"
  /\ row = [l \in Legs |-> NoRow]
  /\ held = [l \in Legs |-> 0]
  /\ pos = [l \in Legs |-> NoPosition]
  /\ ex = [l \in Legs |-> NoOrder]
  /\ task = [l \in Legs |-> NoTask]
  /\ session = NoSession
  /\ unwind = [l \in Legs |-> [k \in Slots |-> NoSell]]
  /\ sl = [l \in Legs |-> "none"]

Other(l) == IF l = "primary" THEN "counter" ELSE "primary"
Least(a, b) == IF a < b THEN a ELSE b
Less(a, b) == IF a > b THEN a - b ELSE 0
NetFill(l) == ex[l].qty - ex[l].fee
CanceledStatus(active) == IF active THEN "canceled_requested" ELSE "canceled"

---------------------------------------------------------------------------
(* execute_action_place_order_pair_lock: the flow step                     *)

CreatePrimary ==
  /\ creator = "primary"
  /\ row' = [row EXCEPT !["primary"].status = "pending"]
  /\ creator' = "counter"
  /\ UNCHANGED <<conf, held, pos, ex, task, session, unwind, sl>>

\* The counter is created 'blocked': nothing processes it yet.
CreateCounter ==
  /\ creator = "counter"
  /\ row' = [row EXCEPT !["counter"].status = "blocked"]
  /\ creator' = "session"
  /\ UNCHANGED <<conf, held, pos, ex, task, session, unwind, sl>>

\* cancel_pair_lock_order_if_created: the primary's row is set canceled
\* whatever it did in the meantime.
CreateCounterFails ==
  /\ creator = "counter" /\ "error" \in conf.faults
  /\ row' = [row EXCEPT !["primary"].status = "canceled"]
  /\ creator' = "done"
  /\ UNCHANGED <<conf, held, pos, ex, task, session, unwind, sl>>

\* create_trade_builder_pair_session and
\* attach_trade_builder_pair_session_orders: no order names the session yet.
CreateSession ==
  /\ creator = "session"
  /\ session' = [session EXCEPT !.status = "working"]
  /\ creator' = "attach_primary"
  /\ UNCHANGED <<conf, row, held, pos, ex, task, unwind, sl>>

AttachPc(l) == IF l = "primary" THEN "attach_primary" ELSE "attach_counter"

\* Mutant: the counter is released before it is attached.
ReleaseThenAttach(l) ==
  /\ creator = AttachPc(l)
  /\ row' = IF l = "primary"
            THEN [row EXCEPT !["primary"].sess = TRUE, !["counter"].status = "pending"]
            ELSE [row EXCEPT !["counter"].sess = TRUE]
  /\ creator' = IF l = "primary" THEN "attach_counter" ELSE "hold"
  /\ UNCHANGED <<conf, held, pos, ex, task, session, unwind, sl>>

AttachOrder(l) ==
  /\ creator = AttachPc(l)
  /\ row' = [row EXCEPT ![l].sess = TRUE]
  /\ creator' = IF l = "primary" THEN "attach_counter" ELSE "hold"
  /\ UNCHANGED <<conf, held, pos, ex, task, session, unwind, sl>>

HoldCounter ==
  /\ creator = "hold"
  /\ row' = [row EXCEPT !["counter"].status = "inventory_pending"]
  /\ creator' = "done"
  /\ UNCHANGED <<conf, held, pos, ex, task, session, unwind, sl>>

---------------------------------------------------------------------------
(* Unwinding                                                               *)

\* list_trade_builder_orders_by_pair_session
Listed(r) == {l \in Legs : r[l].sess}

\* A listed candidate that is neither finished nor filled is canceled.
Cancelable(r) == r.status \notin Terminal \cup {"none"} /\ r.filled = 0

CancelCandidates(r, legs) ==
  [l \in Legs |-> IF l \in legs /\ Cancelable(r[l])
                  THEN [r[l] EXCEPT !.status = CanceledStatus(r[l].active)]
                  ELSE r[l]]

\* What a leg is taken to hold: its position, or its net fill without one.
CurrentQty(l) == IF pos[l].from # "none" THEN pos[l].qty
                 ELSE IF row[l].filled > 0 THEN NetFill(l) ELSE 0

\* Mutant: the locked quantity is unwound too.
SellsAll(legs, keep) == [l \in Legs |-> IF l \in legs THEN CurrentQty(l) ELSE 0]

\* create_trade_builder_pair_unwind_order: what each leg has to sell.
UnwindQty(legs, keep) ==
  [l \in Legs |-> IF l \in legs THEN Less(CurrentQty(l), keep) ELSE 0]

FreeSlots(l) == {k \in Slots : unwind[l][k].status = "none"}

\* schedule_trade_builder_pair_session_unwind of the listed legs, over rows
\* r: an 'immediate' sell for every leg that holds more than it keeps.
ScheduleUnwind(r, legs, next, keep) ==
  LET qty == UnwindQty(legs, keep)
  IN /\ \A l \in Legs : qty[l] > 0 => FreeSlots(l) # {}
     /\ row' = CancelCandidates(r, legs)
     /\ unwind' =
          [l \in Legs |->
             [k \in Slots |->
                IF qty[l] > 0 /\ k \in FreeSlots(l) /\ \A j \in FreeSlots(l) : k <= j
                THEN [status |-> "triggered", qty |-> qty[l],
                      gross |-> pos[l].from = "fill"]
                ELSE unwind[l][k]]]
     /\ session' = [session EXCEPT !.status = next]

\* The lead is given up: everything it holds is sold.
UnwindLead(r) == ScheduleUnwind(r, Listed(r), "unwinding", 0)

\* maybe_abort_trade_builder_pair_session_for_terminal_order, on rows r.
AbortForTerminal(l, r) ==
  IF task[l].sess /\ session.status = "working" /\ session.lead # NoLeg
  THEN IF conf.protective THEN UnwindLead(r)
       ELSE /\ session' = [session EXCEPT !.status = "expired"]
            /\ row' = r
            /\ UNCHANGED unwind
  ELSE /\ row' = r
       /\ UNCHANGED <<session, unwind>>

---------------------------------------------------------------------------
(* process_trade_builder_order of a candidate                              *)

Goto(l, pc) == task' = [task EXCEPT ![l].pc = pc]
EndTask(l) == task' = [task EXCEPT ![l] = NoTask]

\* The row is read once; the session id and the status in this copy are
\* what the rest of the task goes by.
ReadRow(l) ==
  /\ task[l].pc = "idle" /\ row[l].status \in Processable
  /\ task' = [task EXCEPT ![l] = [pc |-> "read", sess |-> row[l].sess,
                                  status |-> row[l].status,
                                  active |-> row[l].active, listed |-> {}]]
  /\ UNCHANGED <<conf, creator, row, held, pos, ex, session, unwind, sl>>

\* expires_at, the eligibility window or a stale market cycle: only the
\* first applies to a row with an order on the exchange, which it forgets.
Expire(l) ==
  /\ task[l].pc = "read" /\ "expiry" \in conf.faults
  /\ AbortForTerminal(l, [row EXCEPT ![l].status = "expired", ![l].active = FALSE])
  /\ EndTask(l)
  /\ UNCHANGED <<conf, creator, held, pos, ex, sl>>

\* pair_lock_primary_done_without_lead_fill
PrimaryDone ==
  row["primary"].filled = 0 /\ row["primary"].status \in Terminal \cup {"error"}

WaitsForLead(l) ==
  l = "counter" /\ session.status = "working" /\ session.lead = NoLeg

\* Mutant: an auto-sized counter keeps the size it was created with.
NeverRebased(l) == FALSE

\* pair_lock_auto_counter_needs_rebase
NeedsRebase(l) ==
  /\ task[l].status \in {"pending", "armed", "guard_blocked", "inventory_pending"}
  /\ ~task[l].active /\ row[l].size = "initial"

AutoCounter(l) == l = "counter" /\ conf.auto

\* pair_lock_counter_waits_until_market_end
WaitsUntilMarketEnd == conf.auto /\ conf.waitEnd


GraceOver(l) ==
  /\ session.status = "working" /\ session.lead \notin {NoLeg, l}
  /\ conf.protective /\ ~WaitsUntilMarketEnd /\ session.elapsed

Checked(l) == task[l].pc = "read"
InSession(l) == Checked(l) /\ task[l].sess /\ session.status \notin Closed

\* maybe_apply_trade_builder_pair_lock_runtime: a closed session cancels the
\* row, whatever is on the exchange.
RuntimeClosed(l) ==
  /\ Checked(l) /\ task[l].sess /\ session.status \in Closed
  /\ row' = [row EXCEPT ![l].status = "canceled"]
  /\ EndTask(l)
  /\ UNCHANGED <<conf, creator, held, pos, ex, session, unwind, sl>>

\* maybe_hold_trade_builder_pair_lock_counter_until_lead
RuntimeHold(l) ==
  /\ InSession(l) /\ WaitsForLead(l)
  /\ row' = [row EXCEPT ![l].status = IF PrimaryDone THEN "canceled"
                                      ELSE "inventory_pending"]
  /\ session' = IF PrimaryDone THEN [session EXCEPT !.status = "error"] ELSE session
  /\ EndTask(l)
  /\ UNCHANGED <<conf, creator, held, pos, ex, unwind, sl>>

\* resolve_pair_lock_auto_counter_rebalance: without a price cap the counter
\* gets the whole remaining budget, whatever the lead holds.
RebasedSize == IF session.rest = "uncapped" THEN "budget" ELSE "hedge"

\* maybe_prepare_trade_builder_pair_lock_auto_counter: the budget is spent,
\* or the row is resized and set pending.
RuntimeAuto(l) ==
  /\ InSession(l) /\ ~WaitsForLead(l) /\ AutoCounter(l)
  /\ \/ /\ session.rest = "spent" /\ conf.protective
        /\ UnwindLead(row)
     \/ /\ session.rest = "spent" /\ ~conf.protective
        /\ session' = [session EXCEPT !.status = "expired"]
        /\ row' = [row EXCEPT ![l].status = "canceled"]
        /\ UNCHANGED unwind
     \/ /\ session.rest # "spent" /\ NeedsRebase(l)
        /\ row' = [row EXCEPT ![l].status = "pending", ![l].size = RebasedSize]
        /\ UNCHANGED <<session, unwind>>
  /\ EndTask(l)
  /\ UNCHANGED <<conf, creator, held, pos, ex, sl>>

PassesAuto(l) == AutoCounter(l) => session.rest # "spent" /\ ~NeedsRebase(l)

\* The orphan grace is over: unwind the lead.
RuntimeGrace(l) ==
  /\ InSession(l) /\ ~WaitsForLead(l) /\ PassesAuto(l) /\ GraceOver(l)
  /\ UnwindLead(row)
  /\ EndTask(l)
  /\ UNCHANGED <<conf, creator, held, pos, ex, sl>>

RuntimePass(l) ==
  /\ Checked(l)
  /\ task[l].sess =>
       /\ session.status \notin Closed
       /\ ~WaitsForLead(l) /\ PassesAuto(l) /\ ~GraceOver(l)
  /\ Goto(l, "go")
  /\ UNCHANGED <<conf, creator, row, held, pos, ex, session, unwind, sl>>

---------------------------------------------------------------------------
(* Trigger, submit and reconcile                                           *)

\* A cancel request: what the exchange matched before the cancel is not
\* looked at.
CancelRequested(l) ==
  /\ task[l].pc = "go" /\ task[l].status = "canceled_requested"
  /\ row' = [row EXCEPT ![l].status = "canceled", ![l].active = FALSE]
  /\ ex' = [ex EXCEPT ![l].st = IF task[l].active /\ @ = "live" THEN "canceled" ELSE @]
  /\ EndTask(l)
  /\ UNCHANGED <<conf, creator, held, pos, session, unwind, sl>>

Conditional(l) == l = "counter" /\ conf.conditional

\* evaluate_trade_builder_order_trigger: an immediate order is only sent
\* from these statuses; a conditional one when the price is there.
MayTrigger(l) ==
  \/ Conditional(l)
  \/ task[l].status \in {"pending", "armed", "guard_blocked"}

Idle(l) == task[l].pc = "go" /\ ~task[l].active /\ task[l].status # "canceled_requested"

NotTriggered(l) ==
  /\ Idle(l)
  /\ Conditional(l) \/ ~MayTrigger(l)
  /\ row' = [row EXCEPT ![l].status = IF Conditional(l) THEN "armed" ELSE @]
  /\ EndTask(l)
  /\ UNCHANGED <<conf, creator, held, pos, ex, session, unwind, sl>>

\* trade_builder_pair_lock_counter_forces_guard_waiting, or the node's own
\* retry flags, which a pair without protective unwind always sets.
MustWait(l) == l = "counter" /\ ~conf.protective

\* A price or floor guard refuses the order: it waits, or it is over.  The
\* risk gate blocks it, or a buy in shares is below the exchange's minimum and
\* above its own limit: the row stops there and the pair is not told.
GuardBlocks(l) ==
  /\ Idle(l) /\ MayTrigger(l)
  /\ \/ /\ row' = [row EXCEPT ![l].status = "guard_blocked"]
        /\ UNCHANGED <<session, unwind>>
     \/ /\ ~MustWait(l)
        /\ AbortForTerminal(l, [row EXCEPT ![l].status = "canceled"])
     \/ /\ row' = [row EXCEPT ![l].status = "blocked"]
        /\ UNCHANGED <<session, unwind>>
     \/ /\ row[l].size # "budget"
        /\ row' = [row EXCEPT ![l].status = "error"]
        /\ UNCHANGED <<session, unwind>>
  /\ EndTask(l)
  /\ UNCHANGED <<conf, creator, held, pos, ex, sl>>

\* process_trade_builder_orders: whatever fails before a fill is found leaves
\* the row in 'error', also with an order on the exchange.
PassFails(l) ==
  /\ task[l].pc \in {"read", "go"} /\ "error" \in conf.faults
  /\ row' = [row EXCEPT ![l].status = "error"]
  /\ EndTask(l)
  /\ UNCHANGED <<conf, creator, held, pos, ex, session, unwind, sl>>

\* The order is on the exchange; the same task may already see it filled.  A
\* hedge worth less than the exchange's minimum is topped up to it.
Submit(l) ==
  /\ Idle(l) /\ MayTrigger(l) /\ ex[l].st \in {"none", "canceled"}
  /\ \E topped \in {FALSE, row[l].size = "hedge"} :
       ex' = [ex EXCEPT ![l].st = "live", ![l].topped = topped]
  /\ row' = [row EXCEPT ![l].status = "open", ![l].active = TRUE]
  /\ task' = [task EXCEPT ![l].active = TRUE, ![l].status = "open"]
  /\ UNCHANGED <<conf, creator, held, pos, session, unwind, sl>>

Working(l) == task[l].pc = "go" /\ task[l].active /\ task[l].status # "canceled_requested"

StillOpen(l) ==
  /\ Working(l) /\ ex[l].st = "live"
  /\ EndTask(l)
  /\ UNCHANGED <<conf, creator, row, held, pos, ex, session, unwind, sl>>

\* The price left the limit: the order is taken back unfilled.
TakeBack(l) ==
  /\ Working(l) /\ ex[l].st = "live"
  /\ ex' = [ex EXCEPT ![l].st = "canceled"]
  /\ IF MustWait(l)
     THEN /\ row' = [row EXCEPT ![l].status = "guard_blocked", ![l].active = FALSE]
          /\ UNCHANGED <<session, unwind>>
     ELSE AbortForTerminal(l, [row EXCEPT ![l].status = "canceled", ![l].active = FALSE])
  /\ EndTask(l)
  /\ UNCHANGED <<conf, creator, held, pos, sl>>

\* finalize_builder_fill writes three times.  The row gets the gross fill.
RecordRow(l) ==
  /\ Working(l) /\ ex[l].st = "filled"
  /\ row' = [row EXCEPT ![l].filled = ex[l].qty]
  /\ Goto(l, "position")
  /\ UNCHANGED <<conf, creator, held, pos, ex, session, unwind, sl>>

\* ensure_trade_builder_parent_position_from_parent_fill: gross, unless the
\* visible inventory was first.
RecordPosition(l) ==
  /\ task[l].pc = "position"
  /\ pos' = IF pos[l].from = "none"
            THEN [pos EXCEPT ![l] = [qty |-> row[l].filled, from |-> "fill",
                                     sold |-> FALSE]]
            ELSE pos
  /\ Goto(l, IF task[l].sess THEN "session" ELSE "finish")
  /\ UNCHANGED <<conf, creator, row, held, ex, session, unwind, sl>>

\* record_trade_builder_pair_session_fill, of the net quantity: the first
\* fill names the lead.
RecordSession(l) ==
  /\ task[l].pc = "session"
  /\ \E rest \in IF conf.auto THEN Rests ELSE {"capped"} :
       session' = [session EXCEPT !.fill[l] = NetFill(l),
                                  !.lead = IF @ = NoLeg THEN l ELSE @,
                                  !.rest = IF session.lead = NoLeg THEN rest ELSE @]
  /\ Goto(l, "recorded")
  /\ UNCHANGED <<conf, creator, row, held, pos, ex, unwind, sl>>

CommonQty == Least(session.fill["primary"], session.fill["counter"])

\* The session is read back; both tasks may see both fills.
ReadSession(l) ==
  /\ task[l].pc = "recorded"
  /\ Goto(l, IF session.status = "working" /\ CommonQty > 0 THEN "lock" ELSE "finish")
  /\ UNCHANGED <<conf, creator, row, held, pos, ex, session, unwind, sl>>

CanceledSl(st) == IF st = "open" THEN "canceled_requested"
                  ELSE IF st = "armed" THEN "canceled" ELSE st

\* The pair is locked, over the legs listed before.
LockPair(l) ==
  /\ task[l].pc = "lock"
  /\ session' = [session EXCEPT !.status = "locked", !.locked = CommonQty]
  /\ task' = [task EXCEPT ![l].pc = "residue", ![l].listed = Listed(row)]
  /\ UNCHANGED <<conf, creator, row, held, pos, ex, unwind, sl>>

\* The residue of the listed legs is unwound, which sets the session to
\* 'locked' again, and their stop losses are canceled when they are to be
\* ignored.
UnwindResidue(l) ==
  /\ task[l].pc = "residue"
  /\ ScheduleUnwind(row, task[l].listed, "locked", CommonQty)
  /\ sl' = IF conf.ignoreSl
           THEN [x \in Legs |-> IF x \in task[l].listed THEN CanceledSl(sl[x]) ELSE sl[x]]
           ELSE sl
  /\ Goto(l, "finish")
  /\ UNCHANGED <<conf, creator, held, pos, ex>>

\* trade_builder_pair_lock_stop_loss_surface_active
SurfaceActive(l) ==
  \/ ~task[l].sess
  \/ session.status = "working" /\ session.lead = l
  \/ session.status = "locked" /\ ~conf.ignoreSl

\* The rest of finalize_builder_fill: the row is completed and the
\* stop-loss child is created.
FinishFill(l) ==
  /\ task[l].pc = "finish"
  /\ row' = [row EXCEPT ![l].status = "completed", ![l].active = FALSE]
  /\ sl' = IF conf.sl /\ SurfaceActive(l) THEN [sl EXCEPT ![l] = "armed"] ELSE sl
  /\ EndTask(l)
  /\ UNCHANGED <<conf, creator, held, pos, ex, session, unwind>>

Filling == {"position", "session", "recorded", "lock", "residue", "finish"}

\* A write of finalize_builder_fill fails: the row is left in 'error', and the
\* writes after it never come.
FillFails(l) ==
  /\ task[l].pc \in Filling /\ "error" \in conf.faults
  /\ row' = [row EXCEPT ![l].status = "error"]
  /\ EndTask(l)
  /\ UNCHANGED <<conf, creator, held, pos, ex, session, unwind, sl>>

\* maybe_rebase_trade_builder_parent_position_from_first_visible_inventory:
\* what the wallet held when it was read replaces an untouched position.
Rebase(l) ==
  /\ row[l].filled > 0 /\ pos[l].from # "visible" /\ ~pos[l].sold
  /\ \E q \in {held[l], NetFill(l)} \ {0} :
       pos' = [pos EXCEPT ![l] = [qty |-> q, from |-> "visible", sold |-> FALSE]]
  /\ UNCHANGED <<conf, creator, row, held, ex, task, session, unwind, sl>>

---------------------------------------------------------------------------
(* The sells                                                               *)

UnwindPlace(l, k) ==
  /\ unwind[l][k].status = "triggered"
  /\ unwind' = [unwind EXCEPT ![l][k].status = "open"]
  /\ UNCHANGED <<conf, creator, row, held, pos, ex, task, session, sl>>

\* maybe_finalize_trade_builder_pair_lock_after_unwind_fill
AllFlat == \A l \in Legs : row[l].sess => pos[l].qty = 0

\* The unwind sell is 'immediate', so finalize_builder_fill does not take it
\* for a child exit and leaves the parent position as it is.
UnwindFill(l, k) ==
  /\ unwind[l][k].status = "open" /\ held[l] > 0
  /\ held' = [held EXCEPT ![l] = @ - Least(unwind[l][k].qty, @)]
  /\ unwind' = [unwind EXCEPT ![l][k].status = "completed"]
  /\ session' = IF session.status = "unwinding" /\ AllFlat
                THEN [session EXCEPT !.status = "completed"] ELSE session
  /\ UNCHANGED <<conf, creator, row, pos, ex, task, sl>>

UnwindCanceled(l, k) ==
  /\ unwind[l][k].status = "canceled_requested"
  /\ unwind' = [unwind EXCEPT ![l][k].status = "canceled"]
  /\ UNCHANGED <<conf, creator, row, held, pos, ex, task, session, sl>>

\* The unwind sells of S are stopped: a latched stop loss only requests it
\* (request_trade_builder_oco_cancel_for_siblings), the end of a locked pair
\* cancels what is not on the exchange (cancel_..._unwind_orders).
StopUnwinds(S, request) ==
  [l \in Legs |-> [k \in Slots |->
     IF l \in S /\ unwind[l][k].status \in {"triggered", "open"}
     THEN [unwind[l][k] EXCEPT !.status =
             IF request THEN "canceled_requested" ELSE CanceledStatus(@ = "open")]
     ELSE unwind[l][k]]]

\* The stop loss latches and asks its siblings to cancel.
SlTrigger(l) ==
  /\ sl[l] = "armed" /\ held[l] > 0
  /\ sl' = [sl EXCEPT ![l] = "open"]
  /\ unwind' = StopUnwinds({l}, TRUE)
  /\ UNCHANGED <<conf, creator, row, held, pos, ex, task, session>>

\* maybe_finalize_..._after_locked_leg_stop_loss_fill: the other leg is
\* detached and keeps its position.
LockedLegStopped(l) ==
  /\ row' = [row EXCEPT ![Other(l)].sess = FALSE]
  /\ unwind' = StopUnwinds(Legs, FALSE)
  /\ session' = [session EXCEPT !.status = "completed"]
  /\ sl' = [sl EXCEPT ![l] = "completed"]

\* maybe_finalize_..._after_lead_stop_loss_fill: the counter is canceled.
LeadStopped(l) ==
  /\ row' = [row EXCEPT ![Other(l)].status =
               IF row[Other(l)].sess /\ @ \notin Terminal
               THEN CanceledStatus(row[Other(l)].active) ELSE @]
  /\ session' = [session EXCEPT !.status = "completed"]
  /\ sl' = [sl EXCEPT ![l] = "completed", ![Other(l)] = CanceledSl(@)]
  /\ UNCHANGED unwind

\* A stop-loss child is a child exit: its fill is taken off the position.
SlFill(l) ==
  /\ sl[l] = "open" /\ held[l] > 0
  /\ held' = [held EXCEPT ![l] = 0]
  /\ pos' = [pos EXCEPT ![l].qty = Less(@, held[l]), ![l].sold = TRUE]
  /\ IF row[l].sess /\ session.status = "locked" /\ ~conf.ignoreSl
     THEN LockedLegStopped(l)
     ELSE IF row[l].sess /\ session.status = "working" /\ session.lead = l
     THEN LeadStopped(l)
     ELSE /\ sl' = [sl EXCEPT ![l] = "completed"]
          /\ UNCHANGED <<row, session, unwind>>
  /\ UNCHANGED <<conf, creator, ex, task>>

SlCanceled(l) ==
  /\ sl[l] = "canceled_requested"
  /\ sl' = [sl EXCEPT ![l] = "canceled"]
  /\ UNCHANGED <<conf, creator, row, held, pos, ex, task, session, unwind>>

---------------------------------------------------------------------------
(* The exchange, the clock and the user                                    *)

\* What an order may buy: a hedge that was not topped up is no larger than
\* what the lead has net of its fee.
OrderQty(l) ==
  1..(IF row[l].size = "hedge" /\ ~ex[l].topped THEN session.fill["primary"]
      ELSE MaxQty)

\* The fee is taken out of the shares.
Matches(l) ==
  /\ ex[l].st = "live"
  /\ \E q \in OrderQty(l) : \E fee \in 0..(q - 1) :
       /\ ex' = [ex EXCEPT ![l].st = "filled", ![l].qty = q, ![l].fee = fee]
       /\ held' = [held EXCEPT ![l] = @ + q - fee]
  /\ UNCHANGED <<conf, creator, row, pos, task, session, unwind, sl>>

GraceElapses ==
  /\ session.lead # NoLeg /\ ~session.elapsed
  /\ session' = [session EXCEPT !.elapsed = TRUE]
  /\ UNCHANGED <<conf, creator, row, held, pos, ex, task, unwind, sl>>

UserCancels(l) ==
  /\ "user" \in conf.faults
  /\ row[l].status \in Processable \ {"canceled_requested"}
  /\ row' = [row EXCEPT ![l].status = "canceled_requested"]
  /\ UNCHANGED <<conf, creator, held, pos, ex, task, session, unwind, sl>>

---------------------------------------------------------------------------
Create ==
  \/ CreatePrimary \/ CreateCounter \/ CreateCounterFails \/ CreateSession
  \/ HoldCounter
  \/ \E l \in Legs : AttachOrder(l)

TaskStep(l) ==
  \/ ReadRow(l) \/ Expire(l)
  \/ RuntimeClosed(l) \/ RuntimeHold(l) \/ RuntimeAuto(l) \/ RuntimeGrace(l)
  \/ RuntimePass(l)
  \/ CancelRequested(l) \/ NotTriggered(l) \/ GuardBlocks(l) \/ PassFails(l)
  \/ Submit(l) \/ StillOpen(l) \/ TakeBack(l)
  \/ RecordRow(l) \/ RecordPosition(l) \/ RecordSession(l) \/ ReadSession(l)
  \/ LockPair(l) \/ UnwindResidue(l) \/ FinishFill(l) \/ FillFails(l)

UnwindStep(l) ==
  \E k \in Slots : UnwindPlace(l, k) \/ UnwindFill(l, k) \/ UnwindCanceled(l, k)

SlStep(l) == SlTrigger(l) \/ SlFill(l) \/ SlCanceled(l)

Next ==
  \/ Create
  \/ \E l \in Legs : TaskStep(l) \/ UnwindStep(l) \/ SlStep(l)
  \/ \E l \in Legs : Matches(l) \/ Rebase(l) \/ UserCancels(l)
  \/ GraceElapses

Spec == Init /\ [][Next]_vars

\* The flow step runs on, the builder loop gets to every processable row
\* and to every sell, time passes, and a market sell finds a buyer.  Nothing
\* is assumed of buys, guards, stop losses, users or faults.
FairSpec ==
  /\ Spec
  /\ WF_vars(Create)
  /\ \A l \in Legs : WF_vars(TaskStep(l)) /\ WF_vars(UnwindStep(l))
  /\ WF_vars(GraceElapses)

---------------------------------------------------------------------------
(* Properties                                                              *)

TypeOK ==
  /\ conf \in Configs
  /\ creator \in {"primary", "counter", "session", "attach_primary",
                  "attach_counter", "hold", "done"}
  /\ row \in [Legs -> [status : RowStatuses, sess : BOOLEAN, active : BOOLEAN,
                       filled : 0..MaxQty, size : Sizes]]
  /\ held \in [Legs -> 0..MaxQty]
  /\ pos \in [Legs -> [qty : 0..MaxQty, from : {"none", "fill", "visible"},
                       sold : BOOLEAN]]
  /\ ex \in [Legs -> [st : {"none", "live", "filled", "canceled"}, qty : 0..MaxQty,
                      fee : 0..MaxQty, topped : BOOLEAN]]
  /\ task \in [Legs -> [pc : {"idle", "read", "go"} \cup Filling,
                        sess : BOOLEAN, status : RowStatuses, active : BOOLEAN,
                        listed : SUBSET Legs]]
  /\ session \in [status : {"none", "working", "locked", "unwinding"} \cup Closed,
                  lead : Legs \cup {NoLeg}, fill : [Legs -> 0..MaxQty],
                  locked : 0..MaxQty, elapsed : BOOLEAN, rest : Rests]
  /\ unwind \in [Legs -> [Slots -> [status : SellStatuses, qty : 0..MaxQty,
                                    gross : BOOLEAN]]]
  /\ sl \in [Legs -> SellStatuses]

\* The counter is on the exchange only once the primary's fill is recorded:
\* the row is 'blocked' until its session is attached, and every later task
\* sees that session.
CounterNeedsLead ==
  ex["counter"].st # "none" => session.fill["primary"] > 0 /\ session.lead = "primary"

\* What a leg can sell without touching the lock: an unwind sized by the gross
\* position takes the fee for shares it still has.
Sellable(l, gross) == IF gross THEN ex[l].qty ELSE NetFill(l)

\* An unwind order reaches into the locked quantity by no more than the fee,
\* and not at all when its position came from the visible inventory.
UnwindSparesLock ==
  \A l \in Legs : \A k \in Slots :
    unwind[l][k].qty > 0 =>
      unwind[l][k].qty + session.locked <= Sellable(l, unwind[l][k].gross)

\* An auto-sized counter never buys more than its lead has net of the fee: it
\* cannot be sent before it is resized.  The code has two exceptions: the
\* lead's price leaves no cap, and an order below the exchange's minimum.
HedgeFits ==
  conf.auto /\ session.rest = "capped" /\ ~ex["counter"].topped
    => ex["counter"].qty <= session.fill["primary"]

Orphaned ==
  /\ session.status = "working" /\ session.lead = "primary"
  /\ conf.protective /\ ~WaitsUntilMarketEnd /\ conf.faults = {}

\* The risk gate or the exchange's minimum stopped the counter's row: no task
\* takes it up, and nothing else looks at the grace.
Stranded == creator = "done" /\ row["counter"].status \in {"blocked", "error"}


=============================================================================
