----------------------------- MODULE TradeLoop ------------------------------
(***************************************************************************)
(* One market cycle of the legacy strategies: the single-side trade, on    *)
(* paper (run_paper_loop and the dry branch of run_live_loop) and live     *)
(* (run_live_loop), and the two-sided basket, on paper                     *)
(* (run_paper_dual_loop) and live (run_live_dual_loop).  The cycle is one  *)
(* task; the exchange fills its orders meanwhile, any call may fail, and   *)
(* an error that the loop does not catch ends the run.                     *)
(*                                                                         *)
(* Every write of trades.state is a step of its own: a handler appends the *)
(* states it will write to "todo" and the next steps write them.  Prices   *)
(* are reduced to what the strategy compares: for the single trade their   *)
(* position among stop loss, entry and take profit, for the basket which   *)
(* condition holds.  Sizes are units of one DCA level.                     *)
(***************************************************************************)
EXTENDS Naturals, Sequences, FiniteSets

CONSTANTS
    Configs,       \* the configurations under which a cycle may run
    MaxIter,       \* bound of the loop (12, 20, 40 or 120 in the code)
    MaxLevels,     \* max_dca_levels_per_leg
    MaxOpenOrders, \* max_open_orders
    MaxOrders,     \* bound on the exchange orders of one cycle
    Reasons,       \* the reasons to flatten the basket that may arise
    TpPrices       \* the prices, to four decimals, at which a leg may take profit

Legs == {"yes", "no"}
Modes == {"paper", "live", "paper_dual", "live_dual"}
TradeStates == {"Idle", "WaitingEntry", "EntryPlaced", "EntryPartiallyFilled",
                "EntryFilled", "TpPlaced", "SlArmed", "ExitPartiallyFilled",
                "ExitFilled", "Settled", "Halted"}
AllReasons == {"drop_sell", "pressure_exit", "force_flatten", "basket_sl", "basket_tp"}

ASSUME TradeLoopAssumption ==
    /\ Configs \subseteq
         [mode : Modes, manual_kill_switch_active : BOOLEAN, over_notional : BOOLEAN,
          kill_switch_mode : {"disabled", "manual_only", "manual_or_policy"}]
    /\ MaxIter \in Nat \ {0} /\ MaxLevels \in Nat \ {0}
    /\ MaxOpenOrders \in Nat /\ MaxOrders \in Nat
    /\ Reasons \subseteq AllReasons

VARIABLES
    cfg,       \* the configuration of the run
    pc,        \* where the loop stands
    iter,      \* iterations of the loop that have begun
    todo,      \* states (and "close") the current handler still has to write
    mem,       \* trade.state / basket.state
    db,        \* trades.state
    closed,    \* trades.closed_at is set
    leg,       \* DualLegRuntime: quantity and DCA levels of a leg
    book,      \* the orders sent to the exchange, with their row and metadata
    keys,      \* idempotency keys recorded by this trade
    errors,    \* reconcile_errors
    spared     \* orders that enforce_halt_open_order_safety could not reach

vars == <<cfg, pc, iter, todo, mem, db, closed, leg, book, keys, errors, spared>>
tradeVars == <<todo, mem, db, closed>>

Dual == cfg.mode \in {"paper_dual", "live_dual"}
Ids == DOMAIN book

-----------------------------------------------------------------------------
(* bot-core                                                                *)

\* Mutant: a trade may be settled from any state.
CanTransitionLoose(from, to) ==
    \/ to \in {"Halted", "ExitFilled", "Settled"}
    \/ <<from, to>> \in
         {<<"Idle", "WaitingEntry">>, <<"WaitingEntry", "EntryPlaced">>,
          <<"EntryPlaced", "EntryFilled">>, <<"EntryFilled", "TpPlaced">>,
          <<"TpPlaced", "SlArmed">>}

\* can_transition
CanTransition(from, to) ==
    \/ to = "Halted"
    \/ <<from, to>> \in
         {<<"Idle", "WaitingEntry">>, <<"WaitingEntry", "EntryPlaced">>,
          <<"EntryPlaced", "EntryPartiallyFilled">>, <<"EntryPlaced", "EntryFilled">>,
          <<"EntryPartiallyFilled", "EntryFilled">>, <<"EntryFilled", "TpPlaced">>,
          <<"TpPlaced", "SlArmed">>, <<"TpPlaced", "ExitFilled">>,
          <<"SlArmed", "ExitPartiallyFilled">>, <<"SlArmed", "ExitFilled">>,
          <<"ExitPartiallyFilled", "ExitFilled">>, <<"ExitFilled", "Settled">>,
          <<"Settled", "Idle">>}

\* evaluate_risk; "lossLimit" is the daily or the consecutive loss limit, and
\* over_notional a proposed notional above max_notional_per_market_usdc.
EvaluateRisk(stale, lossLimit, openOrders) ==
    IF cfg.manual_kill_switch_active /\ cfg.kill_switch_mode # "disabled" THEN "Halt"
    ELSE IF stale THEN "Block"
    ELSE IF lossLimit
         THEN IF cfg.kill_switch_mode = "manual_or_policy" THEN "Halt" ELSE "Block"
    ELSE IF cfg.over_notional \/ openOrders >= MaxOpenOrders THEN "Block" ELSE "Allow"

\* ExitFilled and Settled, each where the state machine allows it (it allows Settled
\* after ExitFilled), then close_trade in any case.
SettleAndClose(s) ==
    IF CanTransition(s, "ExitFilled") THEN <<"ExitFilled", "Settled", "close">>
    ELSE IF CanTransition(s, "Settled") THEN <<"Settled", "close">> ELSE <<"close">>

-----------------------------------------------------------------------------
(* Fills, orders and rows                                                  *)

NewOrder(l, side, intent, size, tracked) ==
    [leg |-> l, side |-> side, intent |-> intent, size |-> size, filled |-> 0,
     seen |-> 0, applied |-> 0, live |-> TRUE,
     row |-> IF tracked THEN "acked" ELSE "none", meta |-> tracked]

\* place, then the row, then order_meta: the call fails before the exchange has
\* the order, or after it ("lost": an order with neither row nor metadata).  A row
\* keeps the exchange's own word for the order, none of which is an end ("acked").
Outcomes == {"ok", "rejected", "lost"}
PlaceLegOrder(b, l, side, intent, size, outcome) ==
    IF size = 0 \/ outcome = "rejected" THEN b
    ELSE Append(b, NewOrder(l, side, intent, size, outcome = "ok"))

\* apply_fill_to_leg, one unit.
ApplyFillToLeg(g, side, level) ==
    IF side = "buy"
    THEN [g EXCEPT !.qty = @ + 1, !.levels = IF level THEN @ + 1 ELSE @]
    ELSE [g EXCEPT !.qty = IF @ > 0 THEN @ - 1 ELSE 0]

\* open_exchange_order_ids_for_trade: the rows whose status is no end.
UnfinishedRows == {i \in Ids : book[i].row = "acked"}

\* Mutant: fills seen before are processed again.
EveryFill == {i \in Ids : book[i].filled > 0}

\* The fills list_fills reports that are not in seen_fill_ids.
UnseenFills == {i \in Ids : book[i].seen < book[i].filled}
Flat == \A l \in Legs : leg[l].qty = 0

-----------------------------------------------------------------------------
(* The cycle                                                               *)

LoopHead == IF cfg.mode = "live_dual" THEN "fills" ELSE "gate"

Init ==
    /\ cfg \in Configs
    /\ pc = IF Dual THEN "entry" ELSE "gate"
    /\ iter = 0
    /\ todo = IF Dual THEN <<"WaitingEntry", "EntryPlaced">> ELSE <<"WaitingEntry">>
    /\ mem = "Idle" /\ db = "Idle" /\ closed = FALSE
    /\ leg = [l \in Legs |-> [qty |-> 0, levels |-> 0]]
    /\ book = <<>> /\ keys = {} /\ errors = 0 /\ spared = {}

Ready(p) == todo = <<>> /\ pc = p

\* Mutant: the loop has no bound.
NextIterationUncounted == iter' = iter /\ pc' = LoopHead
NextIteration ==
    /\ iter' = iter + 1
    /\ pc' = IF iter + 1 < MaxIter THEN LoopHead ELSE "end"

\* transition / transition_dual / close_trade: the next write of the handler.
WriteState ==
    /\ todo # <<>>
    /\ LET to == Head(todo) IN
         \/ /\ to = "close"
            /\ db' = "Settled" /\ closed' = TRUE /\ UNCHANGED mem
         \/ /\ to # "close" /\ CanTransition(mem, to)
            /\ mem' = to /\ db' = to /\ UNCHANGED closed
    /\ todo' = Tail(todo)
    /\ UNCHANGED <<cfg, pc, iter, leg, book, keys, errors, spared>>

\* An error the loop does not catch: a write failed, before or after the state
\* was stored, or the state machine refused it.
Fail ==
    /\ pc \notin {"done", "failed"}
    /\ pc' = "failed"
    /\ todo' = <<>>
    /\ \/ UNCHANGED db
       \/ todo # <<>> /\ Head(todo) # "close" /\ CanTransition(mem, Head(todo)) /\ db' = Head(todo)
    /\ UNCHANGED <<cfg, iter, mem, closed, leg, book, keys, errors, spared>>

\* The first orders of a basket, before any risk check: two paper fills, or one
\* GTC order per leg.
DualEntryPaper ==
    /\ Ready("entry") /\ cfg.mode = "paper_dual"
    /\ leg' = [l \in Legs |-> ApplyFillToLeg(leg[l], "buy", TRUE)]
    /\ todo' = <<"EntryFilled", "TpPlaced">>
    /\ pc' = LoopHead
    /\ UNCHANGED <<cfg, iter, mem, db, closed, book, keys, errors, spared>>

DualEntryLive ==
    /\ Ready("entry") /\ cfg.mode = "live_dual"
    /\ \E out \in [Legs -> Outcomes] :
         /\ book' = PlaceLegOrder(PlaceLegOrder(book, "yes", "buy", "entry", 1, out["yes"]),
                                  "no", "buy", "entry", 1, out["no"])
         /\ \/ /\ \A l \in Legs : out[l] = "ok"
               /\ pc' = LoopHead /\ todo' = <<"EntryFilled", "TpPlaced">>
            \/ /\ \A l \in Legs : out[l] # "ok"
               /\ pc' = "done" /\ todo' = SettleAndClose(mem)
            \/ /\ \E l, k \in Legs : out[l] = "ok" /\ out[k] # "ok"
               /\ pc' = LoopHead /\ UNCHANGED todo
    /\ UNCHANGED <<cfg, iter, mem, db, closed, leg, keys, errors, spared>>

\* process_live_dual_fills: a fill is seen before it is looked up, so a fill of an
\* order without metadata, or one whose rows could not be written (~ok), is lost.
ProcessFill(ok) ==
    /\ todo = <<>> /\ pc \in {"fills", "settle"} /\ cfg.mode = "live_dual"
    /\ \E i \in UnseenFills :
         LET o == book[i] IN
         /\ book' = [book EXCEPT ![i].seen = @ + 1,
                                 ![i].applied = IF ok /\ o.meta THEN @ + 1 ELSE @]
         /\ leg' = IF ok /\ o.meta
                   THEN [leg EXCEPT ![o.leg] = ApplyFillToLeg(@, o.side, FALSE)]
                   ELSE leg
    /\ UNCHANGED <<cfg, pc, iter, tradeVars, keys, errors, spared>>

FillsDone ==
    /\ Ready("fills")
    /\ pc' = "gate"
    /\ UNCHANGED <<cfg, iter, tradeVars, leg, book, keys, errors, spared>>

\* risk_gate / risk_gate_dual and the loop's answer to it.  The open orders are
\* those of all the user's trades, and only rows the exchange called "open".
Gate ==
    /\ Ready("gate")
    /\ \E stale, lossLimit \in BOOLEAN, openOrders \in 0..MaxOpenOrders :
         LET decision == EvaluateRisk(stale, lossLimit, openOrders) IN
         /\ stale => cfg.mode \in {"paper", "paper_dual"}
         /\ \/ /\ decision = "Halt" /\ cfg.mode \in {"live", "live_dual"}
               /\ pc' = "sweep" /\ UNCHANGED <<iter, todo>>
            \/ /\ decision = "Halt" /\ cfg.mode \in {"paper", "paper_dual"}
               /\ pc' = "end" /\ todo' = <<"Halted">> /\ UNCHANGED iter
            \/ decision = "Block" /\ NextIteration /\ UNCHANGED todo
            \/ /\ decision = "Allow"
               /\ pc' = IF Dual THEN "act" ELSE IF cfg.mode = "live" THEN "place" ELSE "step"
               /\ UNCHANGED <<iter, todo>>
    /\ UNCHANGED <<cfg, mem, db, closed, leg, book, keys, errors, spared>>

\* Mutant: the sweep asks only the rows.
SweepRowsOnly(listed) == UnfinishedRows

\* enforce_halt_open_order_safety, then Halted: what list_open shows, or the open
\* rows of the trade when it shows nothing or fails.
SweepCandidates(listed) ==
    LET live == {i \in Ids : book[i].live}
    IN  IF listed /\ live # {} THEN live ELSE UnfinishedRows
Sweep ==
    /\ Ready("sweep")
    /\ \E listed \in BOOLEAN :
       \E refused \in SUBSET SweepCandidates(listed) :
         LET gone == SweepCandidates(listed) \ refused IN
         /\ book' = [i \in Ids |->
                       IF i \in gone
                       THEN [book[i] EXCEPT !.live = FALSE,
                                            !.row = IF @ = "none" THEN @ ELSE "canceled"]
                       ELSE book[i]]
         /\ spared' = refused \cup (IF listed THEN {} ELSE {i \in Ids : book[i].row = "none"})
    /\ todo' = <<"Halted">>
    /\ pc' = "end"
    /\ UNCHANGED <<cfg, iter, mem, db, closed, leg, keys, errors>>

\* process_trade_step at a price: 0 is at the stop loss, 2 at the entry, 3 at the
\* take profit.  The entry is followed by the exit checks at the same price.
StepEntry ==
    /\ Ready("step") /\ mem = "WaitingEntry"
    /\ \E price \in 0..3 :
         /\ todo' = IF price < 2 THEN <<>>
                    ELSE IF price = 2 THEN <<"EntryPlaced", "EntryFilled", "TpPlaced">>
                    ELSE <<"EntryPlaced", "EntryFilled", "TpPlaced", "ExitFilled", "close">>
         /\ keys' = IF price = 3 THEN keys \cup {<<"trade", "tp">>} ELSE keys
    /\ NextIteration
    /\ UNCHANGED <<cfg, mem, db, closed, leg, book, errors, spared>>
StepExit ==
    /\ Ready("step") /\ mem # "WaitingEntry"
    /\ \/ /\ mem = "TpPlaced" /\ <<"trade", "tp">> \notin keys
          /\ todo' = <<"ExitFilled", "close">> /\ keys' = keys \cup {<<"trade", "tp">>}
       \/ /\ mem = "TpPlaced" /\ <<"trade", "sl">> \notin keys
          /\ todo' = <<"SlArmed", "ExitFilled", "close">> /\ keys' = keys \cup {<<"trade", "sl">>}
       \/ UNCHANGED <<todo, keys>>
    /\ NextIteration
    /\ UNCHANGED <<cfg, mem, db, closed, leg, book, errors, spared>>

\* The entry order of run_live_loop: the state is written before the order is
\* sent, and an error of the exchange or of the row ends the run.
LiveEntry ==
    /\ Ready("place")
    /\ \/ pc' = "reconcile" /\ UNCHANGED todo
       \/ mem = "WaitingEntry" /\ todo' = <<"EntryPlaced">> /\ pc' = "send"
    /\ UNCHANGED <<cfg, iter, mem, db, closed, leg, book, keys, errors, spared>>
LiveSend ==
    /\ Ready("send")
    /\ \E out \in Outcomes :
         /\ book' = PlaceLegOrder(book, "yes", "buy", "entry", 1, out)
         /\ pc' = IF out = "ok" THEN "reconcile" ELSE "failed"
    /\ UNCHANGED <<cfg, iter, tradeVars, leg, keys, errors, spared>>

\* reconcile_live: the rows of the open orders, then every new fill of the account
\* (its own or "foreign": list_fills(None) is not restricted to the trade) and the
\* user events count as the entry.
Reconcile ==
    /\ Ready("reconcile")
    /\ \E foreign \in BOOLEAN :
         LET fresh == UnseenFills IN
         /\ book' = [i \in Ids |->
                       [book[i] EXCEPT !.seen = book[i].filled, !.applied = book[i].filled,
                                       !.row = IF book[i].live THEN "acked" ELSE @]]
         /\ todo' = IF mem \in {"EntryPlaced", "EntryPartiallyFilled"} /\ (fresh # {} \/ foreign)
                    THEN <<"EntryFilled", "TpPlaced">> ELSE <<>>
    /\ errors' = 0
    /\ NextIteration
    /\ UNCHANGED <<cfg, mem, db, closed, leg, keys, spared>>
ReconcileError ==
    /\ Ready("reconcile")
    /\ errors' = errors + 1
    /\ IF errors + 1 >= 3
       THEN pc' = "sweep" /\ UNCHANGED iter
       ELSE NextIteration
    /\ UNCHANGED <<cfg, tradeVars, leg, book, keys, spared>>

\* A reason to leave the whole basket; the pnl of an empty basket is zero.
FlattenReason(r) ==
    /\ r \in {"drop_sell", "pressure_exit"} => cfg.mode = "live_dual"
    /\ r \in {"drop_sell", "basket_sl", "basket_tp"} => ~Flat
    /\ r = "pressure_exit" => iter > 0

FlattenPaper ==
    /\ Ready("act") /\ cfg.mode = "paper_dual"
    /\ \E r \in Reasons :
         /\ FlattenReason(r)
         /\ todo' = IF r = "basket_sl" /\ mem = "TpPlaced" THEN <<"SlArmed">> ELSE <<>>
    /\ leg' = [l \in Legs |-> [leg[l] EXCEPT !.qty = 0]]
    /\ pc' = "settle"
    /\ UNCHANGED <<cfg, iter, mem, db, closed, book, keys, errors, spared>>

\* Mutant: the flatten key is not looked at.
FirstFlattenAlways(r) == TRUE

\* try_record_idempotency_key of the flatten key.
FirstFlatten(r) == <<"flatten", r>> \notin keys

\* One flatten per reason: its key is recorded and SlArmed written before the sells
\* are sent, and the sells of the two legs fail on their own.
FlattenLive ==
    /\ Ready("act") /\ cfg.mode = "live_dual"
    /\ \E r \in Reasons :
         /\ FlattenReason(r)
         /\ keys' = keys \cup {<<"flatten", r>>}
         /\ \/ ~FirstFlatten(r) /\ pc' = "settle" /\ UNCHANGED todo
            \/ /\ FirstFlatten(r) /\ pc' = "sell"
               /\ todo' = IF r = "basket_sl" /\ mem = "TpPlaced" THEN <<"SlArmed">> ELSE <<>>
    /\ UNCHANGED <<cfg, iter, mem, db, closed, leg, book, errors, spared>>
FlattenSell ==
    /\ Ready("sell")
    /\ \E out \in [Legs -> Outcomes] :
         book' = PlaceLegOrder(
                   PlaceLegOrder(book, "yes", "sell", "basket_exit", leg["yes"].qty, out["yes"]),
                   "no", "sell", "basket_exit", leg["no"].qty, out["no"])
    /\ Len(book') <= MaxOrders
    /\ pc' = "settle"
    /\ UNCHANGED <<cfg, iter, tradeVars, leg, keys, errors, spared>>

\* No reason to flatten: the two legs take profit, then the two legs average down.
\* Once the close of the window forces the flatten it stays a reason.
Trade ==
    /\ Ready("act") /\ <<"flatten", "force_flatten">> \notin keys
    /\ pc' = "tp_yes"
    /\ UNCHANGED <<cfg, iter, tradeVars, leg, book, keys, errors, spared>>

TpStep == [yes |-> "tp_yes", no |-> "tp_no"]
DcaStep == [yes |-> "dca_yes", no |-> "dca_no"]

\* should_leg_take_profit and the sell of the whole leg: a paper fill, or a GTC sell
\* once per price; a sell that fails skips the other leg.
LegTakeProfitPaper(l) ==
    /\ cfg.mode = "paper_dual" /\ leg[l].qty > 0
    /\ leg' = [leg EXCEPT ![l].qty = 0]
    /\ UNCHANGED <<book, keys>>
    /\ pc' = IF l = "yes" THEN "tp_no" ELSE "dca_yes"
LegTakeProfitLive(l) ==
    /\ cfg.mode = "live_dual" /\ leg[l].qty > 0
    /\ \E p \in TpPrices, out \in Outcomes :
         /\ <<l, p>> \notin keys
         /\ keys' = keys \cup {<<l, p>>}
         /\ book' = PlaceLegOrder(book, l, "sell", "leg_tp", leg[l].qty, out)
         /\ pc' = IF l = "yes" /\ out = "ok" THEN "tp_no" ELSE "dca_yes"
    /\ Len(book') <= MaxOrders
    /\ UNCHANGED leg
LegHolds(l) ==
    /\ UNCHANGED <<leg, book, keys>>
    /\ pc' = IF l = "yes" THEN "tp_no" ELSE "dca_yes"
TakeProfit(l) ==
    /\ Ready(TpStep[l])
    /\ LegTakeProfitPaper(l) \/ LegTakeProfitLive(l) \/ LegHolds(l)
    /\ UNCHANGED <<cfg, iter, tradeVars, errors, spared>>

\* maybe_paper_dca / maybe_live_leg_dca: the live level is counted when the order
\* has been sent and its row is stored.
LegDcaPaper(l) ==
    /\ cfg.mode = "paper_dual" /\ leg[l].levels < MaxLevels
    /\ leg' = [leg EXCEPT ![l] = ApplyFillToLeg(@, "buy", TRUE)]
    /\ UNCHANGED book

\* Mutant: the level is not counted.
LegDcaUncounted(l) ==
    /\ cfg.mode = "live_dual" /\ leg[l].levels < MaxLevels
    /\ \E out \in Outcomes : book' = PlaceLegOrder(book, l, "buy", "dca", 1, out)
    /\ Len(book') <= MaxOrders
    /\ UNCHANGED leg

\* Mutant: the number of levels is not limited.
LegDcaUnbounded(l) ==
    /\ cfg.mode = "live_dual"
    /\ \E out \in Outcomes :
         /\ book' = PlaceLegOrder(book, l, "buy", "dca", 1, out)
         /\ leg' = IF out = "ok" THEN [leg EXCEPT ![l].levels = @ + 1] ELSE leg
    /\ Len(book') <= MaxOrders

LegDcaLive(l) ==
    /\ cfg.mode = "live_dual" /\ leg[l].levels < MaxLevels
    /\ \E out \in Outcomes :
         /\ book' = PlaceLegOrder(book, l, "buy", "dca", 1, out)
         /\ leg' = IF out = "ok" THEN [leg EXCEPT ![l].levels = @ + 1] ELSE leg
    /\ Len(book') <= MaxOrders
Dca(l) ==
    /\ Ready(DcaStep[l])
    /\ LegDcaPaper(l) \/ LegDcaLive(l) \/ UNCHANGED <<leg, book>>
    /\ pc' = IF l = "yes" THEN "dca_no" ELSE "settle"
    /\ UNCHANGED <<cfg, iter, tradeVars, keys, errors, spared>>

\* The end of an iteration: with nothing held the basket is settled and closed.
Settle ==
    /\ Ready("settle")
    /\ IF Flat
       THEN /\ todo' = SettleAndClose(mem)
            /\ pc' = "done" /\ UNCHANGED iter
       ELSE NextIteration /\ UNCHANGED todo
    /\ UNCHANGED <<cfg, mem, db, closed, leg, book, keys, errors, spared>>

\* After the loop the single trade is settled where the state machine allows it.
LoopEnd ==
    /\ Ready("end")
    /\ todo' = IF ~Dual /\ CanTransition(mem, "Settled") THEN <<"Settled">> ELSE <<>>
    /\ pc' = "done"
    /\ UNCHANGED <<cfg, iter, mem, db, closed, leg, book, keys, errors, spared>>

\* The exchange fills a unit of a live order.
ExchangeFill ==
    /\ \E i \in Ids :
         /\ book[i].live /\ book[i].filled < book[i].size
         /\ book' = [book EXCEPT ![i].filled = @ + 1, ![i].live = book[i].filled + 1 < book[i].size]
    /\ UNCHANGED <<cfg, pc, iter, tradeVars, leg, keys, errors, spared>>

Loop ==
    \/ WriteState \/ DualEntryPaper \/ DualEntryLive
    \/ (\E ok \in BOOLEAN : ProcessFill(ok)) \/ FillsDone
    \/ Gate \/ Sweep \/ StepEntry \/ StepExit
    \/ LiveEntry \/ LiveSend \/ Reconcile \/ ReconcileError
    \/ FlattenPaper \/ FlattenLive \/ FlattenSell \/ Trade
    \/ (\E l \in Legs : TakeProfit(l) \/ Dca(l))
    \/ Settle \/ LoopEnd

Next == Loop \/ Fail \/ ExchangeFill

Spec == Init /\ [][Next]_vars
FairSpec == Spec /\ WF_vars(Loop)

-----------------------------------------------------------------------------
(* Properties                                                              *)

\* TypeOK: the variables of TradeLoop keep their types.
TypeOK ==
    /\ cfg \in Configs
    /\ pc \in {"entry", "fills", "gate", "sweep", "step", "place", "send", "reconcile", "act", "sell",
               "tp_yes", "tp_no", "dca_yes", "dca_no", "settle", "end", "done", "failed"}
    /\ iter \in 0..MaxIter
    /\ todo \in Seq(TradeStates \cup {"close"})
    /\ mem \in TradeStates /\ db \in TradeStates /\ closed \in BOOLEAN
    /\ leg \in [Legs -> [qty : Nat, levels : 0..MaxLevels]]
    /\ book \in Seq([leg : Legs, side : {"buy", "sell"}, size : Nat, filled : Nat, seen : Nat,
                      applied : Nat, live : BOOLEAN, row : {"none", "acked", "canceled"},
                      meta : BOOLEAN, intent : {"entry", "dca", "leg_tp", "basket_exit"}])
    /\ errors \in 0..3
    /\ spared \subseteq Ids

\* The phase of trades.state, for TradeLifecycle.
PhaseOf(s) ==
    IF s \in {"Idle", "WaitingEntry"} THEN "opening"
    ELSE IF s \in {"EntryPlaced", "EntryPartiallyFilled"} THEN "entering"
    ELSE IF s \in {"EntryFilled", "TpPlaced", "SlArmed", "ExitPartiallyFilled"} THEN "holding"
    ELSE IF s = "ExitFilled" THEN "exited"
    ELSE IF s = "Settled" THEN "settled" ELSE "halted"

Lifecycle == INSTANCE TradeLifecycle WITH phase <- PhaseOf(db), isClosed <- closed

\* LifecycleSpec: whatever loop runs the trade, and wherever it fails, the row keeps
\* the promise of TradeLifecycle although the loop decides by its copy of the state
\* (transition checks the state in memory and close_trade checks nothing).
LifecycleSpec == Lifecycle!Spec

\* HaltSweeps: when a live trade is halted, an order of it that is still live is one
\* whose cancel was refused, or one that has no row and that list_open, failing, did
\* not show (enforce_halt_open_order_safety).
HaltSweeps ==
    db = "Halted" /\ pc # "failed" =>
        \A i \in Ids : book[i].live => i \in spared

\* FillsCountOnce: a leg never counts more than the exchange has filled: no fill of an
\* order is applied twice, although list_fills returns all of them on every poll and
\* a poll may break off in the middle (process_live_dual_fills).  Bought: the units
\* the exchange has filled of the leg's buys, by order and number.
Buys(l) == {i \in Ids : book[i].leg = l /\ book[i].side = "buy"}
Bought(l) == UNION {{i} \X (1 .. book[i].filled) : i \in Buys(l)}
FillsCountOnce ==
    cfg.mode = "live_dual" => \A l \in Legs : leg[l].qty <= Cardinality(Bought(l))

\* SellsAreKeyed: the sells of a leg are bounded by the idempotency keys of its trade,
\* one per flatten reason and one per take-profit price, however often a condition
\* stays true and whichever sells fail (flatten_key and the leg_tp key).
Sells(l, intent) == {i \in Ids : book[i].leg = l /\ book[i].intent = intent}
SellsAreKeyed ==
    \A l \in Legs :
        /\ Cardinality(Sells(l, "basket_exit")) <= Cardinality({r \in Reasons : <<"flatten", r>> \in keys})
        /\ Cardinality(Sells(l, "leg_tp")) <= Cardinality({p \in TpPrices : <<l, p>> \in keys})

\* DcaBudget: a leg has at most max_dca_levels_per_leg averaging orders with a row,
\* even though a level is counted after the order was sent (maybe_live_leg_dca).
DcaBudget ==
    \A l \in Legs :
        Cardinality({i \in Ids : book[i].leg = l /\ book[i].intent = "dca" /\ book[i].row # "none"})
            <= MaxLevels

\* CycleEnds: a cycle ends: it closes its trade, halts it, gives up after its last
\* iteration or fails.
CycleEnds == <>(pc \in {"done", "failed"} /\ todo = <<>>)

\* KillSwitchHolds: with the manual kill switch active no order is placed, as the
\* dashboard says of it.
KillSwitchHolds ==
    cfg.manual_kill_switch_active /\ cfg.kill_switch_mode # "disabled" => book = <<>>
=============================================================================
