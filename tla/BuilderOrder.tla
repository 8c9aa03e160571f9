---------------------------- MODULE BuilderOrder ----------------------------
(***************************************************************************)
(* The trade-builder order engine: rows of trade_builder_orders, the       *)
(* concurrent tasks that process one row at a time (the housekeeping loop, *)
(* the websocket / immediate-submit tasks), and the CLOB they trade on.    *)
(*                                                                         *)
(* A family is a buy with its hard take-profit and stop-loss exits, which  *)
(* finalize_builder_fill creates when the buy fills.  Every database write *)
(* and every exchange call is an action of its own; the in-process guard   *)
(* keeps two tasks off one row, but a sibling's task and the frontend      *)
(* write a row without holding its guard.                                  *)
(*                                                                         *)
(* Prices, clocks and sizes are not modelled: whether a trigger, a guard,  *)
(* a deadline or the visible inventory says yes is a choice.  Orders are   *)
(* single-trigger (max_triggers = 1, as every exit is), the buy tracks its *)
(* exits (tp_enabled or sl_enabled, sized in USDC) and, as                 *)
(* normalize_trade_builder_execution_mode always answers "market", is IOC. *)
(* Reading the siblings and writing them (OCO, preemption) is one step;    *)
(* the guards that only decide whether to submit are one choice.           *)
(***************************************************************************)
EXTENDS Naturals, FiniteSets

CONSTANTS
  Buys, Tps, Sls,   \* ids of the rows, by role
  Parent,           \* parent_order_id of an exit
  Conditional,      \* rows of kind 'conditional' (every exit is one)
  Ttl,              \* rows with expires_at
  Workers,          \* the tasks that process orders
  Housekeepers,     \* those that run process_trade_builder_orders
  ExIds,            \* exchange order ids (the bound on placements)
  Full,             \* size of an exchange order
  Faults,           \* which of AllFaults the environment may produce
  NoEx, NoRow

Exits == Tps \cup Sls
Rows == Buys \cup Exits
AllFaults == {"crash", "error", "lost_ack", "blind", "user"}

ASSUME BuilderAssumption ==
  /\ Buys \cap Tps = {} /\ Buys \cap Sls = {} /\ Tps \cap Sls = {}
  /\ Parent \in [Exits -> Buys]
  /\ Exits \subseteq Conditional /\ Conditional \subseteq Rows
  /\ Ttl \subseteq Rows
  /\ Housekeepers \subseteq Workers
  /\ Full \in Nat \ {0}
  /\ Faults \subseteq AllFaults
  /\ NoEx \notin ExIds
  /\ NoRow \notin Rows

VARIABLES
  status, active, fired,   \* columns status, active_exchange_order_id, triggers_fired
  latched,                 \* stop losses with trigger_latched
  guard,                   \* TRADE_BUILDER_ORDER_PROCESSING_GUARDS
  pc, cur, seen, hand,     \* per task: step, row, status and exchange id it read
                           \* (of an acknowledgement, once it has one)
  info,                    \* per task: filled size of its last exchange answer
  exSt, exRow, exFill,     \* the exchange: state, row and filled size of an order
  adrift,                  \* history: exchange orders that left the books (see below)
  cut                      \* history: rows whose finalization was interrupted

rowVars == <<status, active, fired, latched>>
taskVars == <<guard, pc, cur, seen, hand, info>>
exVars == <<exSt, exRow, exFill>>
histVars == <<adrift, cut>>
vars == <<rowVars, taskVars, exVars, histVars>>

\* "fatal" is status 'error' with a fatal exchange rejection in last_error;
\* "none" is a row that has not been inserted.
Statuses == {"none", "pending", "armed", "triggered", "open",
             "partially_filled", "canceled_requested", "guard_blocked",
             "inventory_pending", "blocked", "filled", "error", "fatal",
             "completed", "canceled", "expired", "rejected"}
Terminal == {"completed", "canceled", "expired", "filled",
             "canceled_requested"}
Processable == {"pending", "armed", "triggered", "open", "partially_filled",
                "canceled_requested", "guard_blocked", "inventory_pending"}
Finalizing == {"clear", "oco", "children", "end"}
Pcs == {"idle", "maxed", "loaded", "checked", "submit", "placed", "cleared",
        "terminal", "live", "guardcut", "replace", "count"} \cup Finalizing

Siblings(o) == {r \in Exits : o \in Exits /\ r # o /\ Parent[r] = Parent[o]}
ExitsOf(o) == {r \in Exits : Parent[r] = o}
Dead(e) == exSt[e] \in {"filled", "canceled"}

\* What a status write on a whole set of rows leaves in the table.
Write(S, s) == [o \in Rows |-> IF o \in S THEN s ELSE status[o]]

\* The exchange order e leaves the books of row o while it still matters:
\* it is live, or it is a buy's order with a fill no finalization has counted.
Slips(o, e) ==
  e \in ExIds /\ (exSt[e] = "live"
                  \/ (o \in Buys /\ exFill[e] > 0 /\ fired[o] = 0))
Drift(o, e) == adrift' = IF Slips(o, e) THEN adrift \cup {e} ELSE adrift

\* The task is done with its row: the guard is dropped.
Release(w) ==
  /\ guard' = guard \ {cur[w]}
  /\ pc' = [pc EXCEPT ![w] = "idle"]
  /\ cur' = [cur EXCEPT ![w] = NoRow]
  /\ seen' = [seen EXCEPT ![w] = "none"]
  /\ hand' = [hand EXCEPT ![w] = NoEx]
  /\ info' = [info EXCEPT ![w] = 0]

Goto(w, s) ==
  /\ pc' = [pc EXCEPT ![w] = s]
  /\ UNCHANGED <<guard, cur, seen, hand, info>>

---------------------------------------------------------------------------
Init ==
  /\ status = [o \in Rows |-> IF o \in Buys THEN "pending" ELSE "none"]
  /\ active = [o \in Rows |-> NoEx]
  /\ fired = [o \in Rows |-> 0]
  /\ latched = {}
  /\ guard = {}
  /\ pc = [w \in Workers |-> "idle"]
  /\ cur = [w \in Workers |-> NoRow]
  /\ seen = [w \in Workers |-> "none"]
  /\ hand = [w \in Workers |-> NoEx]
  /\ info = [w \in Workers |-> 0]
  /\ exSt = [e \in ExIds |-> "none"]
  /\ exRow = [e \in ExIds |-> NoRow]
  /\ exFill = [e \in ExIds |-> 0]
  /\ adrift = {} /\ cut = {}

---------------------------------------------------------------------------
(* Entering process_trade_builder_order: the guard, then the row as the    *)
(* task will believe it to be.                                             *)

RetryableError(o) == status[o] = "error" /\ o \in Sls \cap latched

\* Mutant: the trigger count is not looked at.
LoadUncounted(w, o) ==
  /\ pc' = [pc EXCEPT ![w] = "loaded"]
  /\ cur' = [cur EXCEPT ![w] = o]
  /\ seen' = [seen EXCEPT ![w] = status[o]]
  /\ hand' = [hand EXCEPT ![w] = active[o]]
  /\ guard' = guard \cup {o}
  /\ UNCHANGED <<info, rowVars, exVars, histVars>>

Load(w, o) ==
  /\ pc' = [pc EXCEPT ![w] = IF fired[o] >= 1 THEN "maxed" ELSE "loaded"]
  /\ cur' = [cur EXCEPT ![w] = o]
  /\ seen' = [seen EXCEPT ![w] = status[o]]
  /\ hand' = [hand EXCEPT ![w] = active[o]]
  /\ guard' = guard \cup {o}
  /\ UNCHANGED <<info, rowVars, exVars, histVars>>

Begin(w, o) ==
  /\ pc[w] = "idle"
  /\ o \notin guard
  /\ status[o] \in Processable \/ RetryableError(o)
  /\ Load(w, o)

\* unblock_next_trade_builder_order: one 'blocked' row of the trade, if any.
UnblockNext(st) ==
  LET blocked == {r \in Rows : st[r] = "blocked"}
  IN IF blocked = {} THEN status' = st
     ELSE \E r \in blocked : status' = [st EXCEPT ![r] = "pending"]

MaxTriggerReached(w) ==
  /\ pc[w] = "maxed"
  /\ UnblockNext(Write({cur[w]}, "completed"))
  /\ Release(w)
  /\ UNCHANGED <<active, fired, latched, exVars, histVars>>

\* expires_at has passed: the row forgets its exchange order without
\* canceling it.
ExpireTtl(w) ==
  /\ pc[w] = "loaded" /\ cur[w] \in Ttl
  /\ status' = Write({cur[w]}, "expired")
  /\ active' = [active EXCEPT ![cur[w]] = NoEx]
  /\ Drift(cur[w], active[cur[w]])
  /\ Release(w)
  /\ UNCHANGED <<fired, latched, exVars, cut>>

\* Outside the eligibility window, or the market cycle is over, with nothing
\* on the exchange; a stale cycle also expires the idle sibling exits.
ExpireWindow(w) ==
  /\ pc[w] = "loaded" /\ hand[w] = NoEx
  /\ \E stale \in BOOLEAN :
       status' = Write({cur[w]} \cup {r \in Siblings(cur[w]) :
                                        /\ stale
                                        /\ active[r] = NoEx
                                        /\ status[r] \in Processable},
                       "expired")
  /\ Release(w)
  /\ UNCHANGED <<active, fired, latched, exVars, histVars>>

\* Not yet eligible, no runtime price, bid confirmation missing.
Wait(w) ==
  /\ pc[w] = "loaded"
  /\ Release(w)
  /\ UNCHANGED <<rowVars, exVars, histVars>>

\* The stop-loss siblings a take profit has to look at.
OpenSiblings(o, S) ==
  {r \in Siblings(o) \cap S : status[r] \notin Terminal \cup {"none"}}

PreemptedStatus(ex) == IF ex = NoEx THEN "canceled" ELSE "canceled_requested"

\* Mutant: the stop loss is latched, the take profit goes on.
PreemptLatchesOnly(w) ==
  LET sls == OpenSiblings(cur[w], Sls)
  IN /\ pc[w] = "loaded" /\ cur[w] \in Tps
     /\ \E hit \in SUBSET sls :
          hit # {} /\ sls \cap latched \subseteq hit /\ latched' = latched \cup hit
     /\ Goto(w, "checked")
     /\ UNCHANGED <<status, active, fired, exVars, histVars>>

\* maybe_preempt_trade_builder_take_profit_for_stop_loss: the price hits a
\* stop-loss sibling (a latched one is always hit).  The stop loss is then
\* processed by id in a nested call, here by any free task: the call does
\* nothing when the row's guard is taken.
PreemptTakeProfit(w) ==
  LET o == cur[w]
      sls == OpenSiblings(o, Sls)
      tps == OpenSiblings(o, Tps)
  IN /\ pc[w] = "loaded" /\ o \in Tps
     /\ \E hit \in SUBSET sls :
          hit # {} /\ sls \cap latched \subseteq hit /\ latched' = latched \cup hit
     /\ status' = [r \in Rows |-> IF r = o THEN PreemptedStatus(hand[w])
                                  ELSE IF r \in tps THEN PreemptedStatus(active[r])
                                  ELSE status[r]]
     /\ IF hand[w] = NoEx THEN Release(w)
        ELSE /\ pc' = [pc EXCEPT ![w] = "checked"]
             /\ seen' = [seen EXCEPT ![w] = "canceled_requested"]
             /\ UNCHANGED <<guard, cur, hand, info>>
     /\ UNCHANGED <<active, fired, exVars, histVars>>

NotPreempted(w) ==
  /\ pc[w] = "loaded"
  /\ cur[w] \in Tps => OpenSiblings(cur[w], Sls) \cap latched = {}
  /\ Goto(w, "checked")
  /\ UNCHANGED <<rowVars, exVars, histVars>>

\* A cancel request with nothing on the exchange.
CanceledWithoutOpenOrder(w) ==
  /\ pc[w] = "checked" /\ hand[w] = NoEx /\ seen[w] = "canceled_requested"
  /\ status' = Write({cur[w]}, "canceled")
  /\ Release(w)
  /\ UNCHANGED <<active, fired, latched, exVars, histVars>>

TriggerNotMet(w) ==
  /\ pc[w] = "checked" /\ hand[w] = NoEx /\ seen[w] # "canceled_requested"
  /\ cur[w] \in Conditional \ latched
  /\ status' = IF seen[w] \in {"pending", "inventory_pending", "guard_blocked"}
               THEN Write({cur[w]}, "armed") ELSE status
  /\ Release(w)
  /\ UNCHANGED <<active, fired, latched, exVars, histVars>>

\* request_trade_builder_oco_cancel_for_siblings: a latched stop loss is
\* spared unless another stop loss asks.
OcoTargets(o, stopLossLatched) ==
  {r \in Siblings(o) : /\ status[r] \notin Terminal \cup {"none"}
                       /\ r \notin latched \/ stopLossLatched}

\* Mutant: the status the row was read with does not matter.
TriggerMetWhatever(w) ==
  LET o == cur[w]
      latches == o \in Sls \ latched
  IN /\ pc[w] = "checked" /\ hand[w] = NoEx
     /\ latched' = IF latches THEN latched \cup {o} ELSE latched
     /\ status' = IF latches THEN Write(OcoTargets(o, TRUE), "canceled_requested")
                  ELSE status
     /\ Goto(w, "submit")
     /\ UNCHANGED <<active, fired, exVars, histVars>>

TriggerMet(w) ==
  LET o == cur[w]
      latches == o \in Sls \ latched
  IN /\ pc[w] = "checked" /\ hand[w] = NoEx /\ seen[w] # "canceled_requested"
     /\ o \in Conditional
          \/ seen[w] \in {"pending", "armed", "triggered", "guard_blocked"}
     /\ latched' = IF latches THEN latched \cup {o} ELSE latched
     /\ status' = IF latches THEN Write(OcoTargets(o, TRUE), "canceled_requested")
                  ELSE status
     /\ Goto(w, "submit")
     /\ UNCHANGED <<active, fired, exVars, histVars>>

---------------------------------------------------------------------------
(* submit_trade_builder_trigger_order                                      *)

\* Guards, risk, minimum size and inventory: nothing is sent.
BlockedStatuses(o) ==
  IF o \in Buys THEN {"guard_blocked", "canceled", "blocked", "error"}
  ELSE {"blocked", "inventory_pending", "triggered"}

SubmitBlocked(w) ==
  /\ pc[w] = "submit"
  /\ \E s \in BlockedStatuses(cur[w]) :
       status' = Write({cur[w]}, s)
  /\ Release(w)
  /\ UNCHANGED <<active, fired, latched, exVars, histVars>>

\* normalize_exchange_status of a non-terminal answer or of a full match.
WorkingStatus(f) ==
  IF f = Full THEN "filled" ELSE IF f > 0 THEN "partially_filled" ELSE "open"

\* What the acknowledgement may say of an order that filled f at once
\* ("expired" is handled like "canceled").
Acks(f) ==
  IF f = Full THEN {"filled"} ELSE {WorkingStatus(f), "canceled", "rejected"}

\* The exchange takes an order of row o.
Accept(e, o, f, ack) ==
  /\ exSt[e] = "none"
  /\ exSt' = [exSt EXCEPT ![e] = CASE ack = "filled" -> "filled"
                                   [] ack \in {"open", "partially_filled"} -> "live"
                                   [] OTHER -> "canceled"]
  /\ exRow' = [exRow EXCEPT ![e] = o]
  /\ exFill' = [exFill EXCEPT ![e] = f]

Place(w) ==
  /\ pc[w] \in {"submit", "replace"}
  /\ \E e \in ExIds, f \in 0..Full : \E ack \in Acks(f) :
       /\ Accept(e, cur[w], f, ack)
       /\ hand' = [hand EXCEPT ![w] = e]
       /\ info' = [info EXCEPT ![w] = f]
       /\ seen' = [seen EXCEPT ![w] = ack]
  /\ pc' = [pc EXCEPT ![w] = "placed"]
  /\ UNCHANGED <<rowVars, guard, cur, histVars>>

\* An Err that leaves process_trade_builder_order: the housekeeping loop
\* stores it, the other callers only log it.
ErrorStatus(o) ==
  IF o \in Sls \cap latched /\ status[o] # "fatal" THEN "triggered" ELSE "error"
Stored(w) ==
  IF w \in Housekeepers THEN Write({cur[w]}, ErrorStatus(cur[w])) ELSE status

\* place answers Err, or a reprice falls below the market minimum.  A fatal
\* rejection is final; an exit that may retry forgets its exchange order
\* (canceled before, when this is a reprice).
PlaceFails(w) ==
  /\ pc[w] \in {"submit", "replace"}
  /\ \/ /\ status' = Write({cur[w]}, "fatal")
        /\ UNCHANGED active
     \/ /\ cur[w] \in Exits
        /\ \E s \in {"triggered", "inventory_pending", "blocked"} :
             status' = Write({cur[w]}, s)
        /\ active' = [active EXCEPT ![cur[w]] = NoEx]
     \/ /\ cur[w] \in Buys
        /\ status' = Stored(w)
        /\ UNCHANGED active
  /\ Release(w)
  /\ UNCHANGED <<fired, latched, exVars, histVars>>

\* The order was accepted, the answer was lost.
PlaceAnswerLost(w) ==
  /\ "lost_ack" \in Faults
  /\ pc[w] \in {"submit", "replace"}
  /\ \E e \in ExIds :
       /\ Accept(e, cur[w], 0, "open")
       /\ adrift' = adrift \cup {e}
  /\ IF cur[w] \in Exits
     THEN /\ status' = Write({cur[w]}, "triggered")
          /\ active' = [active EXCEPT ![cur[w]] = NoEx]
     ELSE status' = Stored(w) /\ UNCHANGED active
  /\ Release(w)
  /\ UNCHANGED <<fired, latched, cut>>

\* Mutant: the acknowledged id is not stored.
RecordStatusOnly(w) ==
  /\ pc[w] = "placed"
  /\ status' = Write({cur[w]}, seen[w])
  /\ IF seen[w] = "filled" THEN Goto(w, "count") ELSE Release(w)
  /\ UNCHANGED <<active, fired, latched, exVars, histVars>>

\* set_trade_builder_order_working_state after an acknowledged order.
Record(w) ==
  /\ pc[w] = "placed"
  /\ active' = [active EXCEPT ![cur[w]] = hand[w]]
  /\ status' = Write({cur[w]}, seen[w])
  /\ IF seen[w] = "filled" THEN Goto(w, "count") ELSE Release(w)
  /\ UNCHANGED <<fired, latched, exVars, histVars>>

---------------------------------------------------------------------------
(* reconcile_trade_builder_open_order                                      *)

\* client.cancel on a live order.
CancelOnExchange(w, next) ==
  /\ exSt[hand[w]] = "live"
  /\ exSt' = [exSt EXCEPT ![hand[w]] = "canceled"]
  /\ Goto(w, next)
  /\ UNCHANGED <<exRow, exFill>>

\* "matched orders can't be canceled": treated as a fill.
TerminalMatch(w) ==
  /\ exSt[hand[w]] = "filled"
  /\ Goto(w, "count")
  /\ UNCHANGED exVars

CancelRequested(w) ==
  /\ pc[w] = "checked" /\ hand[w] # NoEx /\ seen[w] = "canceled_requested"
  /\ CancelOnExchange(w, "cleared")
  /\ UNCHANGED <<rowVars, histVars>>

\* The canceled order may hold a fill: it is not looked at.
ClearCanceled(w) ==
  /\ pc[w] = "cleared"
  /\ status' = Write({cur[w]}, "canceled")
  /\ active' = [active EXCEPT ![cur[w]] = NoEx]
  /\ Drift(cur[w], hand[w])
  /\ Release(w)
  /\ UNCHANGED <<fired, latched, exVars, cut>>

\* client.cancel refuses an order that is no longer live: an error, except
\* for the terminal match above.
CancelRefused(w) ==
  /\ \/ /\ pc[w] = "checked" /\ hand[w] # NoEx /\ seen[w] = "canceled_requested"
        /\ Dead(hand[w])
     \/ pc[w] = "live" /\ exSt[hand[w]] = "canceled"
  /\ status' = Stored(w)
  /\ Release(w)
  /\ UNCHANGED <<active, fired, latched, exVars, histVars>>

\* Mutant: any terminal exchange status counts as a fill.
GetStatusTerminalIsFill(w) ==
  /\ pc[w] = "checked" /\ hand[w] # NoEx /\ seen[w] # "canceled_requested"
  /\ info' = [info EXCEPT ![w] = exFill[hand[w]]]
  /\ pc' = [pc EXCEPT ![w] = IF Dead(hand[w]) THEN "count" ELSE "live"]
  /\ UNCHANGED <<rowVars, guard, cur, seen, hand, exVars, histVars>>

GetStatus(w) ==
  /\ pc[w] = "checked" /\ hand[w] # NoEx /\ seen[w] # "canceled_requested"
  /\ info' = [info EXCEPT ![w] = exFill[hand[w]]]
  /\ pc' = [pc EXCEPT ![w] = CASE exSt[hand[w]] = "filled" -> "count"
                               [] exSt[hand[w]] = "canceled" -> "terminal"
                               [] OTHER -> "live"]
  /\ UNCHANGED <<rowVars, guard, cur, seen, hand, exVars, histVars>>

\* Mutant: a canceled buy is closed whatever it had filled.
TerminalBuyUnchecked(w) ==
  /\ pc[w] = "terminal" /\ cur[w] \in Buys
  /\ status' = Write({cur[w]}, "completed")
  /\ active' = [active EXCEPT ![cur[w]] = NoEx]
  /\ Release(w)
  /\ UNCHANGED <<fired, latched, exVars, histVars>>

\* A terminal exchange status (or, for a buy, the check after a cancel).
TerminalBuy(w) ==
  /\ pc[w] = "terminal" /\ cur[w] \in Buys
  /\ IF exFill[hand[w]] > 0
     THEN Goto(w, "count") /\ UNCHANGED <<status, active>>
     ELSE /\ status' = Write({cur[w]}, "completed")
          /\ active' = [active EXCEPT ![cur[w]] = NoEx]
          /\ Release(w)
  /\ UNCHANGED <<fired, latched, exVars, histVars>>

\* Every source of the post-cancel check failed or answered too early.
TerminalBuyBlind(w) ==
  /\ "blind" \in Faults
  /\ pc[w] = "terminal" /\ cur[w] \in Buys
  /\ exFill[hand[w]] > 0
  /\ status' = Write({cur[w]}, "completed")
  /\ active' = [active EXCEPT ![cur[w]] = NoEx]
  /\ Drift(cur[w], hand[w])
  /\ Release(w)
  /\ UNCHANGED <<fired, latched, exVars, cut>>

\* A latched stop loss that filled nothing is retried, or expires with the
\* market; any other exit is armed again.
TerminalExit(w) ==
  /\ pc[w] = "terminal" /\ cur[w] \in Exits
  /\ IF cur[w] \in latched /\ info[w] = 0
     THEN \E s \in {"triggered", "expired"} : status' = Write({cur[w]}, s)
     ELSE status' = Write({cur[w]}, "armed")
  /\ active' = [active EXCEPT ![cur[w]] = NoEx]
  /\ Release(w)
  /\ UNCHANGED <<fired, latched, exVars, histVars>>

KeepWorking(w) ==
  /\ pc[w] = "live"
  /\ active' = [active EXCEPT ![cur[w]] = hand[w]]
  /\ status' = Write({cur[w]}, WorkingStatus(info[w]))
  /\ Release(w)
  /\ UNCHANGED <<fired, latched, exVars, histVars>>

\* What is left of the order rounds to nothing: the row is closed before any
\* guard is looked at, its order neither canceled nor its fill counted.
NothingLeft(w) ==
  /\ pc[w] = "live" /\ info[w] > 0
  /\ status' = Write({cur[w]}, "completed")
  /\ active' = [active EXCEPT ![cur[w]] = NoEx]
  /\ Drift(cur[w], hand[w])
  /\ Release(w)
  /\ UNCHANGED <<fired, latched, exVars, cut>>

\* max_price / trigger-price guard on a working buy: cancel, then decide on
\* the filled size read before the cancel.
GuardCancel(w) ==
  /\ pc[w] = "live" /\ cur[w] \in Buys
  /\ CancelOnExchange(w, "guardcut") \/ TerminalMatch(w)
  /\ UNCHANGED <<rowVars, histVars>>

GuardCut(w) ==
  /\ pc[w] = "guardcut"
  /\ IF info[w] > 0
     THEN Goto(w, "count") /\ UNCHANGED <<status, active, adrift>>
     ELSE /\ \E s \in {"guard_blocked", "canceled"} : status' = Write({cur[w]}, s)
          /\ active' = [active EXCEPT ![cur[w]] = NoEx]
          /\ Drift(cur[w], hand[w])
          /\ Release(w)
  /\ UNCHANGED <<fired, latched, exVars, cut>>

\* Repricing an exit whose inventory is not visible: the row forgets an
\* exchange order nobody canceled.
InventoryNotVisible(w) ==
  /\ pc[w] = "live" /\ cur[w] \in Exits
  /\ \E s \in {"inventory_pending", "triggered"} : status' = Write({cur[w]}, s)
  /\ active' = [active EXCEPT ![cur[w]] = NoEx]
  /\ Drift(cur[w], hand[w])
  /\ Release(w)
  /\ UNCHANGED <<fired, latched, exVars, cut>>

\* Mutant: the replacement is placed while the old order still works.
RepriceWithoutCancel(w) ==
  /\ pc[w] = "live"
  /\ IF cur[w] \in Buys
     THEN CancelOnExchange(w, "terminal") \/ TerminalMatch(w)
     ELSE Goto(w, "replace") /\ UNCHANGED exVars
  /\ UNCHANGED <<rowVars, histVars>>

\* Cancel before repricing; an IOC buy is then settled, never placed again.
RepriceCancel(w) ==
  /\ pc[w] = "live"
  /\ CancelOnExchange(w, IF cur[w] \in Buys THEN "terminal" ELSE "replace")
       \/ TerminalMatch(w)
  /\ UNCHANGED <<rowVars, histVars>>

---------------------------------------------------------------------------
(* finalize_builder_fill                                                   *)

FinCount(w) ==
  /\ pc[w] = "count"
  /\ fired' = [fired EXCEPT ![cur[w]] = @ + 1]
  /\ Goto(w, "clear")
  /\ UNCHANGED <<status, active, latched, exVars, histVars>>

\* Mutant: finalization ends before the exits are created.
FinClearOnly(w) ==
  /\ pc[w] = "clear"
  /\ status' = Write({cur[w]}, "completed")
  /\ active' = [active EXCEPT ![cur[w]] = NoEx]
  /\ Goto(w, "end")
  /\ UNCHANGED <<fired, latched, exVars, histVars>>

FinClear(w) ==
  /\ pc[w] = "clear"
  /\ status' = Write({cur[w]}, "completed")
  /\ active' = [active EXCEPT ![cur[w]] = NoEx]
  /\ Goto(w, IF cur[w] \in Buys THEN "children" ELSE "oco")
  /\ UNCHANGED <<fired, latched, exVars, histVars>>

FinOco(w) ==
  /\ pc[w] = "oco"
  /\ status' = Write(OcoTargets(cur[w], FALSE), "canceled_requested")
  /\ Goto(w, "end")
  /\ UNCHANGED <<active, fired, latched, exVars, histVars>>

\* One exit at a time, the take profits first.
FinChild(w) ==
  LET todo == {r \in ExitsOf(cur[w]) : status[r] = "none"}
  IN /\ pc[w] = "children"
     /\ IF todo = {} THEN Goto(w, "end") /\ UNCHANGED status
        ELSE /\ \E r \in todo : /\ r \in Tps \/ todo \cap Tps = {}
                                /\ status' = Write({r}, "armed")
             /\ UNCHANGED taskVars
     /\ UNCHANGED <<active, fired, latched, exVars, histVars>>

FinEnd(w) ==
  /\ pc[w] = "end"
  /\ UnblockNext(status)
  /\ Release(w)
  /\ UNCHANGED <<active, fired, latched, exVars, histVars>>

---------------------------------------------------------------------------
(* What ends a task early, the other writers, the exchange.                *)

\* A database or exchange call of the task fails.
Fail(w) ==
  /\ "error" \in Faults
  /\ pc[w] # "idle"
  /\ status' = Stored(w)
  /\ adrift' = IF pc[w] = "placed" THEN adrift \cup {hand[w]} ELSE adrift
  /\ cut' = IF pc[w] \in Finalizing THEN cut \cup {cur[w]} ELSE cut
  /\ Release(w)
  /\ UNCHANGED <<active, fired, latched, exVars>>

\* Loading the user's configuration, its client or its recent fills fails
\* before the guard is taken; the row comes from a list read earlier, so its
\* status may be any by now.
LoadFails(w, o) ==
  /\ "error" \in Faults
  /\ w \in Housekeepers /\ pc[w] = "idle"
  /\ status[o] # "none"
  /\ status' = Write({o}, ErrorStatus(o))
  /\ UNCHANGED <<active, fired, latched, taskVars, exVars, histVars>>

\* The process dies; the guard set is process memory.
Crash ==
  /\ "crash" \in Faults
  /\ adrift' = adrift \cup {hand[w] : w \in {v \in Workers : pc[v] = "placed"}}
  /\ cut' = cut \cup {cur[w] : w \in {v \in Workers : pc[v] \in Finalizing}}
  /\ guard' = {}
  /\ pc' = [w \in Workers |-> "idle"]
  /\ cur' = [w \in Workers |-> NoRow]
  /\ seen' = [w \in Workers |-> "none"]
  /\ hand' = [w \in Workers |-> NoEx]
  /\ info' = [w \in Workers |-> 0]
  /\ UNCHANGED <<rowVars, exVars>>

\* requestCancelTradeBuilderOrder in the frontend: whatever the status.
UserCancel(o) ==
  /\ "user" \in Faults
  /\ status[o] # "none"
  /\ status' = Write({o}, IF active[o] = NoEx THEN "canceled"
                          ELSE "canceled_requested")
  /\ UNCHANGED <<active, fired, latched, taskVars, exVars, histVars>>

\* The flow run that created the buy is stopped.
FlowStopped(o) ==
  /\ "user" \in Faults
  /\ o \in Buys
  /\ status' = Write({o}, "canceled_requested")
  /\ UNCHANGED <<active, fired, latched, taskVars, exVars, histVars>>

ExchangeFills(e) ==
  /\ exSt[e] = "live"
  /\ exFill' = [exFill EXCEPT ![e] = @ + 1]
  /\ exSt' = [exSt EXCEPT ![e] = IF exFill[e] + 1 = Full THEN "filled" ELSE @]
  /\ UNCHANGED <<rowVars, taskVars, exRow, histVars>>

ExchangeCancels(e) ==
  /\ exSt[e] = "live"
  /\ exSt' = [exSt EXCEPT ![e] = "canceled"]
  /\ UNCHANGED <<rowVars, taskVars, exRow, exFill, histVars>>

Process(w) ==
  \/ \E o \in Rows : Begin(w, o)
  \/ MaxTriggerReached(w) \/ ExpireTtl(w) \/ ExpireWindow(w) \/ Wait(w)
  \/ PreemptTakeProfit(w) \/ NotPreempted(w) \/ CanceledWithoutOpenOrder(w)
  \/ TriggerNotMet(w) \/ TriggerMet(w)

Submit(w) ==
  SubmitBlocked(w) \/ Place(w) \/ PlaceFails(w) \/ PlaceAnswerLost(w) \/ Record(w)

Reconcile(w) ==
  \/ CancelRequested(w) \/ ClearCanceled(w) \/ CancelRefused(w)
  \/ GetStatus(w) \/ TerminalBuy(w) \/ TerminalBuyBlind(w) \/ TerminalExit(w)
  \/ KeepWorking(w) \/ NothingLeft(w) \/ GuardCancel(w) \/ GuardCut(w)
  \/ InventoryNotVisible(w) \/ RepriceCancel(w)

Finalize(w) == FinCount(w) \/ FinClear(w) \/ FinOco(w) \/ FinChild(w) \/ FinEnd(w)

Next ==
  \/ \E w \in Workers : Process(w) \/ Submit(w) \/ Reconcile(w) \/ Finalize(w)
                        \/ Fail(w) \/ \E o \in Rows : LoadFails(w, o)
  \/ Crash
  \/ \E o \in Rows : UserCancel(o) \/ FlowStopped(o)
  \/ \E e \in ExIds : ExchangeFills(e) \/ ExchangeCancels(e)

Spec == Init /\ [][Next]_vars

\* The steps of a task that holds a row.
Advance(w) ==
  \/ MaxTriggerReached(w) \/ ExpireWindow(w) \/ Wait(w) \/ PreemptTakeProfit(w)
  \/ NotPreempted(w) \/ CanceledWithoutOpenOrder(w)
  \/ TriggerNotMet(w) \/ TriggerMet(w)
  \/ Submit(w) \/ Reconcile(w) \/ Finalize(w)

\* Every await returns, every row is visited again and again, and a take
\* profit is not left without a runtime price for ever.
FairSpec ==
  /\ Spec
  /\ \A w \in Workers : WF_vars(Advance(w)) /\ SF_vars(PreemptTakeProfit(w))
  /\ \A o \in Rows : SF_vars(\E w \in Workers : Begin(w, o))

---------------------------------------------------------------------------
\* Every column, guard and exchange record has its type; the status column
\* only holds the words the code tests for (normalize_exchange_status).
TypeOK ==
  /\ status \in [Rows -> Statuses]
  /\ active \in [Rows -> ExIds \cup {NoEx}]
  /\ fired \in [Rows -> Nat]
  /\ latched \subseteq Sls
  /\ guard \subseteq Rows
  /\ pc \in [Workers -> Pcs]
  /\ cur \in [Workers -> Rows \cup {NoRow}]
  /\ seen \in [Workers -> Statuses]
  /\ hand \in [Workers -> ExIds \cup {NoEx}]
  /\ info \in [Workers -> 0..Full]
  /\ exSt \in [ExIds -> {"none", "live", "filled", "canceled"}]
  /\ exRow \in [ExIds -> Rows \cup {NoRow}]
  /\ exFill \in [ExIds -> 0..Full]
  /\ adrift \subseteq ExIds
  /\ cut \subseteq Rows

\* A task got the acknowledgement of e and has not stored it yet.
InHand(e) == \E w \in Workers : pc[w] = "placed" /\ hand[w] = e

\* An order that is live on the exchange is in the hand of the task that just
\* placed it or the active id of its row, and the row is one that some task
\* visits again or is in error, where only a latched stop loss is retried.
\* adrift holds the exceptions, an order each: expiry by expires_at
\* (ExpireTtl), an exit repriced without visible inventory
\* (InventoryNotVisible), a remainder that rounds to zero (NothingLeft), a lost
\* answer (PlaceAnswerLost), and a submit that failed or died between the
\* answer and its record (Fail, Crash).
LiveIsTracked ==
  \A e \in ExIds : exSt[e] = "live" =>
    \/ active[exRow[e]] = e /\ status[exRow[e]] \in Processable \cup {"error"}
    \/ InHand(e) \/ e \in adrift

\* Statuses in which a row keeps the id of its order although no task comes
\* back to it by itself: a stored error, and what the acknowledgement said.
Unvisited == {"error", "fatal", "filled", "canceled", "rejected"}

\* A fill of a buy is counted by finalize_builder_fill, or its order is in the
\* hand of a task or named by a row that is not closed; in particular the check
\* after a cancel finds a fill that came in while the cancel was under way.
\* The exceptions in adrift are those of LiveIsTracked for a buy and three
\* more: a cancel request on a partly filled order (ClearCanceled), the
\* max-price guard deciding on the size read before its cancel (GuardCut), and
\* a post-cancel check whose sources all failed (TerminalBuyBlind).
FillIsAccounted ==
  \A e \in ExIds : exRow[e] \in Buys /\ exFill[e] > 0 =>
    \/ fired[exRow[e]] > 0
    \/ active[exRow[e]] = e /\ status[exRow[e]] \in Processable \cup Unvisited
    \/ InHand(e) \/ e \in adrift

\* A single-trigger row fires once: websocket task, housekeeping and retries
\* after a crash never finalize the same row twice.
FiredOnce == \A o \in Rows : fired[o] <= 1

\* triggers_fired is only raised for a row the exchange filled: an expired or
\* canceled order never creates exits.
FiredIsFilled ==
  \A o \in Rows : fired[o] > 0 =>
    \E e \in ExIds : exRow[e] = o /\ exFill[e] > 0

\* When the task that finalized a buy has left it, every take profit and stop
\* loss of the buy exists, unless that finalization was interrupted.
EntryIsProtected ==
  \A o \in Buys : fired[o] > 0 /\ o \notin guard \cup cut =>
    \A r \in ExitsOf(o) : status[r] # "none"

\* Cancel-then-place never leaves a row with two live orders, whoever else
\* works on the row's siblings.
OneLivePerRow ==
  \A e, f \in ExIds :
    /\ exSt[e] = "live" /\ exSt[f] = "live"
    /\ exRow[e] = exRow[f]
    /\ {e, f} \cap adrift = {}
    => e = f

LiveExit(o) == \E e \in ExIds \ adrift : exRow[e] = o /\ exSt[e] = "live"

\* Cancellation is final: once a row is 'canceled', follows no exchange order
\* and no task is at work on it, it never gets another exchange order, although
\* the flow's stop writes the row again, whatever its status, and makes it
\* processable.  Two exceptions: a row that an acknowledgement closed as
\* 'canceled' keeps its exchange id, and a cancel request on it can bring a
\* latched stop loss back; and where calls fail, an error stored on a stop loss
\* (LoadFails) makes it one that is retried.
CanceledStaysOff ==
  \A o \in Rows, e \in ExIds :
    ("error" \in Faults => o \notin Sls) =>
      [](status[o] = "canceled" /\ active[o] = NoEx /\ o \notin guard /\ exRow[e] # o
           => [](exRow[e] # o))

\* Stop-loss priority: a take profit that is live on the exchange when the
\* stop loss of its family is latched is eventually filled or canceled (or the
\* stop loss itself is over).
StopLossWins ==
  \A s \in Sls, t \in Tps :
    s \in latched /\ status[s] \notin Terminal /\ LiveExit(t)
      ~> ~LiveExit(t) \/ status[s] \in Terminal
=============================================================================
