------------------------- MODULE BuilderOrderProofs -------------------------
(***************************************************************************)
(* Proofs about BuilderOrder for any number of families, tasks, exchange   *)
(* orders and faults.                                                      *)
(***************************************************************************)
EXTENDS BuilderOrder, TLAPS

\* A busy task holds the guard of its row and nobody else works on that row.
GuardInv ==
  /\ \A w \in Workers : pc[w] = "idle" <=> cur[w] = NoRow
  /\ \A w \in Workers : pc[w] # "idle" => cur[w] \in guard
  /\ \A v, w \in Workers : pc[v] # "idle" /\ cur[v] = cur[w] => v = w

\* What the exchange knows of an id.
ExchangeInv ==
  /\ \A e \in ExIds : exSt[e] = "none" => exFill[e] = 0 /\ exRow[e] = NoRow
  /\ \A e \in ExIds : exSt[e] # "none" => exRow[e] \in Rows
  /\ \A e \in ExIds : exSt[e] = "live" => exFill[e] < Full
  /\ \A e \in ExIds : exSt[e] = "filled" => exFill[e] = Full

\* active_exchange_order_id names an order of that row.
ActiveInv ==
  \A o \in Rows : active[o] # NoEx =>
    exSt[active[o]] # "none" /\ exRow[active[o]] = o

\* Steps at which the id a task read is still the row's active id.
Holding == {"loaded", "checked", "submit", "cleared", "terminal", "live",
            "guardcut", "replace", "count", "clear"}
\* Steps at which that order is known to be dead.
Settled == {"cleared", "terminal", "guardcut", "replace", "count", "clear"}

\* What a task may rely on although others write its row meanwhile.
TaskOK(w) ==
  /\ pc[w] \in Holding => hand[w] = active[cur[w]]
  /\ pc[w] = "submit" => hand[w] = NoEx
  /\ pc[w] \in Settled \cup {"live", "placed"} => hand[w] \in ExIds
  /\ pc[w] \in Settled => exSt[hand[w]] \in {"filled", "canceled"}
  /\ pc[w] \in {"live", "guardcut", "terminal", "placed"} =>
       info[w] <= exFill[hand[w]]
  /\ pc[w] = "count" => exFill[hand[w]] > 0
  /\ pc[w] = "placed" =>
       /\ exSt[hand[w]] # "none" /\ exRow[hand[w]] = cur[w]
       /\ active[cur[w]] # NoEx => exSt[active[cur[w]]] # "live"
       /\ active[cur[w]] # NoEx => cur[w] \in Exits
       /\ seen[w] = "filled" => exSt[hand[w]] = "filled"
       /\ seen[w] \in {"filled", "open", "partially_filled", "canceled", "rejected"}
       /\ seen[w] \in {"canceled", "rejected"} => exSt[hand[w]] # "live"
  /\ pc[w] = "replace" => cur[w] \in Exits
  /\ pc[w] \in {"guardcut", "children"} => cur[w] \in Buys
  /\ pc[w] = "oco" => cur[w] \in Exits

TaskInv == \A w \in Workers : TaskOK(w)

\* The trigger count along a task.
CountOK(w) ==
  /\ pc[w] \in (Holding \ {"clear"}) \cup {"placed"} => fired[cur[w]] = 0
  /\ pc[w] \in Finalizing \cup {"maxed"} => fired[cur[w]] = 1

CountInv == \A w \in Workers : CountOK(w)

\* Somebody is still on the way to the exits of o.
Creating(o) == \E w \in Workers : cur[w] = o /\ pc[w] \in {"clear", "children"}

ExitsInv ==
  \A o \in Buys : fired[o] > 0 /\ o \notin cut =>
    (\A r \in ExitsOf(o) : status[r] # "none") \/ Creating(o)

\* The exchange order of a row or of a task, whatever the row's status is.
Named(e) == active[exRow[e]] = e \/ InHand(e) \/ e \in adrift

LiveIsNamed == \A e \in ExIds : exSt[e] = "live" => Named(e)

FillIsNamed ==
  \A e \in ExIds : exRow[e] \in Buys /\ exFill[e] > 0 => fired[exRow[e]] > 0 \/ Named(e)

IInv ==
  /\ TypeOK /\ GuardInv /\ ExchangeInv /\ ActiveInv /\ TaskInv /\ CountInv
  /\ LiveIsNamed /\ FillIsNamed /\ FiredOnce /\ FiredIsFilled /\ ExitsInv

---------------------------------------------------------------------------
\* A status table that replaces st: well typed, and no inserted row is gone.
Keeps(st) ==
  /\ st \in [Rows -> Statuses]
  /\ \A r \in Rows : status[r] # "none" => st[r] # "none"

\* A status write keeps the table.
LEMMA WriteKeeps ==
  ASSUME TypeOK, NEW S, NEW s \in Statuses \ {"none"}
  PROVE  Keeps(Write(S, s))
BY DEF TypeOK, Keeps, Write

\* So does unblock_next_trade_builder_order.
LEMMA UnblockKeeps ==
  ASSUME TypeOK, NEW st, Keeps(st), UnblockNext(st)
  PROVE  Keeps(status')
BY DEF TypeOK, Keeps, UnblockNext, Statuses

\* Nothing of value falls out of the books when a task leaves its row.
Booked(w) ==
  \A e \in ExIds :
    /\ exRow[e] = cur[w]
    /\ exSt[e] = "live" \/ (cur[w] \in Buys /\ exFill[e] > 0 /\ fired[cur[w]] = 0)
    => active'[cur[w]] = e \/ e \in adrift'

\* The many ways a task leaves its row: it drops the guard, keeps the
\* exchange and the trigger counts, and changes the active id of its own row
\* only.
LEMMA Leave ==
  ASSUME IInv, NEW w \in Workers, pc[w] # "idle", Release(w), Keeps(status'),
         UNCHANGED <<fired, exVars>>, latched' \subseteq Sls,
         NEW x \in {NoEx, hand[w], active[cur[w]]},
         active' = [active EXCEPT ![cur[w]] = x],
         pc[w] = "placed" \/ x \in {NoEx, active[cur[w]]},
         adrift \subseteq adrift', adrift' \subseteq ExIds,
         cut \subseteq cut', cut' \subseteq Rows,
         Booked(w),
         pc[w] \in {"clear", "children"} => cur[w] \in cut'
  PROVE  IInv'
<1> USE BuilderAssumption DEF IInv
<1>0. cur[w] \in Rows /\ hand[w] \in ExIds \cup {NoEx}
      /\ active[cur[w]] \in ExIds \cup {NoEx}
  BY DEF TypeOK, GuardInv
<1>1. TypeOK'
  BY <1>0 DEF TypeOK, Release, exVars, Keeps, Pcs, Statuses
<1>2. GuardInv'
  BY <1>0 DEF TypeOK, GuardInv, Release
<1>3. ExchangeInv'
  BY DEF ExchangeInv, exVars
<1>4. ActiveInv'
  BY <1>0 DEF TypeOK, ActiveInv, TaskInv, TaskOK, exVars
<1>5. ASSUME NEW v \in Workers, pc'[v] # "idle"
      PROVE  /\ v # w /\ pc[v] # "idle" /\ cur[v] # cur[w] /\ cur[v] \in Rows
             /\ pc'[v] = pc[v] /\ cur'[v] = cur[v] /\ hand'[v] = hand[v]
             /\ info'[v] = info[v] /\ active'[cur[v]] = active[cur[v]]
             /\ seen'[v] = seen[v]
  BY <1>0, <1>5 DEF TypeOK, GuardInv, Release
<1>6. TaskInv'
  BY <1>5 DEF TypeOK, TaskInv, TaskOK, Holding, Settled, exVars
<1>7. CountInv'
  BY <1>5 DEF CountInv, CountOK, Holding, Finalizing, exVars
<1>8. ASSUME NEW e \in ExIds, InHand(e), exRow[e] # cur[w]
      PROVE  InHand(e)'
  <2>1. PICK v \in Workers : pc[v] = "placed" /\ hand[v] = e
    BY <1>8 DEF InHand
  <2>2. v # w
    BY <1>8, <2>1 DEF TaskInv, TaskOK
  <2> QED
    BY <2>1, <2>2 DEF InHand, Release, TypeOK
<1>9. LiveIsNamed'
  BY <1>0, <1>8 DEF TypeOK, LiveIsNamed, Named, ExchangeInv, Booked, exVars
<1>10. FillIsNamed'
  BY <1>0, <1>8 DEF TypeOK, FillIsNamed, Named, Booked, exVars
<1>11. FiredOnce' /\ FiredIsFilled'
  BY DEF FiredOnce, FiredIsFilled, exVars
<1>12. ExitsInv'
  <2> SUFFICES ASSUME NEW o \in Buys, fired'[o] > 0, o \notin cut',
                      NEW r \in ExitsOf(o), status'[r] = "none"
               PROVE  Creating(o)'
    BY DEF ExitsInv
  <2>1. r \in Rows /\ status[r] = "none"
    BY DEF ExitsOf, Keeps, TypeOK, Rows
  <2>2. PICK v \in Workers : cur[v] = o /\ pc[v] \in {"clear", "children"}
    BY <2>1 DEF ExitsInv, Creating
  <2>3. v # w
    BY <2>2
  <2> QED
    BY <2>2, <2>3 DEF Creating, Release, TypeOK
<1> QED
  BY <1>1, <1>2, <1>3, <1>4, <1>6, <1>7, <1>9, <1>10, <1>11, <1>12

\* Before a task leaves: what matters of its row is active, unless the task
\* has an acknowledged order in hand or it had left the books before.
LEMMA BookedBefore ==
  ASSUME IInv, NEW w \in Workers, pc[w] \notin {"idle", "placed"},
         NEW e \in ExIds, exRow[e] = cur[w],
         exSt[e] = "live" \/ (cur[w] \in Buys /\ exFill[e] > 0 /\ fired[cur[w]] = 0)
  PROVE  active[cur[w]] = e \/ e \in adrift
<1> USE DEF IInv
<1>1. ~InHand(e)
  BY DEF InHand, TaskInv, TaskOK, GuardInv
<1>2. fired[cur[w]] \in Nat
  BY DEF TypeOK, GuardInv
<1> QED
  BY <1>1, <1>2 DEF LiveIsNamed, FillIsNamed, Named

\* A task leaves and the columns active and triggers_fired stay.
LEMMA LeaveUntouched ==
  ASSUME IInv, NEW w \in Workers, pc[w] \notin {"idle", "placed"} \cup Finalizing,
         Release(w), Keeps(status'), UNCHANGED <<active, fired, exVars, histVars>>,
         latched' \subseteq Sls
  PROVE  IInv'
<1>1. Booked(w)
  BY BookedBefore DEF Booked, histVars
<1>2. active' = [active EXCEPT ![cur[w]] = active[cur[w]]]
  BY DEF IInv, TypeOK
<1> QED
  BY <1>1, <1>2, Leave DEF histVars, IInv, TypeOK, Finalizing

\* A task leaves and its row forgets the exchange order: either nothing of
\* value is on it or it is noted as adrift.
LEMMA LeaveCleared ==
  ASSUME IInv, NEW w \in Workers, pc[w] \notin {"idle", "placed"} \cup Finalizing,
         Release(w), Keeps(status'), UNCHANGED <<fired, latched, exVars, cut>>,
         active' = [active EXCEPT ![cur[w]] = NoEx],
         Drift(cur[w], active[cur[w]])
           \/ (UNCHANGED adrift /\ ~Slips(cur[w], active[cur[w]]))
  PROVE  IInv'
<1>0. cur[w] \in Rows /\ cut \subseteq Rows /\ adrift \subseteq ExIds
  BY DEF IInv, TypeOK, GuardInv
<1>1. Booked(w)
  BY BookedBefore DEF Booked, Drift, Slips
<1>2. adrift \subseteq adrift' /\ adrift' \subseteq ExIds
  BY <1>0 DEF Drift, Slips
<1> QED
  BY <1>0, <1>1, <1>2, Leave DEF IInv, TypeOK, Finalizing

---------------------------------------------------------------------------
(* The ends of process_trade_builder_order.                                *)

LEMMA ProcessEnds ==
  ASSUME IInv, NEW w \in Workers,
         \/ MaxTriggerReached(w) \/ ExpireTtl(w) \/ ExpireWindow(w) \/ Wait(w)
         \/ CanceledWithoutOpenOrder(w) \/ TriggerNotMet(w) \/ SubmitBlocked(w)
         \/ CancelRefused(w)
  PROVE  IInv'
<1> USE BuilderAssumption
<1>0. TypeOK /\ latched \subseteq Sls
  BY DEF IInv, TypeOK
<1>1. CASE MaxTriggerReached(w)
  <2>1. Keeps(Write({cur[w]}, "completed"))
    BY <1>0, WriteKeeps DEF Statuses
  <2>2. Keeps(status')
    BY <1>0, <1>1, <2>1, UnblockKeeps DEF MaxTriggerReached
  <2> QED
    BY <1>0, <1>1, <2>2, LeaveUntouched DEF MaxTriggerReached, Finalizing
<1>2. CASE ExpireTtl(w)
  <2>1. Keeps(status')
    BY <1>0, <1>2, WriteKeeps DEF ExpireTtl, Statuses
  <2> QED
    BY <1>2, <2>1, LeaveCleared DEF ExpireTtl, Finalizing
<1>3. CASE ExpireWindow(w)
  <2>1. Keeps(status')
    BY <1>0, <1>3, WriteKeeps DEF ExpireWindow, Statuses
  <2> QED
    BY <1>0, <1>3, <2>1, LeaveUntouched DEF ExpireWindow, Finalizing
<1>4. CASE Wait(w)
  BY <1>0, <1>4, LeaveUntouched DEF Wait, rowVars, Keeps, TypeOK, Finalizing
<1>5. CASE CanceledWithoutOpenOrder(w)
  <2>1. Keeps(status')
    BY <1>0, <1>5, WriteKeeps DEF CanceledWithoutOpenOrder, Statuses
  <2> QED
    BY <1>0, <1>5, <2>1, LeaveUntouched DEF CanceledWithoutOpenOrder, Finalizing
<1>6. CASE TriggerNotMet(w)
  <2>1. Keeps(status')
    BY <1>0, <1>6, WriteKeeps DEF TriggerNotMet, Statuses, Keeps, TypeOK
  <2> QED
    BY <1>0, <1>6, <2>1, LeaveUntouched DEF TriggerNotMet, Finalizing
<1>7. CASE SubmitBlocked(w)
  <2>1. Keeps(status')
    BY <1>0, <1>7, WriteKeeps DEF SubmitBlocked, BlockedStatuses, Statuses
  <2> QED
    BY <1>0, <1>7, <2>1, LeaveUntouched DEF SubmitBlocked, Finalizing
<1>8. CASE CancelRefused(w)
  <2>1. Keeps(status')
    BY <1>0, <1>8, WriteKeeps
       DEF CancelRefused, Stored, ErrorStatus, Statuses, Keeps, TypeOK
  <2> QED
    BY <1>0, <1>8, <2>1, LeaveUntouched DEF CancelRefused, Finalizing
<1> QED
  BY <1>1, <1>2, <1>3, <1>4, <1>5, <1>6, <1>7, <1>8

(* The ends of submit_trade_builder_trigger_order and                      *)
(* reconcile_trade_builder_open_order that let go of an exchange order.    *)

LEMMA ReconcileEnds ==
  ASSUME IInv, NEW w \in Workers,
         \/ PlaceFails(w) \/ ClearCanceled(w) \/ TerminalBuyBlind(w)
         \/ TerminalExit(w) \/ KeepWorking(w) \/ NothingLeft(w) \/ InventoryNotVisible(w)
         \/ (TerminalBuy(w) /\ exFill[hand[w]] = 0)
         \/ (GuardCut(w) /\ info[w] = 0)
  PROVE  IInv'
<1> USE BuilderAssumption
<1>0. /\ TypeOK /\ latched \subseteq Sls
      /\ pc[w] \in Holding => hand[w] = active[cur[w]]
      /\ pc[w] \in Settled => hand[w] \in ExIds /\ exSt[hand[w]] \in {"filled", "canceled"}
      /\ pc[w] = "submit" => hand[w] = NoEx
      /\ pc[w] = "replace" => cur[w] \in Exits
  BY DEF IInv, TypeOK, TaskInv, TaskOK
<1>1. CASE PlaceFails(w)
  <2>1. Keeps(status')
    BY <1>0, <1>1, WriteKeeps
       DEF PlaceFails, Stored, ErrorStatus, Statuses, Keeps, TypeOK
  <2>2. CASE UNCHANGED active
    BY <1>0, <1>1, <2>1, <2>2, LeaveUntouched DEF PlaceFails, Finalizing
  <2>3. CASE active' = [active EXCEPT ![cur[w]] = NoEx]
    <3>1. ~Slips(cur[w], active[cur[w]])
      BY <1>0, <1>1 DEF PlaceFails, Slips, Holding, Settled, Exits
    <3> QED
      BY <1>0, <1>1, <2>1, <2>3, <3>1, LeaveCleared DEF PlaceFails, Finalizing, histVars
  <2> QED
    BY <1>1, <2>2, <2>3 DEF PlaceFails
<1>2. CASE ClearCanceled(w)
  <2>1. Keeps(status')
    BY <1>0, <1>2, WriteKeeps DEF ClearCanceled, Statuses
  <2> QED
    BY <1>0, <1>2, <2>1, LeaveCleared DEF ClearCanceled, Finalizing, Holding
<1>3. CASE TerminalBuyBlind(w)
  <2>1. Keeps(status')
    BY <1>0, <1>3, WriteKeeps DEF TerminalBuyBlind, Statuses
  <2> QED
    BY <1>0, <1>3, <2>1, LeaveCleared DEF TerminalBuyBlind, Finalizing, Holding
<1>4. CASE TerminalExit(w)
  <2>1. Keeps(status')
    BY <1>0, <1>4, WriteKeeps DEF TerminalExit, Statuses
  <2>2. ~Slips(cur[w], active[cur[w]])
    BY <1>0, <1>4 DEF TerminalExit, Slips, Holding, Settled, Exits
  <2> QED
    BY <1>4, <2>1, <2>2, LeaveCleared DEF TerminalExit, Finalizing, histVars
<1>5. CASE KeepWorking(w)
  <2>1. Keeps(status')
    BY <1>0, <1>5, WriteKeeps DEF KeepWorking, WorkingStatus, Statuses
  <2>2. active' = active
    BY <1>0, <1>5 DEF KeepWorking, Holding, TypeOK
  <2> QED
    BY <1>0, <1>5, <2>1, <2>2, LeaveUntouched DEF KeepWorking, Finalizing
<1>6. CASE InventoryNotVisible(w)
  <2>1. Keeps(status')
    BY <1>0, <1>6, WriteKeeps DEF InventoryNotVisible, Statuses
  <2> QED
    BY <1>0, <1>6, <2>1, LeaveCleared DEF InventoryNotVisible, Finalizing, Holding
<1>7. CASE TerminalBuy(w) /\ exFill[hand[w]] = 0
  <2>1. Keeps(status')
    BY <1>0, <1>7, WriteKeeps DEF TerminalBuy, Statuses
  <2>2. ~Slips(cur[w], active[cur[w]])
    BY <1>0, <1>7 DEF TerminalBuy, Slips, Holding, Settled
  <2> QED
    BY <1>7, <2>1, <2>2, LeaveCleared DEF TerminalBuy, Finalizing, histVars
<1>8. CASE GuardCut(w) /\ info[w] = 0
  <2>1. Keeps(status')
    BY <1>0, <1>8, WriteKeeps DEF GuardCut, Statuses
  <2> QED
    BY <1>0, <1>8, <2>1, LeaveCleared DEF GuardCut, Finalizing, Holding
<1>9. CASE NothingLeft(w)
  <2>1. Keeps(status')
    BY <1>0, <1>9, WriteKeeps DEF NothingLeft, Statuses
  <2> QED
    BY <1>0, <1>9, <2>1, LeaveCleared DEF NothingLeft, Finalizing, Holding
<1> QED
  BY <1>1, <1>2, <1>3, <1>4, <1>5, <1>6, <1>7, <1>8, <1>9

\* An acknowledged order that is still working is recorded.
LEMMA RecordEnds ==
  ASSUME IInv, NEW w \in Workers, Record(w), seen[w] # "filled"
  PROVE  IInv'
<1> USE BuilderAssumption
<1>0. TypeOK /\ latched \subseteq Sls /\ cur[w] \in Rows
      /\ seen[w] \in Statuses \ {"none"}
  BY DEF IInv, TypeOK, GuardInv, TaskInv, TaskOK, Record
<1>1. Keeps(status')
  BY <1>0, WriteKeeps DEF Record
<1>2. Booked(w)
  <2> SUFFICES ASSUME NEW e \in ExIds, exRow[e] = cur[w],
                      \/ exSt[e] = "live"
                      \/ cur[w] \in Buys /\ exFill[e] > 0 /\ fired[cur[w]] = 0
               PROVE  hand[w] = e \/ e \in adrift
    BY <1>0 DEF Booked, Record, histVars, TypeOK
  <2>1. active[cur[w]] # e \/ (exSt[e] # "live" /\ cur[w] \in Exits)
    BY DEF IInv, TaskInv, TaskOK, Record
  <2>2. ~(active[cur[w]] = e)
    BY <2>1 DEF Exits
  <2>3. InHand(e) => hand[w] = e
    BY DEF InHand, IInv, TaskInv, TaskOK, GuardInv, Record
  <2>4. fired[cur[w]] \in Nat
    BY <1>0 DEF TypeOK
  <2> QED
    BY <2>2, <2>3, <2>4 DEF IInv, LiveIsNamed, FillIsNamed, Named
<1> QED
  BY <1>0, <1>1, <1>2, Leave DEF Record, histVars, TypeOK

\* The last step of a finalization, and a failed call anywhere.
LEMMA FinEndStep ==
  ASSUME IInv, NEW w \in Workers, FinEnd(w)
  PROVE  IInv'
<1> USE BuilderAssumption
<1>0. TypeOK /\ latched \subseteq Sls /\ Keeps(status)
  BY DEF IInv, TypeOK, Keeps
<1>1. Keeps(status')
  BY <1>0, UnblockKeeps DEF FinEnd
<1>2. Booked(w)
  BY BookedBefore DEF Booked, histVars, FinEnd
<1>3. active' = [active EXCEPT ![cur[w]] = active[cur[w]]]
  BY <1>0 DEF FinEnd, TypeOK
<1> QED
  BY <1>0, <1>1, <1>2, <1>3, Leave DEF FinEnd, histVars, TypeOK

LEMMA FailStep ==
  ASSUME IInv, NEW w \in Workers, Fail(w)
  PROVE  IInv'
<1> USE BuilderAssumption
<1>0. TypeOK /\ latched \subseteq Sls /\ cur[w] \in Rows /\ adrift \subseteq ExIds
      /\ (pc[w] = "placed" => hand[w] \in ExIds)
  BY DEF IInv, TypeOK, GuardInv, TaskInv, TaskOK, Fail
<1>1. Keeps(status')
  BY <1>0, WriteKeeps DEF Fail, Stored, ErrorStatus, Statuses, Keeps, TypeOK
<1>2. Booked(w)
  <2>1. CASE pc[w] # "placed"
    BY <2>1, BookedBefore DEF Booked, Fail
  <2>2. CASE pc[w] = "placed"
    <3> SUFFICES ASSUME NEW e \in ExIds, exRow[e] = cur[w],
                        \/ exSt[e] = "live"
                        \/ cur[w] \in Buys /\ exFill[e] > 0 /\ fired[cur[w]] = 0
                 PROVE  active[cur[w]] = e \/ hand[w] = e \/ e \in adrift
      BY <2>2 DEF Booked, Fail
    <3>1. InHand(e) => hand[w] = e
      BY <2>2 DEF InHand, IInv, TaskInv, TaskOK, GuardInv
    <3>2. fired[cur[w]] \in Nat
      BY <1>0 DEF TypeOK
    <3> QED
      BY <3>1, <3>2 DEF IInv, LiveIsNamed, FillIsNamed, Named
  <2> QED
    BY <2>1, <2>2
<1>3. active' = [active EXCEPT ![cur[w]] = active[cur[w]]]
  BY <1>0 DEF Fail, TypeOK
<1>4. adrift \subseteq adrift' /\ adrift' \subseteq ExIds
      /\ cut \subseteq cut' /\ cut' \subseteq Rows
  BY <1>0 DEF Fail, TypeOK
<1> QED
  BY <1>0, <1>1, <1>2, <1>3, <1>4, Leave DEF Fail, TypeOK, Finalizing

---------------------------------------------------------------------------
(* The steps inside a task.                                                *)

\* A task moves on: the exchange, the active ids and the counts stay, and the
\* task keeps its row and its exchange id.
LEMMA Move ==
  ASSUME IInv, NEW w \in Workers, NEW s \in Pcs \ {"idle", "placed"},
         pc[w] \notin {"idle", "placed", "clear", "children"},
         pc' = [pc EXCEPT ![w] = s], UNCHANGED <<guard, cur, hand>>,
         NEW i \in 0..Full, info' = [info EXCEPT ![w] = i],
         NEW q \in Statuses, seen' = [seen EXCEPT ![w] = q],
         Keeps(status'), latched' \subseteq Sls,
         UNCHANGED <<active, fired, exVars, histVars>>,
         TaskOK(w)', CountOK(w)'
  PROVE  IInv'
<1> USE BuilderAssumption DEF IInv
<1>1. TypeOK'
  BY DEF TypeOK, exVars, histVars, Keeps
<1>2. GuardInv'
  BY DEF TypeOK, GuardInv
<1>3. ExchangeInv' /\ ActiveInv' /\ FiredOnce' /\ FiredIsFilled'
  BY DEF ExchangeInv, ActiveInv, FiredOnce, FiredIsFilled, exVars
<1>4. ASSUME NEW v \in Workers, v # w
      PROVE  /\ pc'[v] = pc[v] /\ info'[v] = info[v]
             /\ cur'[v] = cur[v] /\ hand'[v] = hand[v] /\ seen'[v] = seen[v]
  BY <1>4 DEF TypeOK
<1>5. TaskInv'
  <2> SUFFICES ASSUME NEW v \in Workers, v # w PROVE TaskOK(v)'
    BY DEF TaskInv
  <2> QED
    BY <1>4 DEF TaskInv, TaskOK, exVars
<1>6. CountInv'
  <2> SUFFICES ASSUME NEW v \in Workers, v # w PROVE CountOK(v)'
    BY DEF CountInv
  <2> QED
    BY <1>4 DEF CountInv, CountOK
<1>7. \A e \in ExIds : InHand(e) => InHand(e)'
  BY <1>4 DEF InHand
<1>8. LiveIsNamed' /\ FillIsNamed'
  BY <1>7 DEF LiveIsNamed, FillIsNamed, Named, exVars, histVars
<1>9. ExitsInv'
  <2>1. \A o \in Buys : Creating(o) => Creating(o)'
    BY <1>4 DEF Creating
  <2>2. \A r \in Exits : status[r] # "none" => status'[r] # "none"
    BY DEF Keeps, Rows
  <2> QED
    BY <2>1, <2>2 DEF ExitsInv, ExitsOf, histVars
<1> QED
  BY <1>1, <1>2, <1>3, <1>5, <1>6, <1>8, <1>9

LEMMA ProcessMoves ==
  ASSUME IInv, NEW w \in Workers,
         NotPreempted(w) \/ TriggerMet(w) \/ PreemptTakeProfit(w)
  PROVE  IInv'
<1> USE BuilderAssumption
<1>0. /\ TypeOK /\ latched \subseteq Sls /\ TaskOK(w) /\ CountOK(w) /\ Keeps(status)
      /\ cur[w] \in Rows \cup {NoRow} /\ info[w] \in 0..Full
      /\ info = [info EXCEPT ![w] = info[w]]
      /\ seen[w] \in Statuses /\ seen = [seen EXCEPT ![w] = seen[w]]
      /\ pc[w] # "idle" => cur[w] \in Rows
  BY DEF IInv, TypeOK, TaskInv, CountInv, Keeps, GuardInv
<1>1. CASE NotPreempted(w)
  <2>1. pc' = [pc EXCEPT ![w] = "checked"] /\ pc'[w] = "checked"
    BY <1>0, <1>1 DEF NotPreempted, Goto, TypeOK
  <2>2. TaskOK(w)' /\ CountOK(w)'
    BY <1>0, <1>1, <2>1
       DEF NotPreempted, Goto, TaskOK, CountOK, Holding, Settled, Finalizing, rowVars, exVars
  <2>3. Keeps(status')
    BY <1>0, <1>1 DEF NotPreempted, rowVars, Keeps
  <2> QED
    BY <1>0, <1>1, <2>1, <2>2, <2>3, Move DEF NotPreempted, Goto, Pcs, rowVars, TypeOK
<1>2. CASE TriggerMet(w)
  <2>1. pc' = [pc EXCEPT ![w] = "submit"] /\ pc'[w] = "submit"
    BY <1>0, <1>2 DEF TriggerMet, Goto, TypeOK
  <2>2. TaskOK(w)' /\ CountOK(w)'
    BY <1>0, <1>2, <2>1
       DEF TriggerMet, Goto, TaskOK, CountOK, Holding, Settled, Finalizing, exVars
  <2>3. Keeps(status')
    BY <1>0, <1>2, WriteKeeps DEF TriggerMet, Statuses
  <2>4. latched' \subseteq Sls
    BY <1>0, <1>2 DEF TriggerMet
  <2> QED
    BY <1>0, <1>2, <2>1, <2>2, <2>3, <2>4, Move DEF TriggerMet, Goto, Pcs, TypeOK
<1>3. CASE PreemptTakeProfit(w)
  <2>1. Keeps(status')
    BY <1>0, <1>3
       DEF PreemptTakeProfit, PreemptedStatus, OpenSiblings, Keeps, TypeOK, Statuses
  <2>2. latched' \subseteq Sls
    BY <1>0, <1>3 DEF PreemptTakeProfit, OpenSiblings
  <2>3. CASE hand[w] = NoEx
    BY <1>0, <1>3, <2>1, <2>2, <2>3, LeaveUntouched DEF PreemptTakeProfit, Finalizing
  <2>4. CASE hand[w] # NoEx
    <3>1. pc' = [pc EXCEPT ![w] = "checked"] /\ pc'[w] = "checked"
          /\ UNCHANGED <<guard, cur, hand, info>>
          /\ seen' = [seen EXCEPT ![w] = "canceled_requested"]
          /\ "canceled_requested" \in Statuses
      BY <1>0, <1>3, <2>4 DEF PreemptTakeProfit, TypeOK, Statuses
    <3>2. TaskOK(w)' /\ CountOK(w)'
      BY <1>0, <1>3, <3>1
         DEF PreemptTakeProfit, TaskOK, CountOK, Holding, Settled, Finalizing, exVars
    <3> QED
      BY <1>0, <1>3, <2>1, <2>2, <3>1, <3>2, Move DEF PreemptTakeProfit, Pcs
  <2> QED
    BY <2>3, <2>4
<1> QED
  BY <1>1, <1>2, <1>3

LEMMA ReconcileMoves ==
  ASSUME IInv, NEW w \in Workers,
         \/ GetStatus(w)
         \/ (TerminalBuy(w) /\ exFill[hand[w]] > 0)
         \/ (GuardCut(w) /\ info[w] > 0)
         \/ (pc[w] = "live" /\ TerminalMatch(w) /\ UNCHANGED <<rowVars, histVars>>)
         \/ FinOco(w)
  PROVE  IInv'
<1> USE BuilderAssumption
<1>0. /\ TypeOK /\ latched \subseteq Sls /\ TaskOK(w) /\ CountOK(w) /\ Keeps(status)
      /\ info[w] \in 0..Full /\ info = [info EXCEPT ![w] = info[w]]
      /\ pc[w] # "idle" => cur[w] \in Rows
      /\ seen[w] \in Statuses /\ seen = [seen EXCEPT ![w] = seen[w]]
      /\ Full > 0
  BY DEF IInv, TypeOK, TaskInv, CountInv, Keeps, GuardInv
<1>1. CASE GetStatus(w)
  <2>1. hand[w] \in ExIds /\ hand[w] = active[cur[w]] /\ exSt[hand[w]] # "none"
        /\ exFill[hand[w]] \in 0..Full
    BY <1>0, <1>1 DEF GetStatus, TaskOK, Holding, IInv, ActiveInv, TypeOK
  <2>2. PICK s \in {"count", "terminal", "live"} :
          /\ pc' = [pc EXCEPT ![w] = s]
          /\ s = "count" => exSt[hand[w]] = "filled"
          /\ s = "terminal" => exSt[hand[w]] = "canceled"
    BY <1>1 DEF GetStatus
  <2>3. pc'[w] = s /\ info'[w] = exFill[hand[w]]
    BY <1>0, <1>1, <2>2 DEF GetStatus, TypeOK
  <2>4. exSt[hand[w]] = "filled" => exFill[hand[w]] > 0
    BY <1>0, <2>1 DEF IInv, ExchangeInv
  <2>5. TaskOK(w)' /\ CountOK(w)'
    BY <1>0, <1>1, <2>1, <2>2, <2>3, <2>4
       DEF GetStatus, TaskOK, CountOK, Holding, Settled, Finalizing, rowVars, exVars
  <2> QED
    BY <1>0, <1>1, <2>1, <2>2, <2>5, Move DEF GetStatus, Pcs, rowVars, Keeps
<1>2. CASE TerminalBuy(w) /\ exFill[hand[w]] > 0
  <2>1. pc' = [pc EXCEPT ![w] = "count"] /\ pc'[w] = "count"
    BY <1>0, <1>2 DEF TerminalBuy, Goto, TypeOK
  <2>2. TaskOK(w)' /\ CountOK(w)'
    BY <1>0, <1>2, <2>1
       DEF TerminalBuy, Goto, TaskOK, CountOK, Holding, Settled, Finalizing, exVars
  <2> QED
    BY <1>0, <1>2, <2>1, <2>2, Move DEF TerminalBuy, Goto, Pcs, Keeps
<1>3. CASE GuardCut(w) /\ info[w] > 0
  <2>1. pc' = [pc EXCEPT ![w] = "count"] /\ pc'[w] = "count"
    BY <1>0, <1>3 DEF GuardCut, Goto, TypeOK
  <2>2. exFill[hand[w]] > 0
    BY <1>0, <1>3 DEF GuardCut, TaskOK, Settled, TypeOK
  <2>3. TaskOK(w)' /\ CountOK(w)'
    BY <1>0, <1>3, <2>1, <2>2
       DEF GuardCut, Goto, TaskOK, CountOK, Holding, Settled, Finalizing, exVars
  <2> QED
    BY <1>0, <1>3, <2>1, <2>3, Move DEF GuardCut, Goto, Pcs, Keeps, histVars
<1>4. CASE pc[w] = "live" /\ TerminalMatch(w) /\ UNCHANGED <<rowVars, histVars>>
  <2>1. pc' = [pc EXCEPT ![w] = "count"] /\ pc'[w] = "count"
    BY <1>0, <1>4 DEF TerminalMatch, Goto, TypeOK
  <2>2. exFill[hand[w]] > 0
    BY <1>0, <1>4 DEF TerminalMatch, TaskOK, IInv, ExchangeInv
  <2>3. TaskOK(w)' /\ CountOK(w)'
    BY <1>0, <1>4, <2>1, <2>2
       DEF TerminalMatch, Goto, TaskOK, CountOK, Holding, Settled, Finalizing, exVars, rowVars
  <2> QED
    BY <1>0, <1>4, <2>1, <2>3, Move DEF TerminalMatch, Goto, Pcs, Keeps, rowVars
<1>5. CASE FinOco(w)
  <2>1. pc' = [pc EXCEPT ![w] = "end"] /\ pc'[w] = "end"
    BY <1>0, <1>5 DEF FinOco, Goto, TypeOK
  <2>2. TaskOK(w)' /\ CountOK(w)'
    BY <1>0, <1>5, <2>1
       DEF FinOco, Goto, TaskOK, CountOK, Holding, Settled, Finalizing, exVars
  <2>3. Keeps(status')
    BY <1>0, <1>5, WriteKeeps DEF FinOco, Statuses
  <2> QED
    BY <1>0, <1>5, <2>1, <2>2, <2>3, Move DEF FinOco, Goto, Pcs, Finalizing
<1> QED
  BY <1>1, <1>2, <1>3, <1>4, <1>5

\* finalize_builder_fill: the count, the cleared row, the exits.
LEMMA FinCountStep ==
  ASSUME IInv, NEW w \in Workers, FinCount(w)
  PROVE  IInv'
<1> USE BuilderAssumption DEF IInv
<1>0. /\ cur[w] \in Rows /\ fired[cur[w]] = 0 /\ hand[w] \in ExIds
      /\ hand[w] = active[cur[w]] /\ exFill[hand[w]] > 0 /\ exRow[hand[w]] = cur[w]
      /\ hand[w] # NoEx
  BY DEF TypeOK, GuardInv, TaskInv, TaskOK, CountInv, CountOK, ActiveInv, FinCount,
         Holding, Settled
<1>1. TypeOK'
  BY <1>0 DEF TypeOK, FinCount, Goto, Pcs, Finalizing, exVars, histVars
<1>2. GuardInv'
  BY DEF TypeOK, GuardInv, FinCount, Goto
<1>3. ExchangeInv' /\ ActiveInv'
  BY DEF ExchangeInv, ActiveInv, FinCount, exVars
<1>4. TaskInv'
  BY DEF TypeOK, TaskInv, TaskOK, FinCount, Goto, Holding, Settled, exVars
<1>5. CountInv'
  BY <1>0 DEF TypeOK, GuardInv, CountInv, CountOK, FinCount, Goto, Holding, Finalizing
<1>6. \A e \in ExIds : InHand(e) => InHand(e)'
  BY DEF InHand, FinCount, Goto, TypeOK
<1>7. LiveIsNamed' /\ FillIsNamed'
  BY <1>0, <1>6 DEF LiveIsNamed, FillIsNamed, Named, FinCount, exVars, histVars, TypeOK
<1>8. FiredOnce' /\ FiredIsFilled'
  BY <1>0 DEF FiredOnce, FiredIsFilled, FinCount, exVars, TypeOK
<1>9. ExitsInv'
  <2>1. \A o \in Buys : Creating(o) => Creating(o)'
    BY DEF Creating, FinCount, Goto, TypeOK
  <2>2. \A o \in Buys : o = cur[w] => Creating(o)'
    BY DEF Creating, FinCount, Goto, TypeOK
  <2>3. \A o \in Buys : o # cur[w] => fired'[o] = fired[o]
    BY DEF FinCount, TypeOK, Rows
  <2> QED
    BY <2>1, <2>2, <2>3 DEF ExitsInv, FinCount, histVars
<1> QED
  BY <1>1, <1>2, <1>3, <1>4, <1>5, <1>7, <1>8, <1>9

LEMMA FinClearStep ==
  ASSUME IInv, NEW w \in Workers, FinClear(w)
  PROVE  IInv'
<1> USE BuilderAssumption DEF IInv
<1>0. /\ cur[w] \in Rows /\ fired[cur[w]] = 1 /\ hand[w] \in ExIds
      /\ hand[w] = active[cur[w]] /\ exSt[hand[w]] # "live"
      /\ pc' = [pc EXCEPT ![w] = IF cur[w] \in Buys THEN "children" ELSE "oco"]
      /\ UNCHANGED <<guard, cur, hand, info, seen>>
      /\ cur[w] \in Buys \/ cur[w] \in Exits
  BY DEF TypeOK, GuardInv, TaskInv, TaskOK, CountInv, CountOK, FinClear, Goto,
         Holding, Settled, Finalizing, Rows
<1>1. TypeOK'
  <2>1. Keeps(status')
    BY WriteKeeps DEF FinClear, Statuses
  <2> QED
    BY <1>0, <2>1 DEF TypeOK, FinClear, Keeps, Pcs, Finalizing, exVars, histVars
<1>2. GuardInv'
  BY <1>0 DEF TypeOK, GuardInv
<1>3. ExchangeInv' /\ ActiveInv' /\ FiredOnce' /\ FiredIsFilled'
  BY <1>0 DEF ExchangeInv, ActiveInv, FiredOnce, FiredIsFilled, FinClear, exVars, TypeOK
<1>4. ASSUME NEW v \in Workers, v # w
      PROVE  /\ pc'[v] = pc[v] /\ cur'[v] = cur[v] /\ hand'[v] = hand[v]
             /\ info'[v] = info[v] /\ seen'[v] = seen[v]
             /\ pc[v] # "idle" => cur[v] \in Rows /\ active'[cur[v]] = active[cur[v]]
  BY <1>0, <1>4 DEF TypeOK, GuardInv, FinClear
<1>5. TaskInv'
  <2>1. TaskOK(w)'
    BY <1>0 DEF TaskOK, TypeOK, Holding, Settled
  <2>2. ASSUME NEW v \in Workers, v # w PROVE TaskOK(v)'
    BY <1>4, <2>2 DEF TaskInv, TaskOK, FinClear, exVars, Holding, Settled
  <2> QED
    BY <2>1, <2>2 DEF TaskInv
<1>6. CountInv'
  <2>1. CountOK(w)'
    BY <1>0 DEF CountOK, TypeOK, Holding, Finalizing, FinClear
  <2>2. ASSUME NEW v \in Workers, v # w PROVE CountOK(v)'
    BY <1>4, <2>2 DEF CountInv, CountOK, FinClear
  <2> QED
    BY <2>1, <2>2 DEF CountInv
<1>7. \A e \in ExIds : InHand(e) => InHand(e)'
  BY <1>0 DEF InHand, TypeOK, FinClear
<1>8. LiveIsNamed' /\ FillIsNamed'
  <2>1. ASSUME NEW e \in ExIds, exSt[e] = "live" PROVE active[exRow[e]] = e => active'[exRow[e]] = e
    BY <1>0, <2>1 DEF FinClear, TypeOK, ExchangeInv
  <2>2. ASSUME NEW e \in ExIds, exRow[e] \in Buys, fired[exRow[e]] = 0
        PROVE active'[exRow[e]] = active[exRow[e]]
    BY <1>0, <2>2 DEF FinClear, TypeOK, Rows
  <2>3. \A o \in Rows : fired[o] \in Nat
    BY DEF TypeOK
  <2> QED
    BY <1>7, <2>1, <2>2, <2>3
       DEF LiveIsNamed, FillIsNamed, Named, FinClear, exVars, histVars, Rows
<1>9. ExitsInv'
  <2>1. \A o \in Buys : Creating(o) => Creating(o)'
    BY <1>0 DEF Creating, TypeOK
  <2>2. Keeps(status')
    BY WriteKeeps DEF FinClear, Statuses
  <2> QED
    BY <2>1, <2>2 DEF ExitsInv, ExitsOf, FinClear, histVars, Keeps, Rows
<1> QED
  BY <1>1, <1>2, <1>3, <1>5, <1>6, <1>8, <1>9

LEMMA FinChildStep ==
  ASSUME IInv, NEW w \in Workers, FinChild(w)
  PROVE  IInv'
<1> USE BuilderAssumption DEF IInv
<1>0. cur[w] \in Buys /\ cur[w] \in Rows /\ fired[cur[w]] = 1
  BY DEF TypeOK, GuardInv, TaskInv, TaskOK, CountInv, CountOK, FinChild, Finalizing, Rows
<1>1. CASE {r \in ExitsOf(cur[w]) : status[r] = "none"} = {}
  <2>0. /\ pc[w] = "children" /\ pc' = [pc EXCEPT ![w] = "end"] /\ pc'[w] = "end"
        /\ UNCHANGED <<guard, cur, hand, info, seen, rowVars, exVars, histVars>>
    BY <1>1 DEF FinChild, Goto, TypeOK, rowVars
  <2>1. TypeOK' /\ GuardInv'
    BY <2>0 DEF TypeOK, GuardInv, Pcs, Finalizing, rowVars, exVars, histVars
  <2>2. ExchangeInv' /\ ActiveInv' /\ FiredOnce' /\ FiredIsFilled'
    BY <2>0 DEF ExchangeInv, ActiveInv, FiredOnce, FiredIsFilled, rowVars, exVars
  <2>3. TaskInv'
    BY <2>0 DEF TypeOK, TaskInv, TaskOK, Holding, Settled, rowVars, exVars
  <2>4. CountInv'
    BY <1>0, <2>0 DEF TypeOK, CountInv, CountOK, Holding, Finalizing, rowVars
  <2>5. \A e \in ExIds : InHand(e) => InHand(e)'
    BY <2>0 DEF InHand, TypeOK
  <2>6. LiveIsNamed' /\ FillIsNamed'
    BY <2>0, <2>5 DEF LiveIsNamed, FillIsNamed, Named, rowVars, exVars, histVars
  <2>7. ExitsInv'
    <3>1. \A o \in Buys : o # cur[w] /\ Creating(o) => Creating(o)'
      BY <2>0 DEF Creating, TypeOK
    <3> QED
      BY <1>1, <2>0, <3>1 DEF ExitsInv, rowVars, histVars, ExitsOf
  <2> QED
    BY <2>1, <2>2, <2>3, <2>4, <2>6, <2>7
<1>2. CASE {r \in ExitsOf(cur[w]) : status[r] = "none"} # {}
  <2>0. UNCHANGED <<taskVars, active, fired, latched, exVars, histVars>>
        /\ \E r \in Exits : status' = Write({r}, "armed")
    BY <1>2 DEF FinChild, ExitsOf
  <2>1. Keeps(status')
    BY <2>0, WriteKeeps DEF Statuses
  <2>2. TypeOK' /\ GuardInv'
    BY <2>0, <2>1 DEF TypeOK, GuardInv, taskVars, exVars, histVars, Keeps
  <2>3. ExchangeInv' /\ ActiveInv' /\ FiredOnce' /\ FiredIsFilled'
    BY <2>0 DEF ExchangeInv, ActiveInv, FiredOnce, FiredIsFilled, exVars
  <2>4. TaskInv' /\ CountInv'
    BY <2>0 DEF TaskInv, TaskOK, CountInv, CountOK, taskVars, exVars
  <2>5. LiveIsNamed' /\ FillIsNamed'
    BY <2>0 DEF LiveIsNamed, FillIsNamed, Named, InHand, taskVars, exVars, histVars
  <2>6. ExitsInv'
    BY <2>0, <2>1 DEF ExitsInv, ExitsOf, Creating, taskVars, histVars, Keeps, Rows
  <2> QED
    BY <2>2, <2>3, <2>4, <2>5, <2>6
<1> QED
  BY <1>1, <1>2

\* An acknowledged order that filled at once is recorded, then finalized.
LEMMA RecordFilled ==
  ASSUME IInv, NEW w \in Workers, Record(w), seen[w] = "filled"
  PROVE  IInv'
<1> USE BuilderAssumption DEF IInv
<1>0. /\ cur[w] \in Rows /\ fired[cur[w]] = 0 /\ hand[w] \in ExIds
      /\ exSt[hand[w]] = "filled" /\ exRow[hand[w]] = cur[w] /\ exFill[hand[w]] > 0
      /\ pc[w] = "placed"
      /\ pc' = [pc EXCEPT ![w] = "count"] /\ pc'[w] = "count"
      /\ UNCHANGED <<guard, cur, hand, info, seen>>
      /\ active' = [active EXCEPT ![cur[w]] = hand[w]]
      /\ UNCHANGED <<fired, latched, exVars, histVars>>
  BY DEF TypeOK, GuardInv, TaskInv, TaskOK, CountInv, CountOK, ExchangeInv, Record, Goto
<1>1. Keeps(status')
  BY WriteKeeps DEF Record, WorkingStatus, Statuses
<1>2. TypeOK' /\ GuardInv'
  BY <1>0, <1>1 DEF TypeOK, GuardInv, Keeps, Pcs, exVars, histVars
<1>3. ExchangeInv' /\ ActiveInv' /\ FiredOnce' /\ FiredIsFilled'
  BY <1>0 DEF ExchangeInv, ActiveInv, FiredOnce, FiredIsFilled, exVars, TypeOK
<1>4. ASSUME NEW v \in Workers, v # w
      PROVE  /\ pc'[v] = pc[v] /\ cur'[v] = cur[v] /\ hand'[v] = hand[v]
             /\ info'[v] = info[v] /\ seen'[v] = seen[v]
             /\ pc[v] # "idle" => cur[v] \in Rows /\ active'[cur[v]] = active[cur[v]]
  BY <1>0, <1>4 DEF TypeOK, GuardInv
<1>5. TaskInv'
  <2>1. TaskOK(w)'
    BY <1>0 DEF TaskOK, TypeOK, Holding, Settled, exVars
  <2>2. ASSUME NEW v \in Workers, v # w PROVE TaskOK(v)'
    BY <1>0, <1>4, <2>2 DEF TaskInv, TaskOK, exVars, Holding, Settled
  <2> QED
    BY <2>1, <2>2 DEF TaskInv
<1>6. CountInv'
  BY <1>0, <1>4 DEF CountInv, CountOK, Holding, Finalizing
<1>7. \A e \in ExIds : e # hand[w] /\ InHand(e) => InHand(e)'
  BY <1>0 DEF InHand, TypeOK
<1>8. ASSUME NEW e \in ExIds, e # hand[w], exRow[e] = cur[w],
             exSt[e] = "live" \/ cur[w] \in Buys, active[cur[w]] = e
      PROVE  FALSE
  BY <1>0, <1>8 DEF TaskInv, TaskOK, Exits
<1>9. LiveIsNamed'
  BY <1>0, <1>7, <1>8 DEF LiveIsNamed, Named, exVars, histVars, TypeOK
<1>10. FillIsNamed'
  BY <1>0, <1>7, <1>8 DEF FillIsNamed, Named, exVars, histVars, TypeOK
<1>11. ExitsInv'
  <2>1. \A o \in Buys : Creating(o) => Creating(o)'
    BY <1>0 DEF Creating, TypeOK
  <2> QED
    BY <1>0, <1>1, <2>1 DEF ExitsInv, ExitsOf, histVars, Keeps, Rows
<1> QED
  BY <1>2, <1>3, <1>5, <1>6, <1>9, <1>10, <1>11

\* A live order dies on the exchange.
Dies(e) == /\ exSt[e] = "live"
           /\ exSt' = [exSt EXCEPT ![e] = "canceled"]
           /\ UNCHANGED <<exRow, exFill>>

\* What holds of the exchange and the books after a cancel.
LEMMA DeathKeeps ==
  ASSUME IInv, NEW e \in ExIds, Dies(e), UNCHANGED <<rowVars, histVars, cur, hand>>,
         \A w \in Workers : pc[w] = "placed" => pc'[w] = "placed"
  PROVE  ExchangeInv' /\ ActiveInv' /\ LiveIsNamed' /\ FillIsNamed'
         /\ FiredOnce' /\ FiredIsFilled'
<1> USE BuilderAssumption DEF IInv, Dies
<1>1. ExchangeInv' /\ ActiveInv'
  BY DEF ExchangeInv, ActiveInv, TypeOK, rowVars
<1>2. \A f \in ExIds : InHand(f) => InHand(f)'
  BY DEF InHand
<1>3. LiveIsNamed' /\ FillIsNamed'
  BY <1>2 DEF LiveIsNamed, FillIsNamed, Named, TypeOK, rowVars, histVars
<1>4. FiredOnce' /\ FiredIsFilled'
  BY DEF FiredOnce, FiredIsFilled, rowVars
<1> QED
  BY <1>1, <1>3, <1>4

LEMMA ExchangeCancelsStep ==
  ASSUME IInv, NEW e \in ExIds, ExchangeCancels(e)
  PROVE  IInv'
<1> USE BuilderAssumption DEF IInv
<1>1. Dies(e) /\ UNCHANGED <<rowVars, taskVars, histVars>>
  BY DEF ExchangeCancels, Dies
<1>2. TypeOK' /\ GuardInv'
  BY <1>1 DEF TypeOK, GuardInv, Dies, rowVars, taskVars, histVars
<1>3. TaskInv'
  BY <1>1 DEF TaskInv, TaskOK, Dies, rowVars, taskVars, TypeOK, ExchangeInv
<1>4. CountInv' /\ ExitsInv'
  BY <1>1 DEF CountInv, CountOK, ExitsInv, Creating, rowVars, taskVars, histVars
<1>5. ExchangeInv' /\ ActiveInv' /\ LiveIsNamed' /\ FillIsNamed'
      /\ FiredOnce' /\ FiredIsFilled'
  BY <1>1, DeathKeeps DEF taskVars
<1> QED
  BY <1>2, <1>3, <1>4, <1>5

\* The task cancels the order it holds.
LEMMA CancelStep ==
  ASSUME IInv, NEW w \in Workers, NEW s \in {"cleared", "guardcut", "terminal", "replace"},
         pc[w] = "live" \/ (pc[w] = "checked" /\ hand[w] # NoEx),
         CancelOnExchange(w, s), UNCHANGED <<rowVars, histVars>>,
         s = "guardcut" => cur[w] \in Buys /\ pc[w] = "live",
         s = "terminal" => pc[w] = "live",
         s = "replace" => cur[w] \in Exits
  PROVE  IInv'
<1> USE BuilderAssumption DEF IInv
<1>0. /\ hand[w] \in ExIds /\ Dies(hand[w]) /\ hand[w] = active[cur[w]]
      /\ pc' = [pc EXCEPT ![w] = s] /\ pc'[w] = s
      /\ UNCHANGED <<guard, cur, seen, hand, info>>
      /\ cur[w] \in Rows /\ fired[cur[w]] = 0
  BY DEF TypeOK, TaskInv, TaskOK, GuardInv, CountInv, CountOK, CancelOnExchange, Goto,
         Dies, Holding
<1>1. TypeOK' /\ GuardInv'
  BY <1>0 DEF TypeOK, GuardInv, Dies, Pcs, rowVars, histVars
<1>2. TaskInv'
  <2>1. TaskOK(w)'
    BY <1>0 DEF TaskInv, TaskOK, Dies, TypeOK, Holding, Settled, rowVars
  <2>2. ASSUME NEW v \in Workers, v # w PROVE TaskOK(v)'
    <3>1. pc'[v] = pc[v]
      BY <1>0, <2>2 DEF TypeOK
    <3> QED
      BY <1>0, <2>2, <3>1 DEF TaskInv, TaskOK, Dies, TypeOK, rowVars, ExchangeInv
  <2> QED
    BY <2>1, <2>2 DEF TaskInv
<1>3. CountInv'
  BY <1>0 DEF CountInv, CountOK, TypeOK, Holding, Finalizing, rowVars
<1>4. ExitsInv'
  BY <1>0 DEF ExitsInv, Creating, TypeOK, rowVars, histVars
<1>5. ExchangeInv' /\ ActiveInv' /\ LiveIsNamed' /\ FillIsNamed'
      /\ FiredOnce' /\ FiredIsFilled'
  BY <1>0, DeathKeeps DEF TypeOK
<1> QED
  BY <1>1, <1>2, <1>3, <1>4, <1>5

LEMMA ExchangeFillsStep ==
  ASSUME IInv, NEW e \in ExIds, ExchangeFills(e)
  PROVE  IInv'
<1> USE BuilderAssumption DEF IInv, ExchangeFills
<1>0. exFill[e] \in 0..Full /\ exFill[e] < Full /\ Full \in Nat
  BY DEF TypeOK, ExchangeInv
<1>1. TypeOK'
  BY <1>0 DEF TypeOK, rowVars, taskVars, histVars
<1>2. GuardInv' /\ CountInv' /\ ExitsInv' /\ FiredOnce'
  BY DEF GuardInv, CountInv, CountOK, ExitsInv, Creating, FiredOnce, rowVars, taskVars,
         histVars
<1>3. ExchangeInv' /\ ActiveInv'
  BY <1>0 DEF ExchangeInv, ActiveInv, TypeOK, rowVars
<1>4. TaskInv'
  BY <1>0 DEF TaskInv, TaskOK, TypeOK, rowVars, taskVars, ExchangeInv
<1>5. LiveIsNamed'
  BY DEF LiveIsNamed, Named, InHand, TypeOK, rowVars, taskVars, histVars
<1>6. FillIsNamed'
  <2>1. \A f \in ExIds : f # e => exFill'[f] = exFill[f]
    BY DEF TypeOK
  <2> QED
    BY <2>1 DEF FillIsNamed, Named, LiveIsNamed, InHand, rowVars, taskVars, histVars
<1>7. FiredIsFilled'
  BY <1>0 DEF FiredIsFilled, TypeOK, rowVars
<1> QED
  BY <1>1, <1>2, <1>3, <1>4, <1>5, <1>6, <1>7

\* A new id is nobody's: no row and no task knows it.
LEMMA FreshId ==
  ASSUME IInv, NEW e \in ExIds, exSt[e] = "none"
  PROVE  /\ exFill[e] = 0 /\ exRow[e] = NoRow
         /\ \A o \in Rows : active[o] # e
         /\ \A v \in Workers :
              pc[v] \in Settled \cup {"live", "placed"} => hand[v] # e
<1> USE BuilderAssumption DEF IInv
<1>1. exFill[e] = 0 /\ exRow[e] = NoRow /\ \A o \in Rows : active[o] # e
  BY DEF ExchangeInv, ActiveInv
<1>2. ASSUME NEW v \in Workers, pc[v] \in Settled \cup {"live", "placed"}
      PROVE  hand[v] # e
  <2>1. cur[v] \in Rows
    BY <1>2 DEF TypeOK, GuardInv, Settled
  <2> QED
    BY <1>1, <1>2, <2>1 DEF TaskInv, TaskOK, Holding, Settled
<1> QED
  BY <1>1, <1>2

\* The exchange acknowledges a new order.
LEMMA PlaceStep ==
  ASSUME IInv, NEW w \in Workers, Place(w)
  PROVE  IInv'
<1> USE BuilderAssumption DEF IInv
<1>1. PICK e \in ExIds, f \in 0..Full : \E ack \in Acks(f) :
        /\ Accept(e, cur[w], f, ack)
        /\ hand' = [hand EXCEPT ![w] = e]
        /\ info' = [info EXCEPT ![w] = f]
        /\ seen' = [seen EXCEPT ![w] = ack]
  BY DEF Place
<1> PICK ack \in Acks(f) :
        /\ Accept(e, cur[w], f, ack)
        /\ hand' = [hand EXCEPT ![w] = e]
        /\ info' = [info EXCEPT ![w] = f]
        /\ seen' = [seen EXCEPT ![w] = ack]
  BY <1>1
<1>a. /\ ack \in Statuses \ {"none"}
      /\ ack \in {"filled", "open", "partially_filled", "canceled", "rejected"}
      /\ f = Full <=> ack = "filled"
      /\ exSt' = [exSt EXCEPT ![e] = exSt'[e]]
      /\ exSt'[e] = IF ack = "filled" THEN "filled"
                    ELSE IF ack \in {"open", "partially_filled"} THEN "live" ELSE "canceled"
  BY DEF Acks, WorkingStatus, Statuses, Accept, TypeOK
<1>2. /\ exSt[e] = "none" /\ exFill[e] = 0 /\ exRow[e] = NoRow
      /\ \A o \in Rows : active[o] # e
      /\ \A v \in Workers : pc[v] \in Settled \cup {"live", "placed"} => hand[v] # e
  BY FreshId DEF Accept
<1>3. /\ pc' = [pc EXCEPT ![w] = "placed"] /\ pc'[w] = "placed"
      /\ hand'[w] = e /\ info'[w] = f /\ seen'[w] = ack
      /\ UNCHANGED <<rowVars, guard, cur, histVars>>
      /\ pc[w] \in {"submit", "replace"}
      /\ cur[w] \in Rows /\ fired[cur[w]] = 0
      /\ active[cur[w]] # NoEx => cur[w] \in Exits /\ exSt[active[cur[w]]] # "live"
  BY DEF Place, TypeOK, GuardInv, CountInv, CountOK, TaskInv, TaskOK, Holding, Settled
<1>4. /\ exSt'[e] \in {"filled", "live", "canceled"}
      /\ exSt'[e] = "filled" <=> f = Full
      /\ exRow'[e] = cur[w] /\ exFill'[e] = f
      /\ \A g \in ExIds \ {e} : exSt'[g] = exSt[g] /\ exRow'[g] = exRow[g]
                                 /\ exFill'[g] = exFill[g]
  BY <1>a DEF Accept, TypeOK
<1>5. TypeOK' /\ GuardInv'
  <2>1. exSt' \in [ExIds -> {"none", "live", "filled", "canceled"}]
    BY <1>a, <1>4 DEF TypeOK
  <2>2. exRow' \in [ExIds -> Rows \cup {NoRow}] /\ exFill' \in [ExIds -> 0..Full]
    BY <1>3 DEF Accept, TypeOK
  <2> QED
    BY <1>a, <1>3, <2>1, <2>2 DEF TypeOK, GuardInv, Pcs, rowVars, histVars
<1>6. ExchangeInv'
  BY <1>3, <1>4 DEF ExchangeInv
<1>7. ActiveInv'
  BY <1>2, <1>3, <1>4 DEF ActiveInv, TypeOK, rowVars
<1>8. ASSUME NEW v \in Workers, v # w
      PROVE  /\ pc'[v] = pc[v] /\ hand'[v] = hand[v] /\ info'[v] = info[v]
             /\ seen'[v] = seen[v]
  BY <1>3, <1>8 DEF TypeOK
<1>9. TaskInv'
  <2>1. TaskOK(w)'
    <3>1. active[cur[w]] # e /\ active[cur[w]] \in ExIds \cup {NoEx}
      BY <1>2, <1>3 DEF TypeOK
    <3> QED
      BY <1>a, <1>3, <1>4, <3>1 DEF TaskOK, Holding, Settled, rowVars
  <2>2. ASSUME NEW v \in Workers, v # w PROVE TaskOK(v)'
    <3>1. pc[v] = "placed" => cur[v] \in Rows
      BY DEF TypeOK, GuardInv
    <3>2. pc[v] = "placed" => active[cur[v]] # e
      BY <1>2, <3>1
    <3>3. pc[v] \in Settled \cup {"live", "placed", "guardcut", "terminal"} =>
            hand[v] \in ExIds \ {e}
      BY <1>2 DEF TaskInv, TaskOK, Settled
    <3>4. pc[v] = "placed" => active[cur[v]] \in ExIds \cup {NoEx}
      BY <3>1 DEF TypeOK
    <3> QED
      BY <1>3, <1>4, <1>8, <2>2, <3>2, <3>3, <3>4
         DEF TaskInv, TaskOK, Holding, Settled, rowVars
  <2> QED
    BY <2>1, <2>2 DEF TaskInv
<1>10. CountInv'
  BY <1>3, <1>8 DEF CountInv, CountOK, Holding, Finalizing, rowVars
<1>11. \A g \in ExIds : InHand(g) => InHand(g)'
  BY <1>3, <1>8 DEF InHand
<1>12. InHand(e)'
  BY <1>3 DEF InHand
<1>13. LiveIsNamed' /\ FillIsNamed'
  BY <1>3, <1>4, <1>11, <1>12 DEF LiveIsNamed, FillIsNamed, Named, rowVars, histVars
<1>14. FiredOnce' /\ FiredIsFilled'
  BY <1>2, <1>3, <1>4 DEF FiredOnce, FiredIsFilled, rowVars
<1>15. ExitsInv'
  <2>1. \A o \in Buys : Creating(o) => Creating(o)'
    BY <1>3, <1>8 DEF Creating
  <2> QED
    BY <1>3, <2>1 DEF ExitsInv, rowVars, histVars
<1> QED
  BY <1>5, <1>6, <1>7, <1>9, <1>10, <1>13, <1>14, <1>15

\* The exchange accepts a new order and the answer is lost: the task leaves
\* its row as after any failed placement.
LEMMA PlaceAnswerLostStep ==
  ASSUME IInv, NEW w \in Workers, PlaceAnswerLost(w)
  PROVE  IInv'
<1> USE BuilderAssumption DEF IInv
<1>1. PICK e \in ExIds : Accept(e, cur[w], 0, "open") /\ adrift' = adrift \cup {e}
  BY DEF PlaceAnswerLost
<1>2. /\ exSt[e] = "none" /\ exFill[e] = 0 /\ exRow[e] = NoRow
      /\ \A o \in Rows : active[o] # e
      /\ \A v \in Workers : pc[v] \in Settled \cup {"live", "placed"} => hand[v] # e
  BY <1>1, FreshId DEF Accept
<1>3. /\ Release(w) /\ UNCHANGED <<fired, latched, cut>>
      /\ pc[w] \in {"submit", "replace"}
      /\ cur[w] \in Rows /\ fired[cur[w]] = 0
      /\ \/ active' = active
         \/ cur[w] \in Exits /\ active' = [active EXCEPT ![cur[w]] = NoEx]
      /\ active[cur[w]] # NoEx => exSt[active[cur[w]]] # "live"
  BY <1>1 DEF PlaceAnswerLost, TypeOK, GuardInv, CountInv, CountOK, TaskInv, TaskOK,
              Holding, Settled
<1>4. /\ exSt'[e] = "live" /\ exRow'[e] = cur[w] /\ exFill'[e] = 0
      /\ \A g \in ExIds \ {e} : exSt'[g] = exSt[g] /\ exRow'[g] = exRow[g]
                                 /\ exFill'[g] = exFill[g]
  BY <1>1 DEF Accept, TypeOK
<1>5. Keeps(status')
  BY WriteKeeps DEF PlaceAnswerLost, Stored, ErrorStatus, Statuses, Keeps, TypeOK
<1>6. TypeOK'
  BY <1>1, <1>3, <1>5 DEF TypeOK, Release, Accept, Keeps, Pcs, Statuses
<1>7. GuardInv'
  BY <1>3 DEF TypeOK, GuardInv, Release
<1>8. ExchangeInv'
  BY <1>3, <1>4 DEF ExchangeInv
<1>9. ActiveInv'
  BY <1>2, <1>3, <1>4 DEF ActiveInv, TypeOK
<1>10. ASSUME NEW v \in Workers, pc'[v] # "idle"
       PROVE  /\ v # w /\ pc[v] # "idle" /\ cur[v] # cur[w] /\ cur[v] \in Rows
              /\ pc'[v] = pc[v] /\ cur'[v] = cur[v] /\ hand'[v] = hand[v]
              /\ info'[v] = info[v] /\ active'[cur[v]] = active[cur[v]]
              /\ seen'[v] = seen[v]
              /\ active[cur[v]] \in (ExIds \ {e}) \cup {NoEx}
  BY <1>2, <1>3, <1>10 DEF TypeOK, GuardInv, Release
<1>11. TaskInv'
  <2> SUFFICES ASSUME NEW v \in Workers PROVE TaskOK(v)'
    BY DEF TaskInv
  <2>1. CASE pc'[v] = "idle"
    BY <2>1 DEF TaskOK, Holding, Settled
  <2>2. CASE pc'[v] # "idle"
    <3>1. pc[v] \in Settled \cup {"live", "placed", "guardcut", "terminal"} =>
            hand[v] \in ExIds \ {e}
      BY <1>2 DEF TaskInv, TaskOK, Settled
    <3> QED
      BY <1>4, <1>10, <2>2, <3>1 DEF TaskInv, TaskOK, Holding, Settled
  <2> QED
    BY <2>1, <2>2
<1>12. CountInv'
  BY <1>3, <1>10 DEF CountInv, CountOK, Holding, Finalizing
<1>13. \A g \in ExIds : InHand(g) => InHand(g)'
  BY <1>3 DEF InHand, Release, TypeOK
<1>14. LiveIsNamed'
  BY <1>1, <1>3, <1>4, <1>13 DEF LiveIsNamed, Named, TypeOK, ExchangeInv
<1>15. FillIsNamed'
  BY <1>1, <1>3, <1>4, <1>13 DEF FillIsNamed, Named, TypeOK, Exits, Rows
<1>16. FiredOnce' /\ FiredIsFilled'
  BY <1>2, <1>3, <1>4 DEF FiredOnce, FiredIsFilled
<1>17. ExitsInv'
  <2>1. \A o \in Buys : Creating(o) => Creating(o)'
    BY <1>3 DEF Creating, Release, TypeOK
  <2>2. \A r \in Exits : status[r] # "none" => status'[r] # "none"
    BY <1>5 DEF Keeps, Rows
  <2> QED
    BY <1>3, <2>1, <2>2 DEF ExitsInv, ExitsOf
<1> QED
  BY <1>6, <1>7, <1>8, <1>9, <1>11, <1>12, <1>14, <1>15, <1>16, <1>17

\* A task takes a row whose guard is free.
LEMMA BeginStep ==
  ASSUME IInv, NEW w \in Workers, NEW o \in Rows, Begin(w, o)
  PROVE  IInv'
<1> USE BuilderAssumption DEF IInv
<1>0. /\ pc[w] = "idle" /\ o \notin guard /\ fired[o] \in {0, 1}
      /\ pc' = [pc EXCEPT ![w] = IF fired[o] >= 1 THEN "maxed" ELSE "loaded"]
      /\ pc'[w] = IF fired[o] = 1 THEN "maxed" ELSE "loaded"
      /\ cur' = [cur EXCEPT ![w] = o] /\ cur'[w] = o
      /\ hand' = [hand EXCEPT ![w] = active[o]] /\ hand'[w] = active[o]
      /\ guard' = guard \cup {o}
      /\ UNCHANGED <<info, rowVars, exVars, histVars>>
  BY DEF Begin, Load, TypeOK, FiredOnce
<1>1. TypeOK'
  BY <1>0 DEF TypeOK, Begin, Load, Pcs, rowVars, exVars, histVars
<1>2. ASSUME NEW v \in Workers, v # w
      PROVE  /\ pc'[v] = pc[v] /\ cur'[v] = cur[v] /\ hand'[v] = hand[v]
             /\ info'[v] = info[v] /\ seen'[v] = seen[v]
  BY <1>2 DEF Begin, Load, TypeOK
<1>3. GuardInv'
  BY <1>0, <1>2 DEF GuardInv
<1>4. ExchangeInv' /\ ActiveInv' /\ FiredOnce' /\ FiredIsFilled'
  BY <1>0 DEF ExchangeInv, ActiveInv, FiredOnce, FiredIsFilled, rowVars, exVars
<1>5. TaskInv'
  <2>1. TaskOK(w)'
    BY <1>0 DEF TaskOK, Holding, Settled, rowVars
  <2>2. ASSUME NEW v \in Workers, v # w PROVE TaskOK(v)'
    BY <1>0, <1>2, <2>2 DEF TaskInv, TaskOK, rowVars, exVars
  <2> QED
    BY <2>1, <2>2 DEF TaskInv
<1>6. CountInv'
  BY <1>0, <1>2 DEF CountInv, CountOK, Holding, Finalizing, rowVars
<1>7. \A e \in ExIds : InHand(e) => InHand(e)'
  BY <1>0, <1>2 DEF InHand
<1>8. LiveIsNamed' /\ FillIsNamed'
  BY <1>0, <1>7 DEF LiveIsNamed, FillIsNamed, Named, rowVars, exVars, histVars
<1>9. ExitsInv'
  <2>1. \A b \in Buys : Creating(b) => Creating(b)'
    BY <1>0, <1>2 DEF Creating
  <2> QED
    BY <1>0, <2>1 DEF ExitsInv, rowVars, histVars
<1> QED
  BY <1>1, <1>3, <1>4, <1>5, <1>6, <1>8, <1>9

\* The process dies with whatever its tasks had in hand.
LEMMA CrashStep ==
  ASSUME IInv, Crash
  PROVE  IInv'
<1> USE BuilderAssumption DEF IInv
<1>0. /\ \A w \in Workers : pc'[w] = "idle" /\ cur'[w] = NoRow
      /\ UNCHANGED <<rowVars, exVars>>
      /\ adrift \subseteq adrift' /\ cut \subseteq cut'
  BY DEF Crash
<1>1. TypeOK'
  <2>1. adrift' \subseteq ExIds
    BY DEF Crash, TypeOK, TaskInv, TaskOK
  <2>2. cut' \subseteq Rows
    BY DEF Crash, TypeOK, GuardInv, Finalizing
  <2> QED
    BY <2>1, <2>2 DEF Crash, TypeOK, Pcs, Statuses, rowVars, exVars
<1>2. GuardInv' /\ TaskInv' /\ CountInv'
  BY <1>0 DEF GuardInv, TaskInv, TaskOK, CountInv, CountOK, Holding, Settled, Finalizing
<1>3. ExchangeInv' /\ ActiveInv' /\ FiredOnce' /\ FiredIsFilled'
  BY <1>0 DEF ExchangeInv, ActiveInv, FiredOnce, FiredIsFilled, rowVars, exVars
<1>4. \A e \in ExIds : InHand(e) => e \in adrift'
  BY DEF InHand, Crash
<1>5. LiveIsNamed' /\ FillIsNamed'
  BY <1>0, <1>4 DEF LiveIsNamed, FillIsNamed, Named, rowVars, exVars
<1>6. ExitsInv'
  <2>1. \A o \in Buys : Creating(o) => o \in cut'
    BY DEF Creating, Crash, Finalizing
  <2> QED
    BY <1>0, <2>1 DEF ExitsInv, rowVars
<1> QED
  BY <1>1, <1>2, <1>3, <1>5, <1>6

\* A writer that holds no guard changes the status column only.
LEMMA OutsideWriteStep ==
  ASSUME IInv, NEW o \in Rows,
         UserCancel(o) \/ FlowStopped(o) \/ \E w \in Workers : LoadFails(w, o)
  PROVE  IInv'
<1> USE BuilderAssumption DEF IInv
<1>0. UNCHANGED <<active, fired, latched, taskVars, exVars, histVars>>
  BY DEF UserCancel, FlowStopped, LoadFails
<1>1. Keeps(status')
  BY WriteKeeps DEF UserCancel, FlowStopped, LoadFails, ErrorStatus, Statuses
<1>2. TypeOK' /\ GuardInv'
  BY <1>0, <1>1 DEF TypeOK, GuardInv, taskVars, exVars, histVars, Keeps
<1>3. ExchangeInv' /\ ActiveInv' /\ FiredOnce' /\ FiredIsFilled'
  BY <1>0 DEF ExchangeInv, ActiveInv, FiredOnce, FiredIsFilled, exVars
<1>4. TaskInv' /\ CountInv'
  BY <1>0 DEF TaskInv, TaskOK, CountInv, CountOK, taskVars, exVars
<1>5. LiveIsNamed' /\ FillIsNamed'
  BY <1>0 DEF LiveIsNamed, FillIsNamed, Named, InHand, taskVars, exVars, histVars
<1>6. ExitsInv'
  BY <1>0, <1>1 DEF ExitsInv, ExitsOf, Creating, taskVars, histVars, Keeps, Rows
<1> QED
  BY <1>2, <1>3, <1>4, <1>5, <1>6

---------------------------------------------------------------------------
LEMMA IInvInit == Init => IInv
<1> USE BuilderAssumption
<1> SUFFICES ASSUME Init PROVE IInv
  OBVIOUS
<1>1. TypeOK
  BY DEF Init, TypeOK, Statuses, Pcs, Rows
<1>2. GuardInv /\ ExchangeInv /\ ActiveInv
  BY DEF Init, GuardInv, ExchangeInv, ActiveInv
<1>3. TaskInv /\ CountInv
  BY DEF Init, TaskInv, TaskOK, CountInv, CountOK, Holding, Settled, Finalizing
<1>4. LiveIsNamed /\ FillIsNamed /\ FiredOnce /\ FiredIsFilled
  BY DEF Init, LiveIsNamed, FillIsNamed, Named, FiredOnce, FiredIsFilled
<1>5. ExitsInv
  BY DEF Init, ExitsInv, Rows
<1> QED
  BY <1>1, <1>2, <1>3, <1>4, <1>5 DEF IInv

LEMMA ReconcileStep ==
  ASSUME IInv, NEW w \in Workers, Reconcile(w)
  PROVE  IInv'
<1> USE BuilderAssumption
<1>0. /\ pc[w] # "idle" => cur[w] \in Buys \/ cur[w] \in Exits
      /\ pc[w] = "terminal" => exFill[hand[w]] \in Nat
      /\ info[w] \in Nat
  BY DEF IInv, TypeOK, GuardInv, TaskInv, TaskOK, Settled, Rows
<1>1. CASE CancelRequested(w)
  BY <1>1, CancelStep DEF CancelRequested
<1>2. CASE TerminalBuy(w)
  <2>1. exFill[hand[w]] = 0 \/ exFill[hand[w]] > 0
    BY <1>0, <1>2 DEF TerminalBuy
  <2> QED
    BY <1>2, <2>1, ReconcileEnds, ReconcileMoves
<1>3. CASE GuardCut(w)
  <2>1. info[w] = 0 \/ info[w] > 0
    BY <1>0
  <2> QED
    BY <1>3, <2>1, ReconcileEnds, ReconcileMoves
<1>4. CASE GuardCancel(w)
  <2>1. CASE CancelOnExchange(w, "guardcut")
    BY <1>4, <2>1, CancelStep DEF GuardCancel
  <2>2. CASE TerminalMatch(w)
    BY <1>4, <2>2, ReconcileMoves DEF GuardCancel
  <2> QED
    BY <1>4, <2>1, <2>2 DEF GuardCancel
<1>5. CASE RepriceCancel(w)
  <2>1. CASE CancelOnExchange(w, "terminal") /\ cur[w] \in Buys
    BY <1>5, <2>1, CancelStep DEF RepriceCancel
  <2>2. CASE CancelOnExchange(w, "replace") /\ cur[w] \in Exits
    BY <1>5, <2>2, CancelStep DEF RepriceCancel
  <2>3. CASE TerminalMatch(w)
    BY <1>5, <2>3, ReconcileMoves DEF RepriceCancel
  <2> QED
    BY <1>0, <1>5, <2>1, <2>2, <2>3 DEF RepriceCancel
<1>6. CASE GetStatus(w)
  BY <1>6, ReconcileMoves
<1>7. CASE CancelRefused(w)
  BY <1>7, ProcessEnds
<1>8. CASE \/ ClearCanceled(w) \/ TerminalBuyBlind(w) \/ TerminalExit(w)
           \/ KeepWorking(w) \/ NothingLeft(w) \/ InventoryNotVisible(w)
  BY <1>8, ReconcileEnds
<1> QED
  BY <1>1, <1>2, <1>3, <1>4, <1>5, <1>6, <1>7, <1>8 DEF Reconcile

LEMMA IInvNext == IInv /\ [Next]_vars => IInv'
<1> USE BuilderAssumption
<1> SUFFICES ASSUME IInv, [Next]_vars PROVE IInv'
  OBVIOUS
<1>1. ASSUME NEW w \in Workers, Process(w) PROVE IInv'
  <2>1. CASE \E o \in Rows : Begin(w, o)
    BY <2>1, BeginStep
  <2>2. CASE \/ MaxTriggerReached(w) \/ ExpireTtl(w) \/ ExpireWindow(w) \/ Wait(w)
             \/ CanceledWithoutOpenOrder(w) \/ TriggerNotMet(w)
    BY <2>2, ProcessEnds
  <2>3. CASE NotPreempted(w) \/ TriggerMet(w) \/ PreemptTakeProfit(w)
    BY <2>3, ProcessMoves
  <2> QED
    BY <1>1, <2>1, <2>2, <2>3 DEF Process
<1>2. ASSUME NEW w \in Workers, Submit(w) PROVE IInv'
  BY <1>2, ProcessEnds, PlaceStep, ReconcileEnds, PlaceAnswerLostStep, RecordEnds,
     RecordFilled DEF Submit
<1>3. ASSUME NEW w \in Workers, Reconcile(w) PROVE IInv'
  BY <1>3, ReconcileStep
<1>4. ASSUME NEW w \in Workers, Finalize(w) PROVE IInv'
  BY <1>4, FinCountStep, FinClearStep, ReconcileMoves, FinChildStep, FinEndStep
     DEF Finalize
<1>5. ASSUME NEW w \in Workers, Fail(w) PROVE IInv'
  BY <1>5, FailStep
<1>10. ASSUME NEW w \in Workers, NEW o \in Rows, LoadFails(w, o) PROVE IInv'
  BY <1>10, OutsideWriteStep
<1>6. CASE Crash
  BY <1>6, CrashStep
<1>7. ASSUME NEW o \in Rows, UserCancel(o) \/ FlowStopped(o) PROVE IInv'
  BY <1>7, OutsideWriteStep
<1>8. ASSUME NEW e \in ExIds, ExchangeFills(e) \/ ExchangeCancels(e) PROVE IInv'
  BY <1>8, ExchangeFillsStep, ExchangeCancelsStep
<1>9. CASE UNCHANGED vars
  BY <1>9 DEF vars, rowVars, taskVars, exVars, histVars, IInv, TypeOK, GuardInv,
     ExchangeInv, ActiveInv, TaskInv, TaskOK, CountInv, CountOK, LiveIsNamed,
     FillIsNamed, Named, FiredOnce, FiredIsFilled, ExitsInv, Creating, InHand
<1> QED
  BY <1>1, <1>2, <1>3, <1>4, <1>5, <1>6, <1>7, <1>8, <1>9, <1>10 DEF Next

LEMMA IInvAlways == Spec => []IInv
BY IInvInit, IInvNext, PTL DEF Spec

---------------------------------------------------------------------------
\* A row that names an exchange order is not closed: it is one that some task
\* visits, or the order is dead and the row keeps what the exchange or the
\* error said of it, or the row has fired already.
StatusOK(o) ==
  active[o] # NoEx =>
    \/ fired[o] = 0 /\ status[o] \in Processable \cup {"error"}
    \/ exSt[active[o]] # "live" /\ (fired[o] = 0 => status[o] \in Unvisited)

StatusInv == \A o \in Rows : StatusOK(o)

\* What keeps the status of o in order: the row forgets its order, or it keeps
\* the order and the count, nobody revives the order, and whatever is written
\* makes a task come back or notes an error.
Orderly(o) ==
  \/ active'[o] = NoEx
  \/ /\ active'[o] = active[o] /\ fired'[o] = fired[o]
     /\ exSt'[active[o]] = "live" => exSt[active[o]] = "live"
     /\ status'[o] \in {status[o], "error"} \cup Processable

LEMMA OrderlyKeeps ==
  ASSUME NEW o \in Rows, StatusOK(o), Orderly(o)
  PROVE  StatusOK(o)'
BY DEF StatusOK, Orderly, Unvisited

LEMMA ProcessStatus ==
  ASSUME IInv, StatusInv, NEW w \in Workers, Process(w)
  PROVE  StatusInv'
<1> USE BuilderAssumption
<1> SUFFICES ASSUME NEW o \in Rows PROVE StatusOK(o)'
  BY DEF StatusInv
<1>0. /\ status \in [Rows -> Statuses] /\ active \in [Rows -> ExIds \cup {NoEx}]
      /\ StatusOK(o) /\ fired[o] \in Nat
      /\ pc[w] \in Holding => hand[w] = active[cur[w]]
      /\ pc[w] = "maxed" => fired[cur[w]] = 1 /\ StatusOK(cur[w])
      /\ UNCHANGED <<fired, exSt>>
  <2>1. UNCHANGED <<fired, exSt>>
    BY DEF Process, Begin, Load, MaxTriggerReached, ExpireTtl, ExpireWindow, Wait,
       PreemptTakeProfit, NotPreempted, CanceledWithoutOpenOrder, TriggerNotMet, TriggerMet,
       rowVars, exVars
  <2> QED
    BY <2>1 DEF IInv, TypeOK, StatusInv, TaskInv, TaskOK, CountInv, CountOK, GuardInv
<1>1. CASE MaxTriggerReached(w)
  <2>1. active' = active
    BY <1>1 DEF MaxTriggerReached
  <2>2. CASE o = cur[w]
    BY <1>0, <1>1, <2>1, <2>2 DEF MaxTriggerReached, StatusOK
  <2>3. CASE o # cur[w]
    <3>1. status'[o] \in {status[o], "pending"}
      BY <1>0, <1>1, <2>3 DEF MaxTriggerReached, UnblockNext, Write
    <3> QED
      BY <1>0, <2>1, <3>1, OrderlyKeeps DEF Orderly, Processable
  <2> QED
    BY <2>2, <2>3
<1>2. CASE ExpireTtl(w) \/ ExpireWindow(w) \/ Wait(w) \/ NotPreempted(w)
           \/ CanceledWithoutOpenOrder(w) \/ TriggerNotMet(w)
  BY <1>0, <1>2, OrderlyKeeps
     DEF ExpireTtl, ExpireWindow, Wait, NotPreempted, CanceledWithoutOpenOrder, TriggerNotMet,
         Orderly, Write, Processable, Holding, rowVars
<1>3. CASE PreemptTakeProfit(w)
  <2>1. /\ active' = active
        /\ pc[w] = "loaded"
        /\ status' = [r \in Rows |->
                        IF r = cur[w] THEN PreemptedStatus(hand[w])
                        ELSE IF r \in OpenSiblings(cur[w], Tps) THEN PreemptedStatus(active[r])
                        ELSE status[r]]
    BY <1>3 DEF PreemptTakeProfit
  <2>2. Orderly(o)
    BY <1>0, <2>1 DEF Orderly, PreemptedStatus, Processable, Holding
  <2> QED
    BY <1>0, <2>2, OrderlyKeeps
<1>4. CASE TriggerMet(w)
  BY <1>0, <1>4, OrderlyKeeps DEF TriggerMet, Orderly, Write, Processable
<1>5. CASE \E r \in Rows : Begin(w, r)
  BY <1>0, <1>5, OrderlyKeeps DEF Begin, Load, Orderly, rowVars
<1> QED
  BY <1>1, <1>2, <1>3, <1>4, <1>5 DEF Process

LEMMA SubmitStatus ==
  ASSUME IInv, StatusInv, NEW w \in Workers, Submit(w)
  PROVE  StatusInv'
<1> USE BuilderAssumption
<1> SUFFICES ASSUME NEW o \in Rows PROVE StatusOK(o)'
  BY DEF StatusInv
<1>0. /\ status \in [Rows -> Statuses] /\ active \in [Rows -> ExIds \cup {NoEx}]
      /\ exSt \in [ExIds -> {"none", "live", "filled", "canceled"}]
      /\ StatusOK(o) /\ fired[o] \in Nat
      /\ TaskOK(w) /\ CountOK(w) /\ UNCHANGED fired
      /\ \A e \in ExIds : exSt[e] = "none" => active[o] # e
  BY FreshId DEF IInv, TypeOK, StatusInv, TaskInv, CountInv, GuardInv, Submit, SubmitBlocked,
     Place, PlaceFails, PlaceAnswerLost, Record, rowVars
<1>1. CASE SubmitBlocked(w)
  BY <1>0, <1>1, OrderlyKeeps
     DEF SubmitBlocked, BlockedStatuses, Orderly, Write, TaskOK, Holding, exVars
<1>2. CASE Place(w)
  <2>1. UNCHANGED <<status, active>> /\ \E e \in ExIds : exSt[e] = "none"
                                       /\ exSt' = [exSt EXCEPT ![e] = exSt'[e]]
    BY <1>0, <1>2 DEF Place, Accept, rowVars
  <2> QED
    BY <1>0, <2>1, OrderlyKeeps DEF Orderly
<1>3. CASE PlaceAnswerLost(w)
  <2>1. \E e \in ExIds : exSt[e] = "none" /\ exSt' = [exSt EXCEPT ![e] = exSt'[e]]
    BY <1>0, <1>3 DEF PlaceAnswerLost, Accept
  <2>2. Orderly(o)
    BY <1>0, <1>3, <2>1
       DEF PlaceAnswerLost, Orderly, Stored, ErrorStatus, Write, Processable
  <2> QED
    BY <1>0, <2>2, OrderlyKeeps
<1>4. CASE PlaceFails(w)
  <2>1. exSt' = exSt /\ pc[w] \in {"submit", "replace"} /\ hand[w] = active[cur[w]]
    BY <1>0, <1>4 DEF PlaceFails, exVars, TaskOK, Holding
  <2>2. CASE status' = Write({cur[w]}, "fatal") /\ UNCHANGED active
    BY <1>0, <2>1, <2>2 DEF StatusOK, Write, Unvisited, TaskOK, CountOK, Holding, Settled
  <2>3. CASE active' = [active EXCEPT ![cur[w]] = NoEx]
             /\ \E s \in {"triggered", "inventory_pending", "blocked"} :
                  status' = Write({cur[w]}, s)
    BY <1>0, <2>1, <2>3, OrderlyKeeps DEF Orderly, Write
  <2>4. CASE status' = Stored(w) /\ UNCHANGED active
    BY <1>0, <2>1, <2>4, OrderlyKeeps DEF Orderly, Stored, ErrorStatus, Write, Processable
  <2> QED
    BY <1>4, <2>2, <2>3, <2>4 DEF PlaceFails
<1>5. CASE Record(w)
  <2>1. /\ exSt' = exSt /\ pc[w] = "placed"
        /\ active'[o] = IF o = cur[w] THEN hand[w] ELSE active[o]
        /\ status'[o] = IF o = cur[w] THEN seen[w] ELSE status[o]
    BY <1>0, <1>5 DEF Record, Write, exVars
  <2>2. CASE o # cur[w]
    BY <1>0, <2>1, <2>2, OrderlyKeeps DEF Orderly
  <2>3. CASE o = cur[w]
    BY <1>0, <2>1, <2>3 DEF StatusOK, TaskOK, CountOK, Unvisited, Processable
  <2> QED
    BY <2>2, <2>3
<1> QED
  BY <1>1, <1>2, <1>3, <1>4, <1>5 DEF Submit

LEMMA ReconcileStatus ==
  ASSUME IInv, StatusInv, NEW w \in Workers, Reconcile(w)
  PROVE  StatusInv'
<1> USE BuilderAssumption
<1> SUFFICES ASSUME NEW o \in Rows PROVE StatusOK(o)'
  BY DEF StatusInv
<1>0. /\ status \in [Rows -> Statuses] /\ active \in [Rows -> ExIds \cup {NoEx}]
      /\ exSt \in [ExIds -> {"none", "live", "filled", "canceled"}]
      /\ StatusOK(o) /\ fired[o] \in Nat /\ info[w] \in 0..Full
      /\ TaskOK(w) /\ CountOK(w) /\ ExchangeInv
      /\ \A e \in ExIds : exFill[e] \in 0..Full
  BY DEF IInv, TypeOK, StatusInv, TaskInv, CountInv
<1>1. CASE \/ ClearCanceled(w) \/ TerminalBuy(w) \/ TerminalBuyBlind(w)
           \/ TerminalExit(w) \/ NothingLeft(w) \/ GuardCut(w) \/ InventoryNotVisible(w)
  <2>1. Orderly(o)
    BY <1>0, <1>1 DEF ClearCanceled, TerminalBuy, TerminalBuyBlind, TerminalExit, NothingLeft,
       GuardCut, InventoryNotVisible, Orderly, Write, exVars
  <2> QED
    BY <1>0, <2>1, OrderlyKeeps
<1>2. CASE CancelRequested(w) \/ GetStatus(w) \/ GuardCancel(w) \/ RepriceCancel(w)
  <2>1. /\ UNCHANGED <<status, active, fired>>
        /\ exSt' = exSt \/ exSt' = [exSt EXCEPT ![hand[w]] = "canceled"]
    BY <1>2 DEF CancelRequested, GetStatus, GuardCancel, RepriceCancel, CancelOnExchange,
       TerminalMatch, rowVars, exVars
  <2> QED
    BY <1>0, <2>1, OrderlyKeeps DEF Orderly
<1>3. CASE CancelRefused(w)
  BY <1>0, <1>3, OrderlyKeeps
     DEF CancelRefused, Orderly, Stored, ErrorStatus, Write, Processable, exVars
<1>4. CASE KeepWorking(w)
  <2>1. /\ exSt' = exSt /\ fired' = fired /\ pc[w] = "live" /\ active' = active
        /\ hand[w] = active[cur[w]] /\ hand[w] \in ExIds
        /\ status'[o] = IF o = cur[w] THEN WorkingStatus(info[w]) ELSE status[o]
    BY <1>0, <1>4 DEF KeepWorking, Write, TaskOK, Holding, exVars
  <2>2. CASE o # cur[w] \/ info[w] # Full
    BY <1>0, <2>1, <2>2, OrderlyKeeps DEF Orderly, WorkingStatus, Processable
  <2>3. CASE o = cur[w] /\ info[w] = Full
    <3>1. exSt[hand[w]] # "live"
      BY <1>0, <2>1, <2>3 DEF TaskOK, ExchangeInv
    <3> QED
      BY <2>1, <2>3, <3>1 DEF StatusOK, WorkingStatus, Unvisited
  <2> QED
    BY <2>2, <2>3
<1> QED
  BY <1>1, <1>2, <1>3, <1>4 DEF Reconcile

LEMMA FinalizeStatus ==
  ASSUME IInv, StatusInv, NEW w \in Workers, Finalize(w)
  PROVE  StatusInv'
<1> USE BuilderAssumption
<1> SUFFICES ASSUME NEW o \in Rows PROVE StatusOK(o)'
  BY DEF StatusInv
<1>0. /\ status \in [Rows -> Statuses] /\ active \in [Rows -> ExIds \cup {NoEx}]
      /\ fired \in [Rows -> Nat]
      /\ StatusOK(o) /\ TaskOK(w) /\ UNCHANGED exSt
  BY DEF IInv, TypeOK, StatusInv, TaskInv, Finalize, FinCount, FinClear, FinOco, FinChild,
     FinEnd, exVars
<1>1. CASE FinCount(w)
  <2>1. CASE o = cur[w]
    <3>1. fired'[o] > 0 /\ active' = active /\ exSt[active[o]] # "live"
      BY <1>0, <1>1, <2>1 DEF FinCount, TaskOK, Holding, Settled
    <3> QED
      BY <1>0, <3>1 DEF StatusOK
  <2>2. CASE o # cur[w]
    BY <1>0, <1>1, <2>2, OrderlyKeeps DEF FinCount, Orderly
  <2> QED
    BY <2>1, <2>2
<1>2. CASE FinClear(w)
  BY <1>0, <1>2, OrderlyKeeps DEF FinClear, Orderly, Write
<1>3. CASE FinOco(w)
  BY <1>0, <1>3, OrderlyKeeps DEF FinOco, Orderly, Write, Processable
<1>4. CASE FinChild(w)
  BY <1>0, <1>4, OrderlyKeeps DEF FinChild, Orderly, Write, Processable
<1>5. CASE FinEnd(w)
  BY <1>0, <1>5, OrderlyKeeps DEF FinEnd, UnblockNext, Orderly, Processable
<1> QED
  BY <1>1, <1>2, <1>3, <1>4, <1>5 DEF Finalize

LEMMA StatusInvNext == IInv /\ StatusInv /\ [Next]_vars => StatusInv'
<1> USE BuilderAssumption
<1> SUFFICES ASSUME IInv, StatusInv, [Next]_vars PROVE StatusInv'
  OBVIOUS
<1>0. /\ status \in [Rows -> Statuses] /\ active \in [Rows -> ExIds \cup {NoEx}]
      /\ exSt \in [ExIds -> {"none", "live", "filled", "canceled"}]
      /\ \A o \in Rows : StatusOK(o)
  BY DEF IInv, TypeOK, StatusInv
<1>1. ASSUME NEW w \in Workers, Fail(w) PROVE StatusInv'
  <2>1. \A o \in Rows : Orderly(o)
    BY <1>0, <1>1 DEF Fail, Orderly, Stored, ErrorStatus, Write, Processable, exVars
  <2> QED
    BY <1>0, <2>1, OrderlyKeeps DEF StatusInv
<1>2. ASSUME NEW r \in Rows,
             UserCancel(r) \/ FlowStopped(r) \/ \E w \in Workers : LoadFails(w, r)
      PROVE  StatusInv'
  <2>1. \A o \in Rows : Orderly(o)
    BY <1>0, <1>2 DEF UserCancel, FlowStopped, LoadFails, Orderly, ErrorStatus, Write,
       Processable, exVars
  <2> QED
    BY <1>0, <2>1, OrderlyKeeps DEF StatusInv
<1>3. ASSUME NEW e \in ExIds, ExchangeFills(e) \/ ExchangeCancels(e)
      PROVE  StatusInv'
  <2>1. \A o \in Rows : Orderly(o)
    BY <1>0, <1>3 DEF ExchangeFills, ExchangeCancels, Orderly, rowVars
  <2> QED
    BY <1>0, <2>1, OrderlyKeeps DEF StatusInv
<1>4. CASE Crash \/ UNCHANGED vars
  BY <1>4 DEF Crash, vars, rowVars, exVars, StatusInv, StatusOK
<1> QED
  BY <1>1, <1>2, <1>3, <1>4, ProcessStatus, SubmitStatus, ReconcileStatus, FinalizeStatus
     DEF Next

LEMMA StatusInvAlways == Spec => [](IInv /\ StatusInv)
<1>1. Init => StatusInv
  BY DEF Init, StatusInv, StatusOK
<1> QED
  BY <1>1, StatusInvNext, IInvAlways, PTL DEF Spec

\* One live order per row follows: what is live and tracked is the active
\* order or the one in the hand of the row's only task.
LEMMA IInvOneLive == IInv => OneLivePerRow
<1> USE BuilderAssumption DEF IInv
<1> SUFFICES ASSUME IInv, NEW e \in ExIds, NEW f \in ExIds,
                    exSt[e] = "live", exSt[f] = "live", exRow[e] = exRow[f],
                    e \notin adrift, f \notin adrift
             PROVE  e = f
  BY DEF OneLivePerRow
<1>0. exRow[e] \in Rows
  BY DEF ExchangeInv
<1>1. ASSUME NEW g \in ExIds, NEW h \in ExIds, InHand(g), active[exRow[h]] = h,
             exRow[g] = exRow[h], exSt[h] = "live", exSt[g] = "live"
      PROVE  FALSE
  <2>1. PICK v \in Workers : pc[v] = "placed" /\ hand[v] = g
    BY <1>1 DEF InHand
  <2> QED
    BY <1>1, <2>1 DEF TaskInv, TaskOK
<1>2. CASE InHand(e) /\ InHand(f)
  BY <1>2 DEF InHand, TaskInv, TaskOK, GuardInv
<1>3. CASE active[exRow[e]] = e /\ active[exRow[f]] = f
  BY <1>3
<1>4. (active[exRow[e]] = e \/ InHand(e)) /\ (active[exRow[f]] = f \/ InHand(f))
  BY DEF LiveIsNamed, Named
<1> QED
  BY <1>1, <1>2, <1>3, <1>4

\* So does the protection of an entry: whoever is still creating exits holds
\* the guard of the buy.
LEMMA IInvProtected == IInv => EntryIsProtected
<1> USE BuilderAssumption DEF IInv
<1> SUFFICES ASSUME IInv, NEW o \in Buys, fired[o] > 0, o \notin guard, o \notin cut,
                    NEW r \in ExitsOf(o)
             PROVE  status[r] # "none"
  BY DEF EntryIsProtected
<1>1. ~Creating(o)
  BY DEF Creating, GuardInv
<1> QED
  BY <1>1 DEF ExitsInv

---------------------------------------------------------------------------
\* A row that is off: it follows no exchange order, its status lets no task
\* submit it, and a task that took it up did so on a cancel request.
OffStatuses == {"canceled", "canceled_requested", "expired", "completed", "error"}

OffTask(w) ==
  /\ pc[w] \in {"loaded", "checked", "maxed"}
  /\ hand[w] = NoEx /\ seen[w] = "canceled_requested"

Off(o) ==
  /\ active[o] = NoEx
  /\ status[o] \in OffStatuses
  /\ status[o] = "error" \/ "error" \in Faults => o \notin Sls
  /\ \A w \in Workers : cur[w] = o => OffTask(w)

\* A step keeps o off and gives it no exchange order.
StaysOff(o) == Off(o)' /\ \A e \in ExIds : exRow'[e] = o => exRow[e] = o

\* What a step may write into the status of a row that is off.
WritesOff(o) ==
  \/ status'[o] \in {status[o]} \cup (OffStatuses \ {"error"})
  \/ status'[o] = "error" /\ "error" \in Faults

\* The steps of a task that is at work on another row.
LEMMA OtherRowStaysOff ==
  ASSUME IInv, NEW o \in Rows, Off(o), NEW w \in Workers, cur[w] # o, cur'[w] # o,
         WritesOff(o), active'[o] = active[o],
         \A v \in Workers \ {w} :
           cur'[v] = cur[v] /\ pc'[v] = pc[v] /\ hand'[v] = hand[v] /\ seen'[v] = seen[v],
         \A e \in ExIds : exRow'[e] = o => exRow[e] = o
  PROVE  StaysOff(o)
BY DEF StaysOff, Off, OffTask, WritesOff, OffStatuses

\* The task that is at work on a row that is off leaves it.
LEMMA LeavesOff ==
  ASSUME IInv, NEW o \in Rows, Off(o), NEW w \in Workers, cur[w] = o, Release(w),
         WritesOff(o), active'[o] = NoEx, UNCHANGED exRow
  PROVE  StaysOff(o)
<1> USE BuilderAssumption
<1>1. \A v \in Workers : cur'[v] # o
  BY DEF IInv, TypeOK, GuardInv, Release, Off, OffTask
<1> QED
  BY <1>1 DEF StaysOff, Off, WritesOff, OffStatuses

\* The steps of the task that is at work on a row that is off.
LEMMA OwnStepStaysOff ==
  ASSUME IInv, NEW o \in Rows, Off(o), NEW w \in Workers, cur[w] = o,
         Process(w) \/ Submit(w) \/ Reconcile(w) \/ Finalize(w) \/ Fail(w)
  PROVE  StaysOff(o)
<1> USE BuilderAssumption
<1>0. OffTask(w) /\ status \in [Rows -> Statuses] /\ active \in [Rows -> ExIds \cup {NoEx}]
      /\ active[o] = NoEx
  BY DEF Off, IInv, TypeOK
<1>1. CASE MaxTriggerReached(w)
  <2>1. status'[o] = "completed"
    BY <1>0, <1>1 DEF MaxTriggerReached, UnblockNext, Write
  <2> QED
    BY <1>0, <1>1, <2>1, LeavesOff DEF MaxTriggerReached, WritesOff, OffStatuses, exVars
<1>2. CASE ExpireTtl(w) \/ ExpireWindow(w) \/ CanceledWithoutOpenOrder(w) \/ Wait(w)
  <2>1. Release(w) /\ WritesOff(o) /\ active'[o] = NoEx /\ UNCHANGED exRow
    BY <1>0, <1>2 DEF ExpireTtl, ExpireWindow, CanceledWithoutOpenOrder, Wait, Write, WritesOff,
       OffStatuses, exVars, rowVars
  <2> QED
    BY <2>1, LeavesOff
<1>3. CASE PreemptTakeProfit(w)
  <2>1. Release(w) /\ status'[o] = "canceled" /\ active'[o] = NoEx /\ UNCHANGED exRow
    BY <1>0, <1>3 DEF PreemptTakeProfit, OffTask, PreemptedStatus, exVars
  <2> QED
    BY <2>1, LeavesOff DEF WritesOff, OffStatuses
<1>4. CASE NotPreempted(w)
  <2>1. UNCHANGED <<status, active, exRow, cur, hand, seen>>
        /\ pc' = [pc EXCEPT ![w] = "checked"]
    BY <1>4 DEF NotPreempted, Goto, rowVars, exVars
  <2> QED
    BY <1>0, <2>1 DEF StaysOff, Off, OffTask, IInv, TypeOK
<1>5. CASE Fail(w)
  <2>1. Release(w) /\ active'[o] = NoEx /\ UNCHANGED exRow /\ "error" \in Faults
    BY <1>0, <1>5 DEF Fail, exVars
  <2>2. o \notin Sls
    BY <2>1 DEF Off
  <2>3. WritesOff(o)
    BY <1>0, <1>5, <2>1, <2>2 DEF Fail, Stored, Write, ErrorStatus, WritesOff
  <2> QED
    BY <2>1, <2>3, LeavesOff
<1>6. CASE \E r \in Rows : Begin(w, r)
  BY <1>0, <1>6 DEF Begin, OffTask
<1>7. CASE TriggerNotMet(w) \/ TriggerMet(w)
  BY <1>0, <1>7 DEF TriggerNotMet, TriggerMet, OffTask
<1>8. CASE Submit(w)
  BY <1>0, <1>8 DEF Submit, SubmitBlocked, Place, PlaceFails, PlaceAnswerLost, Record, OffTask
<1>9. CASE Reconcile(w)
  BY <1>0, <1>9 DEF Reconcile, CancelRequested, ClearCanceled, CancelRefused, GetStatus, TerminalBuy,
     TerminalBuyBlind, TerminalExit, KeepWorking, NothingLeft, GuardCancel, GuardCut, InventoryNotVisible,
     RepriceCancel, OffTask
<1>10. CASE Finalize(w)
  BY <1>0, <1>10 DEF Finalize, FinCount, FinClear, FinOco, FinChild, FinEnd, OffTask
<1> QED
  BY <1>1, <1>2, <1>3, <1>4, <1>5, <1>6, <1>7, <1>8, <1>9, <1>10 DEF Process

\* What a step of a task at work on another row may do to a row that is off.
LEMMA OtherStepWrites ==
  ASSUME IInv, NEW o \in Rows, Off(o), NEW w \in Workers, cur[w] # o,
         Process(w) \/ Submit(w) \/ Reconcile(w) \/ Finalize(w) \/ Fail(w)
  PROVE  /\ status'[o] \in {status[o], "expired", "canceled", "canceled_requested"}
         /\ active'[o] = active[o]
         /\ \A e \in ExIds : exRow'[e] = o => exRow[e] = o
<1> USE BuilderAssumption
<1>0. status \in [Rows -> Statuses] /\ active \in [Rows -> ExIds \cup {NoEx}]
      /\ exRow \in [ExIds -> Rows \cup {NoRow}]
      /\ status[o] \in OffStatuses
  BY DEF Off, IInv, TypeOK
<1>1. CASE Process(w)
  <2>1. CASE MaxTriggerReached(w)
    BY <1>0, <2>1 DEF MaxTriggerReached, UnblockNext, Write, OffStatuses, exVars
  <2>2. CASE ExpireTtl(w) \/ ExpireWindow(w) \/ Wait(w) \/ NotPreempted(w)
             \/ CanceledWithoutOpenOrder(w) \/ TriggerNotMet(w)
    BY <1>0, <2>2 DEF ExpireTtl, ExpireWindow, Wait, NotPreempted, CanceledWithoutOpenOrder,
       TriggerNotMet, Write, exVars, rowVars
  <2>3. CASE PreemptTakeProfit(w)
    <3>1. /\ active' = active /\ exRow' = exRow
          /\ status' = [r \in Rows |->
                          IF r = cur[w] THEN PreemptedStatus(hand[w])
                          ELSE IF r \in OpenSiblings(cur[w], Tps) THEN PreemptedStatus(active[r])
                          ELSE status[r]]
      BY <2>3 DEF PreemptTakeProfit, exVars
    <3> QED
      BY <1>0, <3>1 DEF PreemptedStatus
  <2>4. CASE TriggerMet(w)
    BY <1>0, <2>4 DEF TriggerMet, Write, exVars
  <2>5. CASE \E r \in Rows : Begin(w, r)
    BY <1>0, <2>5 DEF Begin, Load, exVars, rowVars
  <2> QED
    BY <1>1, <2>1, <2>2, <2>3, <2>4, <2>5 DEF Process
<1>2. CASE Submit(w)
  <2>1. CASE SubmitBlocked(w) \/ PlaceFails(w) \/ Record(w)
    BY <1>0, <2>1 DEF SubmitBlocked, PlaceFails, Record, Stored, Write, exVars
  <2>2. CASE Place(w)
    BY <1>0, <2>2 DEF Place, Accept, rowVars
  <2>3. CASE PlaceAnswerLost(w)
    BY <1>0, <2>3 DEF PlaceAnswerLost, Accept, Stored, Write
  <2> QED
    BY <1>2, <2>1, <2>2, <2>3 DEF Submit
<1>3. CASE Reconcile(w)
  <2>1. CASE ClearCanceled(w) \/ CancelRefused(w) \/ TerminalBuy(w) \/ TerminalBuyBlind(w)
             \/ TerminalExit(w) \/ KeepWorking(w) \/ NothingLeft(w) \/ GuardCut(w)
             \/ InventoryNotVisible(w)
    BY <1>0, <2>1 DEF ClearCanceled, CancelRefused, TerminalBuy, TerminalBuyBlind, TerminalExit,
       KeepWorking, NothingLeft, GuardCut, InventoryNotVisible, Stored, Write, exVars
  <2>2. CASE CancelRequested(w) \/ GetStatus(w) \/ GuardCancel(w) \/ RepriceCancel(w)
    BY <1>0, <2>2 DEF CancelRequested, GetStatus, GuardCancel, RepriceCancel, CancelOnExchange,
       TerminalMatch, rowVars, exVars
  <2> QED
    BY <1>3, <2>1, <2>2 DEF Reconcile
<1>4. CASE Finalize(w)
  <2>1. CASE FinCount(w) \/ FinClear(w) \/ FinOco(w)
    BY <1>0, <2>1 DEF FinCount, FinClear, FinOco, Write, exVars
  <2>2. CASE FinChild(w)
    BY <1>0, <2>2 DEF FinChild, Write, exVars, OffStatuses
  <2>3. CASE FinEnd(w)
    BY <1>0, <2>3 DEF FinEnd, UnblockNext, exVars, OffStatuses
  <2> QED
    BY <1>4, <2>1, <2>2, <2>3 DEF Finalize
<1>5. CASE Fail(w)
  BY <1>0, <1>5 DEF Fail, Stored, Write, exVars
<1> QED
  BY <1>1, <1>2, <1>3, <1>4, <1>5

\* A task step changes no other task, and a task only takes up a row in Begin.
LEMMA TaskFrame ==
  ASSUME IInv, NEW w \in Workers,
         Process(w) \/ Submit(w) \/ Reconcile(w) \/ Finalize(w) \/ Fail(w)
  PROVE  /\ \A v \in Workers \ {w} : /\ cur'[v] = cur[v] /\ pc'[v] = pc[v]
                                     /\ hand'[v] = hand[v] /\ seen'[v] = seen[v]
         /\ cur'[w] \in {cur[w], NoRow} \/ \E r \in Rows : Begin(w, r)
<1> USE BuilderAssumption
<1>0. /\ cur \in [Workers -> Rows \cup {NoRow}] /\ pc \in [Workers -> Pcs]
      /\ hand \in [Workers -> ExIds \cup {NoEx}] /\ seen \in [Workers -> Statuses]
  BY DEF IInv, TypeOK
<1>1. CASE Release(w)
  BY <1>0, <1>1 DEF Release
<1>2. CASE \E s \in Pcs : Goto(w, s)
  BY <1>0, <1>2 DEF Goto
<1>3. CASE \E r \in Rows : Begin(w, r)
  BY <1>0, <1>3 DEF Begin, Load
<1>4. CASE Place(w)
  BY <1>0, <1>4 DEF Place
<1>5. CASE GetStatus(w)
  BY <1>0, <1>5 DEF GetStatus
<1>6. CASE PreemptTakeProfit(w)
  <2>1. \/ Release(w)
        \/ /\ pc' = [pc EXCEPT ![w] = "checked"]
           /\ seen' = [seen EXCEPT ![w] = "canceled_requested"]
           /\ UNCHANGED <<guard, cur, hand, info>>
    BY <1>6 DEF PreemptTakeProfit
  <2> QED
    BY <1>0, <1>1, <2>1
<1>7. CASE FinChild(w)
  <2>1. UNCHANGED taskVars \/ Goto(w, "end")
    BY <1>7 DEF FinChild
  <2> QED
    BY <1>0, <2>1 DEF taskVars, Goto
<1>8. Process(w) => \/ Release(w) \/ (\E s \in Pcs : Goto(w, s)) \/ PreemptTakeProfit(w)
                    \/ \E r \in Rows : Begin(w, r)
  BY DEF Process, MaxTriggerReached, ExpireTtl, ExpireWindow, Wait, NotPreempted,
     CanceledWithoutOpenOrder, TriggerNotMet, TriggerMet, Pcs
<1>9. Submit(w) => Release(w) \/ (\E s \in Pcs : Goto(w, s)) \/ Place(w)
  BY DEF Submit, SubmitBlocked, PlaceFails, PlaceAnswerLost, Record, Pcs
<1>10. Reconcile(w) => Release(w) \/ (\E s \in Pcs : Goto(w, s)) \/ GetStatus(w)
  BY DEF Reconcile, CancelRequested, ClearCanceled, CancelRefused, TerminalBuy, TerminalBuyBlind,
     TerminalExit, KeepWorking, NothingLeft, GuardCancel, GuardCut, InventoryNotVisible,
     RepriceCancel,
     CancelOnExchange, TerminalMatch, Pcs
<1>11. Finalize(w) => Release(w) \/ (\E s \in Pcs : Goto(w, s)) \/ FinChild(w)
  BY DEF Finalize, FinCount, FinClear, FinOco, FinEnd, Pcs, Finalizing
<1>12. Fail(w) => Release(w)
  BY DEF Fail
<1> QED
  BY <1>1, <1>2, <1>3, <1>4, <1>5, <1>6, <1>7, <1>8, <1>9, <1>10, <1>11, <1>12

\* A row that is off stays off, whoever takes a step.
LEMMA OffNext ==
  ASSUME IInv, NEW o \in Rows, Off(o), [Next]_vars
  PROVE  StaysOff(o)
<1> USE BuilderAssumption
<1>0. /\ status \in [Rows -> Statuses] /\ exRow \in [ExIds -> Rows \cup {NoRow}]
      /\ cur \in [Workers -> Rows \cup {NoRow}] /\ pc \in [Workers -> Pcs]
      /\ hand \in [Workers -> ExIds \cup {NoEx}] /\ seen \in [Workers -> Statuses]
  BY DEF IInv, TypeOK
<1>1. ASSUME NEW w \in Workers,
             Process(w) \/ Submit(w) \/ Reconcile(w) \/ Finalize(w) \/ Fail(w)
      PROVE  StaysOff(o)
  <2>1. CASE cur[w] = o
    BY <1>1, <2>1, OwnStepStaysOff
  <2>2. CASE cur[w] # o /\ cur'[w] # o
    <3>1. WritesOff(o)
      BY <1>1, <2>2, OtherStepWrites DEF WritesOff, OffStatuses
    <3> QED
      BY <1>1, <2>2, <3>1, OtherStepWrites, TaskFrame, OtherRowStaysOff
  <2>3. CASE cur[w] # o /\ cur'[w] = o
    <3>1. PICK r \in Rows : Begin(w, r)
      BY <1>1, <2>3, TaskFrame
    <3>2. r = o /\ UNCHANGED <<status, active, exRow>>
      BY <1>0, <2>3, <3>1 DEF Begin, Load, rowVars, exVars
    <3>3. status[o] = "canceled_requested"
      BY <3>1, <3>2 DEF Begin, RetryableError, Off, OffStatuses, Processable
    <3>4. OffTask(w)'
      BY <1>0, <3>1, <3>2, <3>3 DEF Begin, Load, OffTask, Off
    <3>5. \A v \in Workers \ {w} : cur'[v] = o => OffTask(v)'
      BY <1>1, TaskFrame DEF Off, OffTask
    <3> QED
      BY <3>2, <3>4, <3>5 DEF StaysOff, Off
  <2> QED
    BY <2>1, <2>2, <2>3
<1>2. ASSUME NEW w \in Workers, NEW r \in Rows, LoadFails(w, r)
      PROVE  StaysOff(o)
  <2>1. /\ "error" \in Faults
        /\ UNCHANGED <<active, cur, pc, hand, seen, exRow>>
        /\ status'[o] \in {status[o], ErrorStatus(o)}
    BY <1>0, <1>2 DEF LoadFails, taskVars, exVars, Write
  <2>2. o \notin Sls /\ ErrorStatus(o) = "error"
    BY <2>1 DEF Off, ErrorStatus
  <2> QED
    BY <2>1, <2>2 DEF StaysOff, Off, OffTask, OffStatuses
<1>3. CASE Crash
  BY <1>0, <1>3 DEF Crash, StaysOff, Off, OffTask, rowVars, exVars
<1>4. ASSUME NEW r \in Rows, UserCancel(r) \/ FlowStopped(r)
      PROVE  StaysOff(o)
  BY <1>0, <1>4 DEF UserCancel, FlowStopped, Write, StaysOff, Off, OffTask, OffStatuses, taskVars,
     exVars
<1>5. ASSUME NEW e \in ExIds, ExchangeFills(e) \/ ExchangeCancels(e)
      PROVE  StaysOff(o)
  BY <1>5 DEF ExchangeFills, ExchangeCancels, StaysOff, Off, OffTask, rowVars, taskVars
<1>6. CASE UNCHANGED vars
  BY <1>6 DEF StaysOff, Off, OffTask, vars, rowVars, taskVars, exVars
<1> QED
  BY <1>1, <1>2, <1>3, <1>4, <1>5, <1>6 DEF Next

---------------------------------------------------------------------------
\* Every column, guard and exchange record keeps its type, whatever the
\* tasks, the users, the faults and the exchange do.
THEOREM BuilderTypes == Spec => []TypeOK
<1>1. IInv => TypeOK
  BY DEF IInv
<1> QED
  BY <1>1, IInvAlways, PTL

\* trigger count of a single-trigger row: finalize_builder_fill increments
\* triggers_fired at most once per row although two tasks, retries and
\* restarts may reconcile the same exchange order.
THEOREM BuilderFiredOnce == Spec => []FiredOnce
<1>1. IInv => FiredOnce
  BY DEF IInv
<1> QED
  BY <1>1, IInvAlways, PTL

\* A row that is counted as fired has a fill on the exchange.
THEOREM BuilderFiredIsFilled == Spec => []FiredIsFilled
<1>1. IInv => FiredIsFilled
  BY DEF IInv
<1> QED
  BY <1>1, IInvAlways, PTL

\* Every order that is live on the exchange is in the hand of the task that
\* placed it or named by a row that is open or in error, unless it left the
\* books at one of the places LiveIsTracked lists.
THEOREM BuilderLiveIsTracked == Spec => []LiveIsTracked
<1>1. IInv /\ StatusInv => LiveIsTracked
  BY BuilderAssumption
     DEF IInv, StatusInv, StatusOK, ExchangeInv, LiveIsNamed, Named, LiveIsTracked
<1> QED
  BY <1>1, StatusInvAlways, PTL

\* Every fill of a buy is finalized, or its order is in the hand of a task or
\* named by a row that is not closed, outside the places FillIsAccounted lists.
THEOREM BuilderFillIsAccounted == Spec => []FillIsAccounted
<1>1. IInv /\ StatusInv => FillIsAccounted
  <2> SUFFICES ASSUME IInv, StatusInv, NEW e \in ExIds, exRow[e] \in Buys, exFill[e] > 0,
                      ~(fired[exRow[e]] > 0), active[exRow[e]] = e
               PROVE  status[exRow[e]] \in Processable \cup Unvisited
    BY DEF IInv, FillIsNamed, Named, FillIsAccounted
  <2>1. fired[exRow[e]] = 0 /\ e # NoEx /\ exRow[e] \in Rows
    BY BuilderAssumption DEF IInv, TypeOK, Rows
  <2> QED
    BY <2>1 DEF StatusInv, StatusOK, Unvisited
<1> QED
  BY <1>1, StatusInvAlways, PTL

\* Cancel-then-place repricing never leaves two live orders of one row.
THEOREM BuilderOneLivePerRow == Spec => []OneLivePerRow
BY IInvAlways, IInvOneLive, PTL

\* Once the task that finalized a buy has dropped its guard, all exits of the
\* buy exist, unless that finalization was cut short.
THEOREM BuilderEntryIsProtected == Spec => []EntryIsProtected
BY IInvAlways, IInvProtected, PTL

\* Cancellation is final: once a row is 'canceled' with no active exchange
\* order and no task at work on it, it never gets another exchange order,
\* although the frontend and the stop of its flow write its status again and
\* make tasks take it up.
THEOREM BuilderCanceledStaysOff == Spec => CanceledStaysOff
<1> USE BuilderAssumption
<1>1. ASSUME NEW o \in Rows, NEW e \in ExIds, "error" \in Faults => o \notin Sls
      PROVE  Spec => [](status[o] = "canceled" /\ active[o] = NoEx /\ o \notin guard
                          /\ exRow[e] # o => [](exRow[e] # o))
  <2> DEFINE Done == status[o] = "canceled" /\ active[o] = NoEx /\ o \notin guard /\ exRow[e] # o
             Free == exRow[e] # o
             Kept == Off(o) /\ Free
  <2>1. IInv /\ Done => Kept
    <3> SUFFICES ASSUME IInv, Done PROVE Kept
      OBVIOUS
    <3>1. \A w \in Workers : cur[w] # o
      BY DEF IInv, GuardInv
    <3> QED
      BY <1>1, <3>1 DEF Off, OffStatuses
  <2>2. IInv /\ Kept /\ [Next]_vars => Kept'
    BY OffNext DEF StaysOff
  <2>3. Kept => Free
    OBVIOUS
  <2> HIDE DEF Done, Free, Kept
  <2>4. Spec => [](Done => []Free)
    BY <2>1, <2>2, <2>3, IInvAlways, PTL DEF Spec
  <2> QED
    BY <2>4 DEF Done, Free
<1> QED
  BY <1>1 DEF CanceledStaysOff
=============================================================================
