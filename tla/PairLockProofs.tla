--------------------------- MODULE PairLockProofs ---------------------------
(***************************************************************************)
(* Proofs about PairLock for every set of configurations and every size:   *)
(* the counter follows the lead, an auto-sized counter fits it unless the  *)
(* code's two exceptions apply, and no unwind sells into what the pair has *)
(* locked beyond the fee.                                                  *)
(***************************************************************************)
EXTENDS PairLock, TLAPS

\* What the exchange matched, what the wallet holds of it and what the row
\* and the session know of it.
Matched ==
  \A l \in Legs :
    /\ IF ex[l].st = "filled" THEN ex[l].fee < ex[l].qty
       ELSE ex[l].qty = 0 /\ ex[l].fee = 0
    /\ held[l] <= NetFill(l)
    /\ task[l].pc \in Filling \/ session.fill[l] > 0
         => ex[l].st = "filled" /\ row[l].filled > 0
    /\ session.fill[l] > 0 => session.fill[l] = NetFill(l)

\* A pair is locked over a counter that has filled.
LockedHasCounter ==
  session.status = "locked" \/ (\E l \in Legs : task[l].pc \in {"lock", "residue"})
    => session.fill["counter"] > 0

\* A counter that a task may take up names its session, or has filled.
Attached ==
  /\ row["counter"].status \in Processable \/ creator = "hold"
       => row["counter"].sess \/ ex["counter"].st = "filled"
  /\ task["counter"].pc # "idle" =>
       (task["counter"].sess /\ row["counter"].sess) \/ ex["counter"].st = "filled"

\* Before the primary's fill is recorded the counter only waits.
Waiting ==
  /\ session.lead = NoLeg
  /\ session.status \in {"none", "working"} \cup Closed
  /\ creator \in {"attach_primary", "attach_counter", "hold"} => session.status # "none"
  /\ ex["counter"].st = "none"
  /\ row["counter"].sess => session.status # "none"
  /\ row["counter"].size = "initial"
  /\ task["primary"].pc \notin {"recorded", "lock", "residue"}
  /\ task["counter"].pc \in {"idle", "read"}
  /\ task["counter"].pc = "read" => session.status # "none" /\ row["counter"].sess

Led == session.lead = "primary" /\ session.fill["primary"] > 0

\* What the counter of an auto-sized pair may send has been resized, to the
\* budget only if the lead left no cap; without a budget nothing is sent.
Resized ==
  /\ row["counter"].size = "budget" => session.rest = "uncapped"
  /\ session.rest # "capped" => conf.auto
  /\ session.rest = "spent" =>
       ex["counter"].st = "none" /\ task["counter"].pc \in {"idle", "read"}
  /\ conf.auto =>
       /\ row["counter"].status = "open" => row["counter"].active
       /\ task["counter"].status = "open" => task["counter"].active
       /\ row["counter"].active \/ task["counter"].active \/ ex["counter"].st = "live"
            => row["counter"].size # "initial" \/ ex["counter"].st = "filled"
       /\ task["counter"].pc # "idle" => task["counter"].status \in Processable
       /\ task["counter"].pc = "go" =>
            \/ row["counter"].size # "initial" \/ ex["counter"].st = "filled"
            \/ task["counter"].status = "canceled_requested"

IInv == TypeOK /\ Matched /\ LockedHasCounter /\ Attached /\ (Waiting \/ Led)
          /\ Resized /\ HedgeFits

LEMMA InitHolds == Init => IInv
BY PairLockAssumption DEF Init, IInv, TypeOK, Matched, LockedHasCounter, Attached, Waiting, Resized,
   HedgeFits, NoRow, NoTask, NoSession, NoPosition, NoOrder, NoSell, NetFill, Legs, Slots,
   RowStatuses, Terminal, Processable, Closed, SellStatuses, NoLeg, Sizes, Rests, Filling

\* The types of the rows, tasks, sessions and sells, as TypeOK has them.
Rows == [Legs -> [status : RowStatuses, sess : BOOLEAN, active : BOOLEAN,
                  filled : 0..MaxQty, size : Sizes]]
Tasks == [Legs -> [pc : {"idle", "read", "go"} \cup Filling,
                   sess : BOOLEAN, status : RowStatuses, active : BOOLEAN,
                   listed : SUBSET Legs]]
Positions == [Legs -> [qty : 0..MaxQty, from : {"none", "fill", "visible"}, sold : BOOLEAN]]
SessionStatuses == {"none", "working", "locked", "unwinding"} \cup Closed
Sessions == [status : SessionStatuses, lead : Legs \cup {NoLeg}, fill : [Legs -> 0..MaxQty],
             locked : 0..MaxQty, elapsed : BOOLEAN, rest : Rests]
Books == [Legs -> [st : {"none", "live", "filled", "canceled"}, qty : 0..MaxQty,
                   fee : 0..MaxQty, topped : BOOLEAN]]
Sells == [Legs -> [Slots -> [status : SellStatuses, qty : 0..MaxQty, gross : BOOLEAN]]]
Creators == {"primary", "counter", "session", "attach_primary", "attach_counter", "hold", "done"}

LEMMA Types ==
  TypeOK <=> /\ conf \in Configs /\ creator \in Creators /\ row \in Rows
             /\ held \in [Legs -> 0..MaxQty] /\ pos \in Positions
             /\ ex \in Books /\ task \in Tasks /\ session \in Sessions
             /\ unwind \in Sells /\ sl \in [Legs -> SellStatuses]
BY DEF TypeOK, Creators, Rows, Positions, Books, Tasks, Sessions, SessionStatuses, Sells

LEMMA TypesNext ==
  TypeOK' <=> /\ conf' \in Configs /\ creator' \in Creators /\ row' \in Rows
              /\ held' \in [Legs -> 0..MaxQty] /\ pos' \in Positions
              /\ ex' \in Books /\ task' \in Tasks /\ session' \in Sessions
              /\ unwind' \in Sells /\ sl' \in [Legs -> SellStatuses]
BY DEF TypeOK, Creators, Rows, Positions, Books, Tasks, Sessions, SessionStatuses, Sells

\* What a change of a row keeps.
LEMMA RowStatusTyped ==
  ASSUME NEW r \in Rows, NEW l \in Legs, NEW st \in RowStatuses
  PROVE  [r EXCEPT ![l].status = st] \in Rows
BY DEF Rows

LEMMA RowActiveTyped ==
  ASSUME NEW r \in Rows, NEW l \in Legs, NEW st \in RowStatuses, NEW a \in BOOLEAN
  PROVE  [r EXCEPT ![l].status = st, ![l].active = a] \in Rows
BY DEF Rows

LEMMA EndTaskTyped ==
  ASSUME task \in Tasks, NEW l \in Legs, EndTask(l)
  PROVE  task' \in Tasks
BY DEF EndTask, NoTask, Tasks, RowStatuses

LEMMA StatusesKnown ==
  /\ {"canceled", "expired", "canceled_requested", "completed", "pending", "armed", "open", "blocked",
      "guard_blocked", "inventory_pending", "error"} \subseteq RowStatuses
  /\ {"triggered", "armed", "open", "canceled_requested", "canceled", "completed"} \subseteq SellStatuses
  /\ {"working", "locked", "unwinding", "completed", "expired", "error"} \subseteq SessionStatuses
BY DEF RowStatuses, Terminal, Processable, SellStatuses, SessionStatuses, Closed

\* Rows r2 differ from r in the status of canceled candidates only.
OnlyCanceled(r, r2) ==
  \A l \in Legs :
    /\ r2[l].sess = r[l].sess /\ r2[l].active = r[l].active /\ r2[l].size = r[l].size
    /\ r2[l].filled = r[l].filled
    /\ r2[l].status # r[l].status =>
         r[l].sess /\ r[l].filled = 0 /\ r2[l].status = CanceledStatus(r[l].active)

LEMMA CanceledKnown ==
  \A active \in BOOLEAN : /\ CanceledStatus(active) \in {"canceled", "canceled_requested"}
                          /\ CanceledStatus(active) \in RowStatuses
BY StatusesKnown DEF CanceledStatus

LEMMA CancelCandidatesFrame ==
  ASSUME NEW r \in Rows, NEW legs \in SUBSET Legs, \A l \in legs : r[l].sess \/ r[l].filled > 0
  PROVE  CancelCandidates(r, legs) \in Rows /\ OnlyCanceled(r, CancelCandidates(r, legs))
<1>1. CancelCandidates(r, legs) \in Rows
  BY CanceledKnown DEF CancelCandidates, Rows
<1>2. OnlyCanceled(r, CancelCandidates(r, legs))
  BY CanceledKnown DEF CancelCandidates, OnlyCanceled, Cancelable, Rows
<1> QED
  BY <1>1, <1>2

\* What a leg is taken to hold is a quantity of one order.
LEMMA CurrentQtyTyped ==
  ASSUME TypeOK, Matched, NEW l \in Legs
  PROVE  NetFill(l) \in 0..MaxQty /\ CurrentQty(l) \in 0..MaxQty
<1>1. /\ ex[l].qty \in 0..MaxQty /\ ex[l].fee \in 0..MaxQty /\ ex[l].fee <= ex[l].qty
  BY Types, PairLockAssumption DEF Matched, Books
<1>2. NetFill(l) \in 0..MaxQty
  BY <1>1, PairLockAssumption DEF NetFill
<1> QED
  BY <1>2, Types, PairLockAssumption DEF CurrentQty, Positions

\* What scheduling an unwind makes of the sells.
UnwindsRest(keep) ==
  \A l \in Legs : \A k \in Slots :
    \/ unwind'[l][k] = unwind[l][k]
    \/ /\ unwind'[l][k].qty = Less(CurrentQty(l), keep)
       /\ unwind'[l][k].gross = (pos[l].from = "fill")

\* What scheduling an unwind does to the rows, the sells and the session.
LEMMA ScheduleUnwindFrame ==
  ASSUME TypeOK, Matched, NEW r \in Rows, NEW legs \in SUBSET Legs,
         \A l \in legs : r[l].sess \/ r[l].filled > 0,
         NEW next \in SessionStatuses, NEW keep \in 0..MaxQty,
         ScheduleUnwind(r, legs, next, keep)
  PROVE  /\ row' \in Rows /\ unwind' \in Sells /\ session' \in Sessions
         /\ OnlyCanceled(r, row')
         /\ session'.status = next /\ session'.lead = session.lead
         /\ session'.fill = session.fill /\ session'.rest = session.rest
         /\ session'.locked = session.locked /\ UnwindsRest(keep)
<1> USE PairLockAssumption, StatusesKnown
<1>0. pos \in Positions /\ unwind \in Sells /\ session \in Sessions
  BY Types
<1>1. row' \in Rows /\ OnlyCanceled(r, row')
  BY CancelCandidatesFrame DEF ScheduleUnwind
<1>2. UnwindQty(legs, keep) \in [Legs -> 0..MaxQty]
  BY CurrentQtyTyped DEF UnwindQty, Less
<1>3. unwind' \in Sells
  BY <1>0, <1>2 DEF ScheduleUnwind, Sells
<1>4. session' = [session EXCEPT !.status = next]
  BY DEF ScheduleUnwind
<1>5. /\ session' \in Sessions /\ session'.status = next /\ session'.lead = session.lead
      /\ session'.fill = session.fill /\ session'.rest = session.rest
      /\ session'.locked = session.locked
  BY <1>0, <1>4 DEF Sessions
<1>6. \A l \in Legs : UnwindQty(legs, keep)[l] > 0
                       => UnwindQty(legs, keep)[l] = Less(CurrentQty(l), keep)
  BY DEF UnwindQty
<1>7. UnwindsRest(keep)
  BY <1>0, <1>6 DEF ScheduleUnwind, UnwindsRest, Sells
<1> QED
  BY <1>1, <1>3, <1>5, <1>7

\* The unwind of a lead that is given up.
LEMMA UnwindLeadFrame ==
  ASSUME TypeOK, Matched, NEW r \in Rows, UnwindLead(r)
  PROVE  /\ row' \in Rows /\ unwind' \in Sells /\ session' \in Sessions
         /\ OnlyCanceled(r, row')
         /\ session'.status = "unwinding" /\ session'.lead = session.lead
         /\ session'.fill = session.fill /\ session'.rest = session.rest
         /\ session'.locked = session.locked /\ UnwindsRest(0)
<1>1. /\ Listed(r) \in SUBSET Legs /\ \A l \in Listed(r) : r[l].sess
      /\ 0 \in 0..MaxQty /\ "unwinding" \in SessionStatuses
  BY PairLockAssumption, StatusesKnown DEF Listed
<1> QED
  BY <1>1, ScheduleUnwindFrame DEF UnwindLead

\* What the end of an order does to its session: nothing while no fill is
\* recorded.
LEMMA AbortFrame ==
  ASSUME TypeOK, Matched, NEW r \in Rows, NEW l \in Legs, AbortForTerminal(l, r)
  PROVE  /\ row' \in Rows /\ unwind' \in Sells /\ session' \in Sessions
         /\ OnlyCanceled(r, row')
         /\ session'.lead = session.lead /\ session'.fill = session.fill
         /\ session'.rest = session.rest
         /\ \/ session' = session
            \/ session.lead # NoLeg /\ session'.status \in {"unwinding", "expired"}
<1> USE PairLockAssumption, StatusesKnown
<1>0. unwind \in Sells /\ session \in Sessions
  BY Types
<1>1. CASE task[l].sess /\ session.status = "working" /\ session.lead # NoLeg /\ conf.protective
  <2>1. UnwindLead(r)
    BY <1>1 DEF AbortForTerminal
  <2> QED
    BY <1>1, <2>1, UnwindLeadFrame
<1>2. CASE task[l].sess /\ session.status = "working" /\ session.lead # NoLeg /\ ~conf.protective
  <2>1. session' = [session EXCEPT !.status = "expired"] /\ row' = r /\ unwind' = unwind
    BY <1>2 DEF AbortForTerminal
  <2> QED
    BY <1>0, <1>2, <2>1 DEF Sessions, OnlyCanceled
<1>3. CASE ~(task[l].sess /\ session.status = "working" /\ session.lead # NoLeg)
  BY <1>0, <1>3 DEF AbortForTerminal, OnlyCanceled
<1> QED
  BY <1>1, <1>2, <1>3

\* A cancel, an expiry, an error or a retry of an order: rows of others only
\* get canceled, a counter is resized only when its lead is known, and so the
\* session moves.
RowStep(l) ==
  \A m \in Legs :
    /\ row'[m].sess = row[m].sess /\ row'[m].filled = row[m].filled
    /\ \/ row'[m].size = row[m].size
       \/ session.lead # NoLeg /\ row[m].size = "initial" /\ row'[m].size = RebasedSize
    /\ row'[m].active => row[m].active
    /\ \/ row'[m].status = row[m].status /\ row'[m].active = row[m].active
       \/ row'[m].status \in {"expired", "canceled", "blocked", "error"}
       \/ row'[m].status = "canceled_requested" /\ row[m].sess
       \/ row'[m].status \in {"guard_blocked", "pending"} /\ m = l

SessionStep ==
  /\ session'.lead = session.lead /\ session'.fill = session.fill
  /\ session'.rest = session.rest
  /\ \/ session' = session
     \/ session.lead # NoLeg /\ session'.status \in {"unwinding", "expired"}

BookStep ==
  \A m \in Legs :
    \/ ex'[m] = ex[m]
    \/ /\ ex[m].st = "live" /\ ex'[m].st = "canceled"
       /\ ex'[m].qty = ex[m].qty /\ ex'[m].fee = ex[m].fee
       /\ ex'[m].topped = ex[m].topped

\* The end of a task that neither sends an order nor records a fill.
LEMMA TaskEndFrame ==
  ASSUME NEW l \in Legs, IInv, TypeOK', task[l].pc # "idle", EndTask(l),
         RowStep(l), SessionStep, BookStep, UNCHANGED <<conf, creator, held>>
  PROVE  IInv'
<1>1. task' = [task EXCEPT ![l] = NoTask]
  BY DEF EndTask
<1> USE <1>1, PairLockAssumption DEF IInv, Legs, TypeOK, NoTask
<1>2. Matched'
  <2>1. \A m \in Legs : /\ ex'[m].qty = ex[m].qty /\ ex'[m].fee = ex[m].fee
                        /\ ex'[m].st = "filled" <=> ex[m].st = "filled"
                        /\ task'[m].pc \in Filling => task[m].pc \in Filling
    BY Types DEF BookStep, Filling, Tasks
  <2>2. \A m \in Legs : row'[m].filled = row[m].filled /\ session'.fill[m] = session.fill[m]
    BY DEF RowStep, SessionStep
  <2> QED
    BY <2>1, <2>2 DEF Matched, NetFill
<1>3. LockedHasCounter'
  BY DEF LockedHasCounter, SessionStep
<1>4. Attached'
  BY DEF Attached, RowStep, BookStep, Processable
<1>5. (Waiting \/ Led)'
  BY DEF Waiting, Led, RowStep, SessionStep, BookStep, NoLeg
<1>6. Resized'
  <2>1. task'["counter"] = (IF l = "counter" THEN NoTask ELSE task["counter"])
    BY Types DEF Tasks
  <2>2. session'.rest = session.rest /\ conf' = conf
    BY DEF SessionStep
  <2>3. /\ row'["counter"].size = "budget" => session.rest = "uncapped"
        /\ row["counter"].size # "initial" => row'["counter"].size # "initial"
    BY DEF Resized, RowStep, RebasedSize
  <2>4. /\ row'["counter"].status = "open" => row["counter"].status = "open"
                                              /\ row'["counter"].active = row["counter"].active
        /\ row'["counter"].active => row["counter"].active
    BY DEF RowStep
  <2>5. /\ ex'["counter"].st = "live" => ex["counter"].st = "live"
        /\ ex["counter"].st = "filled" => ex'["counter"].st = "filled"
        /\ ex["counter"].st = "none" => ex'["counter"].st = "none"
    BY DEF BookStep
  <2>6. CASE l = "counter"
    <3>1. /\ task'["counter"].pc = "idle" /\ task'["counter"].status = "none"
          /\ task'["counter"].active = FALSE
      BY <2>1, <2>6
    <3> QED
      BY <2>2, <2>3, <2>4, <2>5, <3>1 DEF Resized
  <2>7. CASE l # "counter"
    BY <2>1, <2>2, <2>3, <2>4, <2>5, <2>7 DEF Resized
  <2> QED
    BY <2>6, <2>7
<1>7. HedgeFits'
  BY DEF HedgeFits, SessionStep, BookStep
<1> QED
  BY <1>2, <1>3, <1>4, <1>5, <1>6, <1>7

\* The order of a task comes to its end with status st.
LEMMA OrderEnds ==
  ASSUME NEW l \in Legs, IInv, NEW st \in {"expired", "canceled"}, NEW r \in Rows,
         \/ r = [row EXCEPT ![l].status = st, ![l].active = FALSE]
         \/ r = [row EXCEPT ![l].status = st],
         AbortForTerminal(l, r)
  PROVE  RowStep(l) /\ SessionStep /\ row' \in Rows /\ unwind' \in Sells /\ session' \in Sessions
<1> USE DEF IInv
<1>1. row \in Rows
  BY Types
<1>2. /\ row' \in Rows /\ unwind' \in Sells /\ session' \in Sessions
      /\ OnlyCanceled(r, row')
      /\ session'.lead = session.lead /\ session'.fill = session.fill
      /\ session'.rest = session.rest
      /\ \/ session' = session
         \/ session.lead # NoLeg /\ session'.status \in {"unwinding", "expired"}
  BY AbortFrame
<1>3. \A m \in Legs :
        /\ r[m].sess = row[m].sess /\ r[m].size = row[m].size /\ r[m].filled = row[m].filled
        /\ r[m].active => row[m].active
        /\ \/ r[m].status = row[m].status /\ r[m].active = row[m].active
           \/ r[m].status = st
  BY <1>1 DEF Rows
<1>4. RowStep(l)
  BY <1>1, <1>2, <1>3, CanceledKnown DEF RowStep, OnlyCanceled, Rows
<1> QED
  BY <1>2, <1>4 DEF SessionStep

LEMMA StopUnwindsTyped ==
  ASSUME unwind \in Sells, NEW S, NEW request \in BOOLEAN
  PROVE  StopUnwinds(S, request) \in Sells
<1> USE StatusesKnown
<1>1. ASSUME NEW l \in Legs, NEW k \in Slots, NEW st \in SellStatuses
      PROVE  LET Sell == [status : SellStatuses, qty : 0..MaxQty, gross : BOOLEAN]
             IN  unwind[l][k] \in Sell /\ [unwind[l][k] EXCEPT !.status = st] \in Sell
  BY DEF Sells
<1>2. ASSUME NEW l \in Legs, NEW k \in Slots
      PROVE  (IF request THEN "canceled_requested"
              ELSE CanceledStatus(unwind[l][k].status = "open")) \in SellStatuses
  BY DEF CanceledStatus
<1> QED
  BY <1>1, <1>2 DEF StopUnwinds, Sells

LEMMA CreatePrimaryHolds ==
  ASSUME IInv, CreatePrimary
  PROVE  IInv'
<1>1. TypeOK'
  <2> USE PairLockAssumption DEF CreatePrimary, IInv, Legs
  <2>1. row' \in Rows /\ creator' \in Creators
    BY Types, StatusesKnown, RowStatusTyped DEF Creators
  <2> QED
    BY Types, TypesNext, <2>1
<1> USE PairLockAssumption DEF CreatePrimary, IInv, Legs, TypeOK
<1>2. (Matched /\ LockedHasCounter /\ HedgeFits)'
  BY DEF Matched, LockedHasCounter, HedgeFits, Resized, Closed, NetFill, Filling
<1>3. Attached'
  BY DEF Attached, Processable, Terminal
<1>4. Resized'
  BY DEF Resized, Attached
<1>5. (Waiting \/ Led)'
  BY DEF Waiting, Led, Attached, Matched, Processable, Terminal, Closed, NoLeg, Filling
<1> QED
  BY <1>1, <1>2, <1>3, <1>4, <1>5

LEMMA CreateCounterHolds ==
  ASSUME IInv, CreateCounter
  PROVE  IInv'
<1> USE PairLockAssumption DEF CreateCounter, IInv, Legs, TypeOK
<1>1. TypeOK'
  BY DEF RowStatuses, Terminal, Processable, Closed, SellStatuses, NoLeg, Filling
<1>2. (Matched /\ LockedHasCounter /\ HedgeFits)'
  BY DEF Matched, LockedHasCounter, HedgeFits, Resized, Closed, NetFill, Filling
<1>3. Attached'
  BY DEF Attached, Processable, Terminal
<1>4. Resized'
  BY DEF Resized, Attached
<1>5. (Waiting \/ Led)'
  BY DEF Waiting, Led, Attached, Matched, Processable, Terminal, Closed, NoLeg, Filling
<1> QED
  BY <1>1, <1>2, <1>3, <1>4, <1>5

LEMMA CreateCounterFailsHolds ==
  ASSUME IInv, CreateCounterFails
  PROVE  IInv'
<1> USE PairLockAssumption DEF CreateCounterFails, IInv, Legs, TypeOK
<1>1. TypeOK'
  BY DEF RowStatuses, Terminal, Processable, Closed, SellStatuses, NoLeg, Filling
<1>2. (Matched /\ LockedHasCounter /\ HedgeFits)'
  BY DEF Matched, LockedHasCounter, HedgeFits, Resized, Closed, NetFill, Filling
<1>3. Attached'
  BY DEF Attached, Processable, Terminal
<1>4. Resized'
  BY DEF Resized, Attached
<1>5. (Waiting \/ Led)'
  BY DEF Waiting, Led, Attached, Matched, Processable, Terminal, Closed, NoLeg, Filling
<1> QED
  BY <1>1, <1>2, <1>3, <1>4, <1>5

LEMMA CreateSessionHolds ==
  ASSUME IInv, CreateSession
  PROVE  IInv'
<1> USE PairLockAssumption DEF CreateSession, IInv, Legs, TypeOK
<1>1. TypeOK'
  BY DEF RowStatuses, Terminal, Processable, Closed, SellStatuses, NoLeg, Filling
<1>2. (Matched /\ LockedHasCounter /\ HedgeFits)'
  BY DEF Matched, LockedHasCounter, HedgeFits, Resized, Closed, NetFill, Filling
<1>3. Attached'
  BY DEF Attached, Processable, Terminal
<1>4. Resized'
  BY DEF Resized, Attached
<1>5. (Waiting \/ Led)'
  BY DEF Waiting, Led, Attached, Matched, Processable, Terminal, Closed, NoLeg, Filling
<1> QED
  BY <1>1, <1>2, <1>3, <1>4, <1>5

LEMMA AttachOrderHolds ==
  ASSUME NEW l \in Legs, IInv, AttachOrder(l)
  PROVE  IInv'
<1>1. TypeOK'
  <2> USE PairLockAssumption DEF AttachOrder, IInv, AttachPc, Legs
  <2>1. row' \in Rows /\ creator' \in Creators
    BY Types DEF Creators, Rows
  <2> QED
    BY Types, TypesNext, <2>1
<1> USE PairLockAssumption DEF AttachOrder, IInv, Legs, TypeOK, AttachPc
<1>2. (Matched /\ LockedHasCounter /\ HedgeFits)'
  BY DEF Matched, LockedHasCounter, HedgeFits, Resized, Closed, NetFill, Filling
<1>3. Attached'
  BY DEF Attached, Processable, Terminal
<1>4. Resized'
  BY DEF Resized, Attached
<1>5. (Waiting \/ Led)'
  BY DEF Waiting, Led, Attached, Matched, Processable, Terminal, Closed, NoLeg, Filling
<1> QED
  BY <1>1, <1>2, <1>3, <1>4, <1>5

LEMMA HoldCounterHolds ==
  ASSUME IInv, HoldCounter
  PROVE  IInv'
<1> USE PairLockAssumption DEF HoldCounter, IInv, Legs, TypeOK
<1>1. TypeOK'
  BY DEF RowStatuses, Terminal, Processable, Closed, SellStatuses, NoLeg, Filling
<1>2. (Matched /\ LockedHasCounter /\ HedgeFits)'
  BY DEF Matched, LockedHasCounter, HedgeFits, Resized, Closed, NetFill, Filling
<1>3. Attached'
  BY DEF Attached, Processable, Terminal
<1>4. Resized'
  BY DEF Resized, Attached
<1>5. (Waiting \/ Led)'
  BY DEF Waiting, Led, Attached, Matched, Processable, Terminal, Closed, NoLeg, Filling
<1> QED
  BY <1>1, <1>2, <1>3, <1>4, <1>5

LEMMA ReadRowHolds ==
  ASSUME NEW l \in Legs, IInv, ReadRow(l)
  PROVE  IInv'
<1> USE PairLockAssumption DEF ReadRow, IInv, Legs, TypeOK
<1>1. TypeOK'
  BY DEF RowStatuses, Terminal, Processable, Closed, SellStatuses, NoLeg, Filling
<1>2. (Matched /\ LockedHasCounter /\ HedgeFits)'
  BY DEF Matched, LockedHasCounter, HedgeFits, Resized, Closed, NetFill, Filling
<1>3. Attached'
  BY DEF Attached, Processable, Terminal
<1>4. Resized'
  BY DEF Resized, Attached
<1>5. (Waiting \/ Led)'
  BY DEF Waiting, Led, Attached, Matched, Processable, Terminal, Closed, NoLeg, Filling
<1> QED
  BY <1>1, <1>2, <1>3, <1>4, <1>5

LEMMA ExpireHolds ==
  ASSUME NEW l \in Legs, IInv, Expire(l)
  PROVE  IInv'
<1> DEFINE r == [row EXCEPT ![l].status = "expired", ![l].active = FALSE]
<1>1. r \in Rows
  BY Types, StatusesKnown, RowActiveTyped DEF IInv
<1>2. AbortForTerminal(l, r)
  BY DEF Expire
<1>3. RowStep(l) /\ SessionStep /\ row' \in Rows /\ unwind' \in Sells /\ session' \in Sessions
  BY <1>1, <1>2, OrderEnds
<1>4. TypeOK'
  BY <1>3, Types, TypesNext, EndTaskTyped DEF Expire, IInv
<1>5. BookStep /\ task[l].pc # "idle" /\ EndTask(l) /\ UNCHANGED <<conf, creator, held>>
  BY DEF Expire, BookStep
<1> QED
  BY <1>3, <1>4, <1>5, TaskEndFrame

LEMMA RuntimeClosedHolds ==
  ASSUME NEW l \in Legs, IInv, RuntimeClosed(l)
  PROVE  IInv'
<1>1. TypeOK'
  <2> USE PairLockAssumption DEF RuntimeClosed, IInv, Checked, Legs
  <2>1. row' \in Rows /\ task' \in Tasks
    BY Types, StatusesKnown, RowStatusTyped, EndTaskTyped
  <2> QED
    BY Types, TypesNext, <2>1
<1> USE PairLockAssumption DEF RuntimeClosed, IInv, Legs, TypeOK, Checked, EndTask, NoTask
<1>2. (Matched /\ LockedHasCounter /\ HedgeFits)'
  BY DEF Matched, LockedHasCounter, HedgeFits, Resized, Closed, NetFill, Filling
<1>3. Attached'
  BY DEF Attached, Processable, Terminal
<1>4. Resized'
  BY DEF Resized, Attached
<1>5. (Waiting \/ Led)'
  BY DEF Waiting, Led, Attached, Matched, Processable, Terminal, Closed, NoLeg, Filling
<1> QED
  BY <1>1, <1>2, <1>3, <1>4, <1>5

LEMMA RuntimeHoldHolds ==
  ASSUME NEW l \in Legs, IInv, RuntimeHold(l)
  PROVE  IInv'
<1> USE PairLockAssumption DEF RuntimeHold, IInv, Legs, TypeOK,
       InSession, Checked, WaitsForLead, PrimaryDone, EndTask, NoTask
<1>1. TypeOK'
  BY DEF RowStatuses, Terminal, Processable, Closed, SellStatuses, NoLeg, Filling
<1>2. (Matched /\ LockedHasCounter /\ HedgeFits)'
  BY DEF Matched, LockedHasCounter, HedgeFits, Resized, Closed, NetFill, Filling
<1>3. Attached'
  BY DEF Attached, Processable, Terminal
<1>4. Resized'
  BY DEF Resized, Attached
<1>5. (Waiting \/ Led)'
  BY DEF Waiting, Led, Attached, Matched, Processable, Terminal, Closed, NoLeg, Filling
<1> QED
  BY <1>1, <1>2, <1>3, <1>4, <1>5

\* An unwind that the runtime of an order schedules when the lead is known.
LEMMA RuntimeUnwind ==
  ASSUME NEW l \in Legs, IInv, task[l].pc # "idle", EndTask(l), session.lead # NoLeg,
         UnwindLead(row), UNCHANGED <<conf, creator, held, pos, ex, sl>>
  PROVE  IInv'
<1>1. row \in Rows /\ TypeOK /\ Matched
  BY Types DEF IInv
<1>2. /\ row' \in Rows /\ unwind' \in Sells /\ session' \in Sessions
      /\ OnlyCanceled(row, row')
      /\ session'.status = "unwinding" /\ session'.lead = session.lead
      /\ session'.fill = session.fill /\ session'.rest = session.rest
  BY <1>1, UnwindLeadFrame
<1>3. RowStep(l)
  BY <1>1, <1>2, CanceledKnown DEF RowStep, OnlyCanceled, Rows
<1>4. SessionStep /\ BookStep
  BY <1>2 DEF SessionStep, BookStep
<1>5. TypeOK'
  BY <1>2, Types, TypesNext, EndTaskTyped DEF IInv
<1> QED
  BY <1>3, <1>4, <1>5, TaskEndFrame

LEMMA RuntimeAutoHolds ==
  ASSUME NEW l \in Legs, IInv, RuntimeAuto(l)
  PROVE  IInv'
<1>0. /\ BookStep /\ task[l].pc # "idle" /\ EndTask(l) /\ l = "counter"
      /\ UNCHANGED <<conf, creator, held, pos, ex, sl>>
  BY DEF RuntimeAuto, BookStep, InSession, Checked, AutoCounter
<1>1. session.lead # NoLeg
  <2>1. task["counter"].pc = "read" /\ session.status \notin Closed /\ ~WaitsForLead("counter")
    BY <1>0 DEF RuntimeAuto, InSession, Checked
  <2>2. CASE Waiting
    BY <2>1, <2>2 DEF Waiting, WaitsForLead, Closed
  <2>3. CASE Led
    BY <2>3 DEF Led, NoLeg
  <2> QED
    BY <2>2, <2>3 DEF IInv
<1>2. CASE UnwindLead(row)
  BY <1>0, <1>1, <1>2, RuntimeUnwind
<1>3. CASE /\ session' = [session EXCEPT !.status = "expired"]
           /\ row' = [row EXCEPT ![l].status = "canceled"]
           /\ UNCHANGED unwind
  <2>1. row \in Rows /\ row' \in Rows
    BY <1>3, Types, StatusesKnown, RowStatusTyped DEF IInv
  <2>2. session \in Sessions /\ session' \in Sessions /\ SessionStep
    BY <1>1, <1>3, Types, StatusesKnown DEF IInv, Sessions, SessionStep
  <2>3. RowStep(l)
    BY <1>3, <2>1 DEF RowStep, Rows
  <2>4. TypeOK'
    BY <1>0, <1>3, <2>1, <2>2, Types, TypesNext, EndTaskTyped DEF IInv
  <2> QED
    BY <1>0, <2>2, <2>3, <2>4, TaskEndFrame
<1>4. CASE /\ row' = [row EXCEPT ![l].status = "pending", ![l].size = RebasedSize]
           /\ UNCHANGED <<session, unwind>> /\ NeedsRebase(l)
  <2>1. row \in Rows /\ row' \in Rows
    <3>1. row \in Rows
      BY Types DEF IInv
    <3>2. RebasedSize \in Sizes /\ "pending" \in RowStatuses
      BY StatusesKnown DEF RebasedSize, Sizes
    <3> QED
      BY <1>4, <3>1, <3>2 DEF Rows
  <2>2. RowStep(l) /\ SessionStep
    BY <1>1, <1>4, <2>1 DEF RowStep, SessionStep, Rows, NeedsRebase
  <2>3. TypeOK'
    BY <1>0, <1>4, <2>1, Types, TypesNext, EndTaskTyped DEF IInv
  <2> QED
    BY <1>0, <2>2, <2>3, TaskEndFrame
<1> QED
  BY <1>2, <1>3, <1>4 DEF RuntimeAuto

LEMMA RuntimeGraceHolds ==
  ASSUME NEW l \in Legs, IInv, RuntimeGrace(l)
  PROVE  IInv'
<1>1. /\ task[l].pc # "idle" /\ EndTask(l) /\ session.lead # NoLeg
      /\ UNCHANGED <<conf, creator, held, pos, ex, sl>>
  BY DEF RuntimeGrace, InSession, Checked, GraceOver
<1> QED
  BY <1>1, RuntimeUnwind DEF RuntimeGrace

\* A counter whose lead left no budget is not sent: its order was never.
LEMMA RuntimePassHolds ==
  ASSUME NEW l \in Legs, IInv, RuntimePass(l)
  PROVE  IInv'
<1>1. TypeOK'
  <2> USE DEF IInv, RuntimePass, Goto
  <2>1. task' \in Tasks
    BY Types DEF Tasks, Filling
  <2> QED
    BY Types, TypesNext, <2>1
<1> USE PairLockAssumption DEF RuntimePass, IInv, Legs, TypeOK,
       Checked, WaitsForLead, PassesAuto, AutoCounter, NeedsRebase, GraceOver, Goto
<1>2. (Matched /\ LockedHasCounter /\ HedgeFits)'
  BY DEF Matched, LockedHasCounter, HedgeFits, Resized, Closed, NetFill, Filling
<1>3. Attached'
  BY DEF Attached, Processable, Terminal
<1>4. Resized'
  BY DEF Resized, Attached, Processable
<1>5. (Waiting \/ Led)'
  BY DEF Waiting, Led, Attached, Matched, Processable, Terminal, Closed, NoLeg, Filling
<1> QED
  BY <1>1, <1>2, <1>3, <1>4, <1>5

LEMMA CancelRequestedHolds ==
  ASSUME NEW l \in Legs, IInv, CancelRequested(l)
  PROVE  IInv'
<1>1. TypeOK'
  <2> USE PairLockAssumption DEF CancelRequested, IInv, Legs
  <2>1. row' \in Rows /\ task' \in Tasks
    BY Types, StatusesKnown, RowActiveTyped, EndTaskTyped
  <2>2. ex' \in Books
    BY Types DEF Books
  <2> QED
    BY Types, TypesNext, <2>1, <2>2
<1> USE PairLockAssumption DEF CancelRequested, IInv, Legs, TypeOK, EndTask, NoTask
<1>2. (Matched /\ LockedHasCounter /\ HedgeFits)'
  BY DEF Matched, LockedHasCounter, HedgeFits, Resized, Closed, NetFill, Filling
<1>3. Attached'
  BY DEF Attached, Processable, Terminal
<1>4. Resized'
  BY DEF Resized, Attached, Processable
<1>5. (Waiting \/ Led)'
  BY DEF Waiting, Led, Attached, Matched, Processable, Terminal, Closed, NoLeg, Filling
<1> QED
  BY <1>1, <1>2, <1>3, <1>4, <1>5

LEMMA NotTriggeredHolds ==
  ASSUME NEW l \in Legs, IInv, NotTriggered(l)
  PROVE  IInv'
<1>1. TypeOK'
  <2>1. row' \in Rows
    <3>1. row \in Rows /\ row[l].status \in RowStatuses
      BY Types DEF IInv, Rows
    <3>2. PICK st \in RowStatuses : row' = [row EXCEPT ![l].status = st]
      BY <3>1, StatusesKnown DEF NotTriggered
    <3> QED
      BY <3>1, <3>2, RowStatusTyped
  <2>2. task' \in Tasks
    BY Types, EndTaskTyped DEF NotTriggered, IInv
  <2> QED
    BY Types, TypesNext, <2>1, <2>2 DEF NotTriggered, IInv
<1> USE PairLockAssumption DEF NotTriggered, IInv, Legs, TypeOK, Idle, Conditional, EndTask, NoTask
<1>2. (Matched /\ LockedHasCounter /\ HedgeFits)'
  BY DEF Matched, LockedHasCounter, HedgeFits, Resized, Closed, NetFill, Filling
<1>3. Attached'
  BY DEF Attached, Processable, Terminal
<1>4. Resized'
  BY DEF Resized, Attached
<1>5. (Waiting \/ Led)'
  BY DEF Waiting, Led, Attached, Matched, Processable, Terminal, Closed, NoLeg, Filling
<1> QED
  BY <1>1, <1>2, <1>3, <1>4, <1>5

LEMMA GuardBlocksHolds ==
  ASSUME NEW l \in Legs, IInv, GuardBlocks(l)
  PROVE  IInv'
<1>0. BookStep /\ task[l].pc # "idle" /\ EndTask(l) /\ UNCHANGED <<conf, creator, held, pos, ex, sl>>
  BY DEF GuardBlocks, BookStep, Idle
<1>1. ASSUME NEW st \in {"guard_blocked", "blocked", "error"},
             row' = [row EXCEPT ![l].status = st], UNCHANGED <<session, unwind>>
      PROVE  IInv'
  <2>1. row \in Rows /\ row' \in Rows
    BY <1>1, Types, StatusesKnown, RowStatusTyped DEF IInv
  <2>2. RowStep(l) /\ SessionStep
    BY <1>1, <2>1 DEF RowStep, SessionStep, Rows
  <2>3. TypeOK'
    BY <1>0, <1>1, <2>1, Types, TypesNext, EndTaskTyped DEF IInv
  <2> QED
    BY <1>0, <2>2, <2>3, TaskEndFrame
<1>2. CASE AbortForTerminal(l, [row EXCEPT ![l].status = "canceled"])
  <2> DEFINE r == [row EXCEPT ![l].status = "canceled"]
  <2>1. r \in Rows
    BY Types, StatusesKnown, RowStatusTyped DEF IInv
  <2>2. RowStep(l) /\ SessionStep /\ row' \in Rows /\ unwind' \in Sells /\ session' \in Sessions
    BY <1>2, <2>1, OrderEnds
  <2>3. TypeOK'
    BY <1>0, <2>2, Types, TypesNext, EndTaskTyped DEF IInv
  <2> QED
    BY <1>0, <2>2, <2>3, TaskEndFrame
<1> QED
  BY <1>1, <1>2 DEF GuardBlocks

LEMMA PassFailsHolds ==
  ASSUME NEW l \in Legs, IInv, PassFails(l)
  PROVE  IInv'
<1>1. TypeOK'
  <2> USE PairLockAssumption DEF PassFails, IInv, Idle, Legs
  <2>1. row' \in Rows /\ task' \in Tasks
    BY Types, StatusesKnown, RowStatusTyped, EndTaskTyped
  <2> QED
    BY Types, TypesNext, <2>1
<1> USE PairLockAssumption DEF PassFails, IInv, Legs, TypeOK, Idle, EndTask, NoTask
<1>2. (Matched /\ LockedHasCounter /\ HedgeFits)'
  BY DEF Matched, LockedHasCounter, HedgeFits, Resized, Closed, NetFill, Filling
<1>3. Attached'
  BY DEF Attached, Processable, Terminal
<1>4. Resized'
  BY DEF Resized, Attached
<1>5. (Waiting \/ Led)'
  BY DEF Waiting, Led, Attached, Matched, Processable, Terminal, Closed, NoLeg, Filling
<1> QED
  BY <1>1, <1>2, <1>3, <1>4, <1>5

LEMMA TaskOpenTyped ==
  ASSUME NEW l \in Legs, task \in Tasks, NEW a \in BOOLEAN, NEW st \in RowStatuses
  PROVE  [task EXCEPT ![l].active = a, ![l].status = st] \in Tasks
<1> DEFINE Task == [pc : {"idle", "read", "go"} \cup Filling, sess : BOOLEAN, status : RowStatuses,
                    active : BOOLEAN, listed : SUBSET Legs]
<1>1. [task[l] EXCEPT !.active = a] \in Task
  BY DEF Tasks
<1>2. ASSUME NEW u \in Task PROVE [u EXCEPT !.status = st] \in Task
  OBVIOUS
<1>3. [[task[l] EXCEPT !.active = a] EXCEPT !.status = st] \in Task
  BY <1>1, <1>2
<1>4. [task EXCEPT ![l] = [[task[l] EXCEPT !.active = a] EXCEPT !.status = st]] \in Tasks
  BY <1>3 DEF Tasks
<1> QED
  BY <1>4

LEMMA SubmitHolds ==
  ASSUME NEW l \in Legs, IInv, Submit(l)
  PROVE  IInv'
<1>1. TypeOK'
  <2> USE PairLockAssumption DEF Submit, IInv, Idle, MayTrigger, Conditional, Legs
  <2>1. row' \in Rows
    BY Types, StatusesKnown, RowActiveTyped
  <2>2. ex' \in Books
    BY Types DEF Books
  <2>3. task' \in Tasks
    BY Types, StatusesKnown, TaskOpenTyped
  <2> QED
    BY Types, TypesNext, <2>1, <2>2, <2>3
<1> USE PairLockAssumption DEF Submit, IInv, Legs, TypeOK, Idle, MayTrigger, Conditional
<1>a. /\ ex[l].qty = 0 /\ ex[l].fee = 0 /\ ex'[l].qty = 0 /\ ex'[l].fee = 0 /\ ex'[l].st = "live"
      /\ task'[l].pc = "go" /\ \A m \in Legs \ {l} : ex'[m] = ex[m] /\ task'[m] = task[m]
      /\ \A m \in Legs : row'[m].filled = row[m].filled
  BY DEF Matched
<1>2. (Matched /\ LockedHasCounter /\ HedgeFits)'
  <2>1. Matched'
    BY <1>a DEF Matched, NetFill, Filling
  <2>2. LockedHasCounter'
    BY <1>a DEF LockedHasCounter
  <2>3. HedgeFits'
    BY <1>a DEF HedgeFits
  <2> QED
    BY <2>1, <2>2, <2>3
<1>3. Attached'
  BY DEF Attached, Processable, Terminal
<1>4. Resized'
  BY DEF Resized, Attached, Processable
<1>5. (Waiting \/ Led)'
  BY DEF Waiting, Led, Attached, Matched, Processable, Terminal, Closed, NoLeg, Filling
<1> QED
  BY <1>1, <1>2, <1>3, <1>4, <1>5

LEMMA StillOpenHolds ==
  ASSUME NEW l \in Legs, IInv, StillOpen(l)
  PROVE  IInv'
<1> USE PairLockAssumption DEF StillOpen, IInv, Legs, TypeOK, EndTask, NoTask
<1>1. TypeOK'
  BY DEF RowStatuses, Terminal, Processable, Closed, SellStatuses, NoLeg, Filling
<1>2. (Matched /\ LockedHasCounter /\ HedgeFits)'
  BY DEF Matched, LockedHasCounter, HedgeFits, Resized, Closed, NetFill, Filling
<1>3. Attached'
  BY DEF Attached, Processable, Terminal
<1>4. Resized'
  BY DEF Resized, Attached
<1>5. (Waiting \/ Led)'
  BY DEF Waiting, Led, Attached, Matched, Processable, Terminal, Closed, NoLeg, Filling
<1> QED
  BY <1>1, <1>2, <1>3, <1>4, <1>5

LEMMA TakeBackHolds ==
  ASSUME NEW l \in Legs, IInv, TakeBack(l)
  PROVE  IInv'
<1>0. task[l].pc # "idle" /\ EndTask(l) /\ UNCHANGED <<conf, creator, held, pos, sl>>
  BY DEF TakeBack, Working
<1>1. ex' \in Books /\ BookStep
  BY Types DEF TakeBack, Books, BookStep, IInv
<1>2. CASE MustWait(l)
  <2>1. /\ row' = [row EXCEPT ![l].status = "guard_blocked", ![l].active = FALSE]
        /\ UNCHANGED <<session, unwind>>
    BY <1>2 DEF TakeBack
  <2>2. row \in Rows /\ row' \in Rows
    BY <2>1, Types, StatusesKnown, RowActiveTyped DEF IInv
  <2>3. RowStep(l) /\ SessionStep
    BY <2>1, <2>2 DEF RowStep, SessionStep, Rows
  <2>4. TypeOK'
    BY <1>0, <1>1, <2>1, <2>2, Types, TypesNext, EndTaskTyped DEF IInv
  <2> QED
    BY <1>0, <1>1, <2>3, <2>4, TaskEndFrame
<1>3. CASE ~MustWait(l)
  <2> DEFINE r == [row EXCEPT ![l].status = "canceled", ![l].active = FALSE]
  <2>1. r \in Rows /\ AbortForTerminal(l, r)
    BY <1>3, Types, StatusesKnown, RowActiveTyped DEF IInv, TakeBack
  <2>2. RowStep(l) /\ SessionStep /\ row' \in Rows /\ unwind' \in Sells /\ session' \in Sessions
    BY <2>1, OrderEnds
  <2>3. TypeOK'
    BY <1>0, <1>1, <2>2, Types, TypesNext, EndTaskTyped DEF IInv
  <2> QED
    BY <1>0, <1>1, <2>2, <2>3, TaskEndFrame
<1> QED
  BY <1>2, <1>3

LEMMA RecordRowHolds ==
  ASSUME NEW l \in Legs, IInv, RecordRow(l)
  PROVE  IInv'
<1>0. ex[l].qty \in 0..MaxQty /\ ex[l].fee \in 0..MaxQty /\ ex[l].qty > 0
  BY Types, PairLockAssumption DEF Books, IInv, RecordRow, Matched
<1>1. TypeOK'
  <2> USE PairLockAssumption DEF RecordRow, IInv, Working, Goto, Filling, Legs
  <2>1. row' \in Rows /\ task' \in Tasks
    BY Types, <1>0 DEF Rows, Tasks
  <2> QED
    BY Types, TypesNext, <2>1
<1> USE PairLockAssumption, <1>0 DEF RecordRow, IInv, Legs, TypeOK, Working, Goto
<1>2. (Matched /\ LockedHasCounter /\ HedgeFits)'
  BY DEF Matched, LockedHasCounter, HedgeFits, Resized, Closed, NetFill, Filling
<1>3. Attached'
  BY DEF Attached, Processable, Terminal
<1>4. Resized'
  BY DEF Resized, Attached, Processable
<1>5. (Waiting \/ Led)'
  BY DEF Waiting, Led, Attached, Matched, Processable, Terminal, Closed, NoLeg, Filling
<1> QED
  BY <1>1, <1>2, <1>3, <1>4, <1>5

LEMMA RecordPositionHolds ==
  ASSUME NEW l \in Legs, IInv, RecordPosition(l)
  PROVE  IInv'
<1>1. TypeOK'
  <2> USE PairLockAssumption DEF RecordPosition, IInv, Goto, Filling, Legs
  <2>1. pos' \in Positions
    BY Types DEF Positions, Rows
  <2>2. task' \in Tasks
    BY Types DEF Tasks
  <2> QED
    BY Types, TypesNext, <2>1, <2>2
<1> USE PairLockAssumption DEF RecordPosition, IInv, Legs, TypeOK, Goto
<1>2. (Matched /\ LockedHasCounter /\ HedgeFits)'
  BY DEF Matched, LockedHasCounter, HedgeFits, Resized, Closed, NetFill, Filling
<1>3. Attached'
  BY DEF Attached, Processable, Terminal
<1>4. Resized'
  BY DEF Resized, Attached, Processable, Filling
<1>5. (Waiting \/ Led)'
  BY DEF Waiting, Led, Attached, Matched, Processable, Terminal, Closed, NoLeg, Filling
<1> QED
  BY <1>1, <1>2, <1>3, <1>4, <1>5

\* The first fill in the session is the primary's, and settles how the counter
\* will be sized.
LEMMA RecordSessionHolds ==
  ASSUME NEW l \in Legs, IInv, RecordSession(l)
  PROVE  IInv'
<1> USE PairLockAssumption DEF Legs
<1>0. /\ session \in Sessions /\ task \in Tasks /\ TypeOK /\ Matched
      /\ task[l].pc = "session" /\ task' = [task EXCEPT ![l].pc = "recorded"]
      /\ UNCHANGED <<conf, creator, row, held, pos, ex, unwind, sl>>
  BY Types DEF IInv, RecordSession, Goto
<1>1. NetFill(l) \in 0..MaxQty /\ NetFill(l) > 0 /\ ex[l].st = "filled" /\ row[l].filled > 0
  BY <1>0, CurrentQtyTyped, Types DEF Matched, NetFill, Filling, Books
<1>2. PICK rest \in Rests :
        /\ rest # "capped" => conf.auto
        /\ session' = [session EXCEPT !.fill[l] = NetFill(l),
                                      !.lead = IF @ = NoLeg THEN l ELSE @,
                                      !.rest = IF session.lead = NoLeg THEN rest ELSE @]
  BY DEF RecordSession, Rests
<1>3. /\ session' \in Sessions /\ session'.status = session.status
      /\ session'.lead = (IF session.lead = NoLeg THEN l ELSE session.lead)
      /\ session'.rest = (IF session.lead = NoLeg THEN rest ELSE session.rest)
      /\ session'.fill = [session.fill EXCEPT ![l] = NetFill(l)]
  BY <1>0, <1>1, <1>2 DEF Sessions
<1>4. TypeOK'
  <2>1. task' \in Tasks
    BY <1>0 DEF Tasks, Filling
  <2> QED
    BY <1>0, <1>3, <2>1, Types, TypesNext
<1>5. l = "primary" \/ Led
  BY <1>0 DEF IInv, Waiting
<1>6. session.lead = NoLeg => Waiting
  BY DEF IInv, Led, NoLeg
<1>7. session.fill[l] > 0 => session.fill[l] = NetFill(l)
  BY <1>0 DEF Matched
<1>8. Led'
  BY <1>1, <1>3, <1>5, <1>6, Types, <1>0 DEF IInv, Waiting, Led, Sessions, NoLeg
<1>9. session.fill \in [Legs -> 0..MaxQty] /\ \A m \in Legs : session'.fill[m] > 0 =>
        session.fill[m] > 0 \/ m = l
  BY <1>0, <1>3 DEF Sessions
<1>10. Matched' /\ LockedHasCounter'
  <2>1. Matched'
    BY <1>0, <1>1, <1>3, <1>9 DEF Matched, NetFill, Filling, Tasks
  <2>2. session.fill["counter"] > 0 => session'.fill["counter"] > 0
    BY <1>1, <1>3, <1>9
  <2>3. LockedHasCounter'
    BY <1>0, <1>3, <2>2 DEF IInv, LockedHasCounter, Tasks
  <2> QED
    BY <2>1, <2>3
<1>11. Attached'
  BY <1>0 DEF IInv, Attached, Tasks
<1>12. Resized'
  BY <1>0, <1>1, <1>2, <1>3, <1>6 DEF IInv, Resized, Waiting, Tasks
<1>13. HedgeFits'
  <2>1. CASE session.lead = NoLeg
    <3>1. ex["counter"].qty = 0 /\ session'.fill["primary"] \in Nat
      BY <1>0, <1>3, <1>6, <2>1 DEF Waiting, Matched, Sessions
    <3> QED
      BY <1>0, <3>1 DEF HedgeFits
  <2>2. CASE session.lead # NoLeg
    <3>1. Led
      BY <2>2 DEF IInv, Waiting
    <3>2. session'.fill["primary"] = session.fill["primary"]
      BY <1>3, <1>7, <1>9, <3>1 DEF Led
    <3> QED
      BY <1>0, <1>3, <2>2, <3>2 DEF IInv, HedgeFits
  <2> QED
    BY <2>1, <2>2
<1> QED
  BY <1>4, <1>8, <1>10, <1>11, <1>12, <1>13 DEF IInv

LEMMA ReadSessionHolds ==
  ASSUME NEW l \in Legs, IInv, ReadSession(l)
  PROVE  IInv'
<1>1. TypeOK'
  <2> USE DEF IInv, ReadSession, Goto
  <2>1. task' \in Tasks
    BY Types DEF Tasks, Filling
  <2> QED
    BY Types, TypesNext, <2>1
<1> USE PairLockAssumption DEF ReadSession, IInv, Legs, TypeOK, CommonQty, Least, Goto
<1>2. (Matched /\ LockedHasCounter /\ HedgeFits)'
  BY DEF Matched, LockedHasCounter, HedgeFits, Resized, Closed, NetFill, Filling
<1>3. Attached'
  BY DEF Attached, Processable, Terminal
<1>4. Resized'
  BY DEF Resized, Attached
<1>5. (Waiting \/ Led)'
  BY DEF Waiting, Led, Attached, Matched, Processable, Terminal, Closed, NoLeg, Filling
<1> QED
  BY <1>1, <1>2, <1>3, <1>4, <1>5

LEMMA LockPairHolds ==
  ASSUME NEW l \in Legs, IInv, LockPair(l)
  PROVE  IInv'
<1> USE DEF Legs
<1>0. /\ task \in Tasks /\ session \in Sessions /\ Listed(row) \in SUBSET Legs
      /\ "locked" \in SessionStatuses
  BY Types, StatusesKnown DEF IInv, Listed
<1>1. CommonQty \in 0..MaxQty
  BY <1>0, PairLockAssumption DEF CommonQty, Least, Sessions
<1>2. /\ session' \in Sessions /\ session'.status = "locked" /\ session'.lead = session.lead
      /\ session'.fill = session.fill /\ session'.rest = session.rest
  BY <1>0, <1>1 DEF LockPair, Sessions
<1>3. /\ task[l].pc = "lock"
      /\ task' = [task EXCEPT ![l].pc = "residue", ![l].listed = Listed(row)]
      /\ UNCHANGED <<conf, creator, row, held, pos, ex, unwind, sl>>
  BY DEF LockPair
<1>4. task' \in Tasks
  BY <1>0, <1>3 DEF Tasks, Filling
<1>5. TypeOK'
  BY <1>2, <1>3, <1>4, Types, TypesNext DEF IInv
<1>6. Led
  BY <1>3 DEF IInv, Waiting
<1>7. session.fill["counter"] > 0
  BY <1>3 DEF IInv, LockedHasCounter
<1> USE DEF IInv
<1>8. (Matched /\ LockedHasCounter /\ HedgeFits /\ Led)'
  BY <1>0, <1>2, <1>3, <1>6, <1>7
     DEF Matched, LockedHasCounter, HedgeFits, Led, NetFill, Filling, Tasks
<1>9. Attached'
  BY <1>0, <1>3 DEF Attached, Tasks
<1>10. Resized'
  BY <1>0, <1>2, <1>3 DEF Resized, Tasks
<1> QED
  BY <1>5, <1>8, <1>9, <1>10

\* Both legs have filled, so the residue's unwind cancels no row.
LEMMA ResidueFrame ==
  ASSUME NEW l \in Legs, IInv, UnwindResidue(l)
  PROVE  /\ row' = row /\ unwind' \in Sells /\ session' \in Sessions /\ Led
         /\ session'.status = "locked" /\ session'.lead = session.lead
         /\ session'.fill = session.fill /\ session'.rest = session.rest
         /\ session'.locked = session.locked /\ UnwindsRest(CommonQty)
         /\ session.fill["counter"] > 0 /\ CommonQty \in 0..MaxQty
<1> USE DEF Legs
<1>0. /\ row \in Rows /\ task[l].pc = "residue" /\ TypeOK /\ Matched /\ session \in Sessions
      /\ task[l].listed \in SUBSET Legs /\ "locked" \in SessionStatuses
  BY Types, StatusesKnown DEF IInv, UnwindResidue, Tasks
<1>1. Led /\ session.fill["counter"] > 0
  BY <1>0 DEF IInv, Waiting, LockedHasCounter
<1>2. \A m \in Legs : row[m].filled > 0
  BY <1>1, <1>0 DEF Led, Matched
<1>3. CommonQty \in 0..MaxQty
  BY <1>0, PairLockAssumption DEF CommonQty, Least, Sessions
<1>4. ScheduleUnwind(row, task[l].listed, "locked", CommonQty)
  BY DEF UnwindResidue
<1>5. /\ row' \in Rows /\ unwind' \in Sells /\ session' \in Sessions
      /\ session'.status = "locked" /\ session'.lead = session.lead
      /\ session'.fill = session.fill /\ session'.rest = session.rest
      /\ session'.locked = session.locked /\ UnwindsRest(CommonQty)
  BY <1>0, <1>2, <1>3, <1>4, ScheduleUnwindFrame
<1>6. row' = row
  BY <1>0, <1>2, <1>4 DEF ScheduleUnwind, CancelCandidates, Cancelable, Rows
<1> QED
  BY <1>1, <1>3, <1>5, <1>6

LEMMA UnwindResidueHolds ==
  ASSUME NEW l \in Legs, IInv, UnwindResidue(l)
  PROVE  IInv'
<1> USE DEF Legs
<1>0. /\ task \in Tasks /\ session \in Sessions /\ sl \in [Legs -> SellStatuses]
      /\ task[l].pc = "residue" /\ task' = [task EXCEPT ![l].pc = "finish"]
      /\ UNCHANGED <<conf, creator, held, pos, ex>>
  BY Types DEF IInv, UnwindResidue, Goto
<1>1. /\ row' = row /\ unwind' \in Sells /\ session' \in Sessions /\ Led
      /\ session'.status = "locked" /\ session'.lead = session.lead
      /\ session'.fill = session.fill /\ session'.rest = session.rest
      /\ session.fill["counter"] > 0
  BY ResidueFrame
<1>2. sl' \in [Legs -> SellStatuses]
  <2>1. \A x \in Legs : CanceledSl(sl[x]) \in SellStatuses
    BY <1>0, StatusesKnown DEF CanceledSl
  <2> QED
    BY <1>0, <2>1 DEF UnwindResidue
<1>3. task' \in Tasks
  BY <1>0 DEF Tasks, Filling
<1>4. TypeOK'
  BY <1>0, <1>1, <1>2, <1>3, Types, TypesNext DEF IInv
<1> USE DEF IInv
<1>5. (Matched /\ LockedHasCounter /\ HedgeFits /\ Led)'
  BY <1>0, <1>1 DEF Matched, LockedHasCounter, HedgeFits, Led, NetFill, Filling, Tasks
<1>6. Attached'
  BY <1>0, <1>1 DEF Attached, Tasks
<1>7. Resized'
  BY <1>0, <1>1 DEF Resized, Tasks
<1> QED
  BY <1>4, <1>5, <1>6, <1>7

LEMMA FillFailsHolds ==
  ASSUME NEW l \in Legs, IInv, FillFails(l)
  PROVE  IInv'
<1>0. /\ BookStep /\ SessionStep /\ task[l].pc # "idle" /\ EndTask(l)
      /\ UNCHANGED <<conf, creator, held, pos, ex, session, unwind, sl>>
  BY DEF FillFails, BookStep, SessionStep, Filling
<1>1. row \in Rows /\ row' \in Rows /\ RowStep(l)
  BY Types, StatusesKnown DEF IInv, FillFails, RowStep, Rows
<1>2. TypeOK'
  BY <1>0, <1>1, Types, TypesNext, EndTaskTyped DEF IInv
<1> QED
  BY <1>0, <1>1, <1>2, TaskEndFrame

LEMMA RebaseHolds ==
  ASSUME NEW l \in Legs, IInv, Rebase(l)
  PROVE  IInv'
<1>1. NetFill(l) \in 0..MaxQty /\ held[l] \in 0..MaxQty /\ pos \in Positions
  BY CurrentQtyTyped, Types DEF IInv
<1>2. pos' \in Positions
  BY <1>1 DEF Rebase, Positions
<1>3. TypeOK'
  BY <1>2, Types, TypesNext DEF IInv, Rebase
<1>4. (Matched /\ LockedHasCounter /\ HedgeFits /\ Attached /\ Resized)'
  BY DEF IInv, Rebase, Matched, LockedHasCounter, HedgeFits, Attached, Resized, NetFill
<1>5. (Waiting \/ Led)'
  BY DEF IInv, Rebase, Waiting, Led
<1> QED
  BY <1>3, <1>4, <1>5 DEF IInv

LEMMA FinishFillHolds ==
  ASSUME NEW l \in Legs, IInv, FinishFill(l)
  PROVE  IInv'
<1>1. TypeOK'
  <2> USE PairLockAssumption DEF FinishFill, IInv, Legs
  <2>1. row' \in Rows /\ task' \in Tasks
    BY Types, StatusesKnown, RowActiveTyped, EndTaskTyped
  <2>2. sl' \in [Legs -> SellStatuses]
    BY Types, StatusesKnown
  <2> QED
    BY Types, TypesNext, <2>1, <2>2
<1> USE PairLockAssumption DEF FinishFill, IInv, Legs, TypeOK, EndTask, NoTask
<1>2. (Matched /\ LockedHasCounter /\ HedgeFits)'
  BY DEF Matched, LockedHasCounter, HedgeFits, Resized, Closed, NetFill, Filling
<1>3. Attached'
  BY DEF Attached, Processable, Terminal
<1>4. Resized'
  BY DEF Resized, Attached
<1>5. (Waiting \/ Led)'
  BY DEF Waiting, Led, Attached, Matched, Processable, Terminal, Closed, NoLeg, Filling
<1> QED
  BY <1>1, <1>2, <1>3, <1>4, <1>5

LEMMA UnwindPlaceHolds ==
  ASSUME NEW l \in Legs, NEW k \in Slots, IInv, UnwindPlace(l, k)
  PROVE  IInv'
<1> USE PairLockAssumption DEF UnwindPlace, IInv, Legs, TypeOK
<1>1. TypeOK'
  BY DEF RowStatuses, Terminal, Processable, Closed, SellStatuses, NoLeg, Filling
<1>2. (Matched /\ LockedHasCounter /\ HedgeFits)'
  BY DEF Matched, LockedHasCounter, HedgeFits, Resized, Closed, NetFill, Filling
<1>3. Attached'
  BY DEF Attached, Processable, Terminal
<1>4. Resized'
  BY DEF Resized, Attached
<1>5. (Waiting \/ Led)'
  BY DEF Waiting, Led, Attached, Matched, Processable, Terminal, Closed, NoLeg, Filling
<1> QED
  BY <1>1, <1>2, <1>3, <1>4, <1>5

LEMMA UnwindFillHolds ==
  ASSUME NEW l \in Legs, NEW k \in Slots, IInv, UnwindFill(l, k)
  PROVE  IInv'
<1>1. TypeOK'
  <2> USE PairLockAssumption DEF UnwindFill, IInv, Least, Legs
  <2>1. held' \in [Legs -> 0..MaxQty]
    BY Types DEF Sells
  <2>2. unwind' \in Sells
    BY Types, StatusesKnown DEF Sells
  <2>3. session' \in Sessions
    BY Types, StatusesKnown DEF Sessions
  <2> QED
    BY Types, TypesNext, <2>1, <2>2, <2>3
<1> USE PairLockAssumption DEF UnwindFill, IInv, Legs, TypeOK, Least
<1>2. (Matched /\ LockedHasCounter /\ HedgeFits)'
  BY DEF Matched, LockedHasCounter, HedgeFits, Resized, Closed, NetFill, Filling
<1>3. Attached'
  BY DEF Attached, Processable, Terminal
<1>4. Resized'
  BY DEF Resized, Attached
<1>5. (Waiting \/ Led)'
  BY DEF Waiting, Led, Attached, Matched, Processable, Terminal, Closed, NoLeg, Filling
<1> QED
  BY <1>1, <1>2, <1>3, <1>4, <1>5

LEMMA UnwindCanceledHolds ==
  ASSUME NEW l \in Legs, NEW k \in Slots, IInv, UnwindCanceled(l, k)
  PROVE  IInv'
<1> USE PairLockAssumption DEF UnwindCanceled, IInv, Legs, TypeOK
<1>1. TypeOK'
  BY DEF RowStatuses, Terminal, Processable, Closed, SellStatuses, NoLeg, Filling
<1>2. (Matched /\ LockedHasCounter /\ HedgeFits)'
  BY DEF Matched, LockedHasCounter, HedgeFits, Resized, Closed, NetFill, Filling
<1>3. Attached'
  BY DEF Attached, Processable, Terminal
<1>4. Resized'
  BY DEF Resized, Attached
<1>5. (Waiting \/ Led)'
  BY DEF Waiting, Led, Attached, Matched, Processable, Terminal, Closed, NoLeg, Filling
<1> QED
  BY <1>1, <1>2, <1>3, <1>4, <1>5

LEMMA SlTriggerHolds ==
  ASSUME NEW l \in Legs, IInv, SlTrigger(l)
  PROVE  IInv'
<1>1. TypeOK'
  <2> USE PairLockAssumption DEF SlTrigger, IInv, Legs
  <2>1. sl' \in [Legs -> SellStatuses]
    BY Types, StatusesKnown
  <2>2. unwind' \in Sells
    BY Types, StopUnwindsTyped
  <2> QED
    BY Types, TypesNext, <2>1, <2>2
<1> USE PairLockAssumption DEF SlTrigger, IInv, Legs, TypeOK
<1>2. (Matched /\ LockedHasCounter /\ HedgeFits)'
  BY DEF Matched, LockedHasCounter, HedgeFits, Resized, Closed, NetFill, Filling
<1>3. Attached'
  BY DEF Attached, Processable, Terminal
<1>4. Resized'
  BY DEF Resized, Attached
<1>5. (Waiting \/ Led)'
  BY DEF Waiting, Led, Attached, Matched, Processable, Terminal, Closed, NoLeg, Filling
<1> QED
  BY <1>1, <1>2, <1>3, <1>4, <1>5

LEMMA SlFillHolds ==
  ASSUME NEW l \in Legs, IInv, SlFill(l)
  PROVE  IInv'
<1> USE DEF Legs
<1>0. /\ row \in Rows /\ session \in Sessions /\ sl \in [Legs -> SellStatuses]
      /\ unwind \in Sells /\ held \in [Legs -> 0..MaxQty] /\ pos \in Positions
      /\ sl[l] = "open" /\ held' = [held EXCEPT ![l] = 0]
      /\ UNCHANGED <<conf, creator, ex, task>>
  BY Types DEF IInv, SlFill
<1>1. pos' \in Positions /\ held' \in [Legs -> 0..MaxQty]
  <2>1. held[l] \in 0..MaxQty /\ pos[l].qty \in 0..MaxQty
    BY <1>0 DEF Positions
  <2>2. Less(pos[l].qty, held[l]) \in 0..MaxQty
    BY <2>1, PairLockAssumption DEF Less
  <2>3. pos' = [pos EXCEPT ![l] = [@ EXCEPT !.qty = Less(pos[l].qty, held[l]), !.sold = TRUE]]
    BY <1>0 DEF SlFill, Positions
  <2>4. pos' \in Positions
    BY <1>0, <2>2, <2>3 DEF Positions
  <2> QED
    BY <1>0, <2>4, PairLockAssumption
<1>2. Matched /\ LockedHasCounter /\ Attached /\ (Waiting \/ Led) /\ Resized /\ HedgeFits
  BY DEF IInv
<1>7. \A m \in Legs : held'[m] <= NetFill(m)
  <2>1. NetFill(l) \in 0..MaxQty
    BY CurrentQtyTyped DEF IInv
  <2> QED
    BY <1>0, <1>2, <2>1, PairLockAssumption DEF Matched
<1>3. \A x \in Legs : CanceledSl(sl[x]) \in SellStatuses
  BY <1>0, StatusesKnown DEF CanceledSl
<1>4. CASE row[l].sess /\ session.status = "locked" /\ ~conf.ignoreSl
  <2>1. LockedLegStopped(l)
    BY <1>4 DEF SlFill
  <2>2. row' \in Rows
    BY <1>0, <2>1 DEF LockedLegStopped, Rows, Other
  <2>3. session' \in Sessions /\ sl' \in [Legs -> SellStatuses] /\ unwind' \in Sells
    BY <1>0, <2>1, StatusesKnown, StopUnwindsTyped DEF LockedLegStopped, Sessions
  <2>4. TypeOK'
    BY <1>0, <1>1, <2>2, <2>3, Types, TypesNext DEF IInv
  <2>5. Led /\ ex["counter"].st = "filled"
    BY <1>2, <1>4 DEF Waiting, Closed, LockedHasCounter, Matched
  <2>6. /\ session'.status = "completed" /\ session'.lead = session.lead
        /\ session'.fill = session.fill /\ session'.rest = session.rest
    BY <1>0, <2>1 DEF LockedLegStopped, Sessions
  <2>7. \A m \in Legs : /\ row'[m].status = row[m].status /\ row'[m].active = row[m].active
                        /\ row'[m].size = row[m].size /\ row'[m].filled = row[m].filled
    BY <1>0, <2>1 DEF LockedLegStopped, Rows, Other
  <2>8. (Matched /\ LockedHasCounter /\ HedgeFits /\ Led)'
    BY <1>0, <1>2, <1>4, <1>7, <2>5, <2>6, <2>7
       DEF Matched, LockedHasCounter, HedgeFits, Led, NetFill
  <2>9. Attached' /\ Resized'
    BY <1>0, <1>2, <2>5, <2>6, <2>7 DEF Attached, Resized
  <2> QED
    BY <2>4, <2>8, <2>9 DEF IInv
<1>5. CASE ~(row[l].sess /\ session.status = "locked" /\ ~conf.ignoreSl)
           /\ row[l].sess /\ session.status = "working" /\ session.lead = l
  <2>1. LeadStopped(l)
    BY <1>5 DEF SlFill
  <2>2. Other(l) \in Legs
    BY DEF Other
  <2>3. /\ row' \in Rows
        /\ \A m \in Legs : /\ row'[m].sess = row[m].sess /\ row'[m].active = row[m].active
                           /\ row'[m].size = row[m].size /\ row'[m].filled = row[m].filled
                           /\ \/ row'[m].status = row[m].status
                              \/ row[m].sess /\ row'[m].status \in {"canceled", "canceled_requested"}
    BY <1>0, <2>1, <2>2, StatusesKnown DEF LeadStopped, Rows, CanceledStatus
  <2>4. session' \in Sessions /\ sl' \in [Legs -> SellStatuses] /\ unwind' = unwind
    BY <1>0, <1>3, <2>1, <2>2, StatusesKnown DEF LeadStopped, Sessions, Other
  <2>5. TypeOK'
    BY <1>0, <1>1, <2>3, <2>4, Types, TypesNext DEF IInv
  <2>6. /\ session'.status = "completed" /\ session'.lead = session.lead
        /\ session'.fill = session.fill /\ session'.rest = session.rest
    BY <1>0, <2>1 DEF LeadStopped, Sessions
  <2>7. Led
    BY <1>2, <1>5 DEF Waiting, NoLeg
  <2>8. (Matched /\ LockedHasCounter /\ HedgeFits /\ Led)'
    BY <1>0, <1>2, <1>7, <2>3, <2>6, <2>7
       DEF Matched, LockedHasCounter, HedgeFits, Led, NetFill
  <2>9. Attached' /\ Resized'
    BY <1>0, <1>2, <2>3, <2>6 DEF Attached, Resized, Processable
  <2> QED
    BY <2>5, <2>8, <2>9 DEF IInv
<1>6. CASE UNCHANGED <<row, session, unwind>> /\ sl' = [sl EXCEPT ![l] = "completed"]
  <2>1. TypeOK'
    BY <1>0, <1>1, <1>6, StatusesKnown, Types, TypesNext DEF IInv
  <2>2. Matched'
    BY <1>0, <1>2, <1>6, <1>7 DEF Matched, NetFill
  <2>3. (LockedHasCounter /\ Attached /\ (Waiting \/ Led) /\ Resized /\ HedgeFits)'
    BY <1>0, <1>2, <1>6 DEF LockedHasCounter, Attached, Waiting, Led, Resized, HedgeFits
  <2> QED
    BY <2>1, <2>2, <2>3 DEF IInv
<1> QED
  BY <1>4, <1>5, <1>6 DEF SlFill

LEMMA SlCanceledHolds ==
  ASSUME NEW l \in Legs, IInv, SlCanceled(l)
  PROVE  IInv'
<1> USE PairLockAssumption DEF SlCanceled, IInv, Legs, TypeOK
<1>1. TypeOK'
  BY DEF RowStatuses, Terminal, Processable, Closed, SellStatuses, NoLeg, Filling
<1>2. (Matched /\ LockedHasCounter /\ HedgeFits)'
  BY DEF Matched, LockedHasCounter, HedgeFits, Resized, Closed, NetFill, Filling
<1>3. Attached'
  BY DEF Attached, Processable, Terminal
<1>4. Resized'
  BY DEF Resized, Attached
<1>5. (Waiting \/ Led)'
  BY DEF Waiting, Led, Attached, Matched, Processable, Terminal, Closed, NoLeg, Filling
<1> QED
  BY <1>1, <1>2, <1>3, <1>4, <1>5

LEMMA MatchesHolds ==
  ASSUME NEW l \in Legs, IInv, Matches(l)
  PROVE  IInv'
<1> USE PairLockAssumption DEF Legs
<1>0. /\ ex \in Books /\ held \in [Legs -> 0..MaxQty] /\ session \in Sessions
      /\ ex[l].st = "live" /\ UNCHANGED <<conf, creator, row, pos, task, session, unwind, sl>>
  BY Types DEF IInv, Matches
<1>q. PICK q \in OrderQty(l) : \E fee \in 0..(q - 1) :
        /\ ex' = [ex EXCEPT ![l].st = "filled", ![l].qty = q, ![l].fee = fee]
        /\ held' = [held EXCEPT ![l] = @ + q - fee]
  BY DEF Matches
<1>1. PICK fee \in 0..(q - 1) :
        /\ ex' = [ex EXCEPT ![l].st = "filled", ![l].qty = q, ![l].fee = fee]
        /\ held' = [held EXCEPT ![l] = @ + q - fee]
  BY <1>q
<1>2. q \in 1..MaxQty /\ fee \in 0..MaxQty /\ fee < q /\ q - fee \in 1..MaxQty
  BY <1>0 DEF OrderQty, Sessions
<1>3. held[l] = 0
  BY <1>0 DEF IInv, Matched, NetFill
<1>4. /\ ex' \in Books /\ ex'[l].st = "filled" /\ ex'[l].qty = q /\ ex'[l].fee = fee
      /\ ex'[l].topped = ex[l].topped /\ \A m \in Legs \ {l} : ex'[m] = ex[m]
  BY <1>0, <1>1, <1>2 DEF Books
<1>5. /\ held' \in [Legs -> 0..MaxQty] /\ held'[l] = q - fee
      /\ \A m \in Legs \ {l} : held'[m] = held[m]
  BY <1>0, <1>1, <1>2, <1>3
<1>6. TypeOK'
  BY <1>0, <1>4, <1>5, Types, TypesNext DEF IInv
<1> USE DEF IInv
<1>7. (Matched /\ LockedHasCounter)'
  BY <1>0, <1>2, <1>4, <1>5 DEF Matched, LockedHasCounter, NetFill
<1>8. (Attached /\ Resized)'
  BY <1>0, <1>4 DEF Attached, Resized
<1>9. (Waiting \/ Led)'
  BY <1>0, <1>4 DEF Waiting, Led
<1>10. HedgeFits'
  <2>1. CASE l = "counter" /\ conf.auto /\ session.rest = "capped" /\ ~ex[l].topped
    <3>1. row["counter"].size = "hedge"
      BY <1>0, <2>1, Types DEF Resized, Rows, Sizes
    <3>2. q <= session.fill["primary"]
      BY <1>0, <2>1, <3>1 DEF OrderQty, Sessions
    <3> QED
      BY <1>0, <1>4, <2>1, <3>2 DEF HedgeFits
  <2>2. CASE ~(l = "counter" /\ conf.auto /\ session.rest = "capped" /\ ~ex[l].topped)
    BY <1>0, <1>4, <2>2 DEF HedgeFits
  <2> QED
    BY <2>1, <2>2
<1> QED
  BY <1>6, <1>7, <1>8, <1>9, <1>10

LEMMA GraceElapsesHolds ==
  ASSUME IInv, GraceElapses
  PROVE  IInv'
<1> USE PairLockAssumption DEF GraceElapses, IInv, Legs, TypeOK
<1>1. TypeOK'
  BY DEF RowStatuses, Terminal, Processable, Closed, SellStatuses, NoLeg, Filling
<1>2. (Matched /\ LockedHasCounter /\ HedgeFits)'
  BY DEF Matched, LockedHasCounter, HedgeFits, Resized, Closed, NetFill, Filling
<1>3. Attached'
  BY DEF Attached, Processable, Terminal
<1>4. Resized'
  BY DEF Resized, Attached
<1>5. (Waiting \/ Led)'
  BY DEF Waiting, Led, Attached, Matched, Processable, Terminal, Closed, NoLeg, Filling
<1> QED
  BY <1>1, <1>2, <1>3, <1>4, <1>5

LEMMA UserCancelsHolds ==
  ASSUME NEW l \in Legs, IInv, UserCancels(l)
  PROVE  IInv'
<1>1. TypeOK'
  <2> USE PairLockAssumption DEF UserCancels, IInv, Legs
  <2>1. row' \in Rows
    BY Types, StatusesKnown, RowStatusTyped
  <2> QED
    BY Types, TypesNext, <2>1
<1> USE PairLockAssumption DEF UserCancels, IInv, Legs, TypeOK
<1>2. (Matched /\ LockedHasCounter /\ HedgeFits)'
  BY DEF Matched, LockedHasCounter, HedgeFits, Resized, Closed, NetFill, Filling
<1>3. Attached'
  BY DEF Attached, Processable, Terminal
<1>4. Resized'
  BY DEF Resized, Attached
<1>5. (Waiting \/ Led)'
  BY DEF Waiting, Led, Attached, Matched, Processable, Terminal, Closed, NoLeg, Filling
<1> QED
  BY <1>1, <1>2, <1>3, <1>4, <1>5

\* Every step of the pair keeps the invariant.
LEMMA NextHolds == IInv /\ [Next]_vars => IInv'
<1> SUFFICES ASSUME IInv, [Next]_vars PROVE IInv'
  OBVIOUS
<1>1. CASE Create
  BY <1>1, CreatePrimaryHolds, CreateCounterHolds, CreateCounterFailsHolds, CreateSessionHolds,
     AttachOrderHolds, HoldCounterHolds, Zenon DEF Create
<1>2. ASSUME NEW l \in Legs, TaskStep(l) PROVE IInv'
  BY <1>2, ReadRowHolds, ExpireHolds, RuntimeClosedHolds, RuntimeHoldHolds, RuntimeAutoHolds,
     RuntimeGraceHolds, RuntimePassHolds, CancelRequestedHolds, NotTriggeredHolds, GuardBlocksHolds,
     PassFailsHolds, SubmitHolds, StillOpenHolds, TakeBackHolds, RecordRowHolds,
     RecordPositionHolds, RecordSessionHolds, ReadSessionHolds, LockPairHolds, UnwindResidueHolds,
     FinishFillHolds, FillFailsHolds, Zenon DEF TaskStep
<1>3. ASSUME NEW l \in Legs, UnwindStep(l) \/ SlStep(l) PROVE IInv'
  BY <1>3, UnwindPlaceHolds, UnwindFillHolds, UnwindCanceledHolds, SlTriggerHolds, SlFillHolds,
     SlCanceledHolds, Zenon DEF UnwindStep, SlStep
<1>4. ASSUME NEW l \in Legs, Matches(l) \/ Rebase(l) \/ UserCancels(l) PROVE IInv'
  BY <1>4, MatchesHolds, RebaseHolds, UserCancelsHolds, Zenon
<1>5. CASE GraceElapses
  BY <1>5, GraceElapsesHolds
<1>6. CASE UNCHANGED vars
  BY <1>6 DEF vars, IInv, TypeOK, Matched, LockedHasCounter, Attached, Waiting, Led, Resized,
     HedgeFits, NetFill
<1> QED
  BY <1>1, <1>2, <1>3, <1>4, <1>5, <1>6, Zenon DEF Next

\* The invariant holds in every reachable state.
LEMMA PairInvariant == Spec => []IInv
BY InitHolds, NextHolds, PTL DEF Spec

\* The rows, the session, the tasks and the sells of a pair keep their types,
\* the quantities within what one order buys, whatever the tasks, the user and
\* the exchange do.
THEOREM PairTypes == Spec => []TypeOK
<1>1. IInv => TypeOK
  BY DEF IInv
<1> QED
  BY <1>1, PairInvariant, PTL

\* maybe_hold_trade_builder_pair_lock_counter_until_lead works: the counter is
\* never on the exchange before the primary's fill is recorded in the session.
THEOREM PairCounterWaits == Spec => []CounterNeedsLead
<1>1. IInv => CounterNeedsLead
  BY DEF IInv, Waiting, Led, CounterNeedsLead
<1> QED
  BY <1>1, PairInvariant, PTL

\* An auto-sized counter, resized by
\* maybe_prepare_trade_builder_pair_lock_auto_counter, never buys more than its
\* lead has net of the fee, unless the lead's price left no cap or the order
\* was topped up to the exchange's minimum.
THEOREM PairHedgeFits == Spec => []HedgeFits
<1>1. IInv => HedgeFits
  BY DEF IInv
<1> QED
  BY <1>1, PairInvariant, PTL

---------------------------------------------------------------------------
(* The unwind sells spare the locked quantity.                             *)

Locking == \E l \in Legs : task[l].pc = "lock"
NoUnwind == \A l \in Legs : \A k \in Slots : unwind[l][k].qty = 0

\* No row, task or session is tied before the session is created.
NotLinked ==
  creator \in {"primary", "counter", "session"} =>
    session.status = "none" /\ \A l \in Legs : ~row[l].sess /\ ~task[l].sess

\* The flow step's later writes hit rows no task has worked on.
Fresh(l) ==
  /\ row[l].filled = 0 /\ row[l].status \notin Processable /\ ~row[l].active
  /\ task[l].pc = "idle"
Untouched == /\ creator = "primary" => Fresh("primary")
             /\ creator # "done" => Fresh("counter")

\* A candidate that has filled is not taken up again while its session works.
Over ==
  \A l \in Legs : row[l].filled > 0 =>
    \/ task[l].pc \in Filling
    \/ task[l].pc = "idle" /\ row[l].status \in {"completed", "canceled", "error"}
    \/ session.status \notin {"none", "working"}

\* A row counts the exchange's gross fill; a position seeded from it is at most
\* that, one seeded from the wallet at most the net fill.
Counted ==
  \A l \in Legs :
    /\ row[l].filled > 0 => ex[l].st = "filled" /\ row[l].filled = ex[l].qty
    /\ pos[l].from = "fill" => pos[l].qty <= ex[l].qty
    /\ pos[l].from = "visible" => pos[l].qty <= NetFill(l)

\* A lock is over both fills, and a task that is about to lock, or to unwind
\* the residue, has seen both.
LockKnown ==
  /\ session.locked > 0 => session.locked = CommonQty
  /\ \A l \in Legs :
       /\ task[l].pc \in {"lock", "residue"} => CommonQty > 0
       /\ task[l].pc = "residue" => session.locked > 0
       /\ task[l].pc \in {"session", "recorded", "lock", "residue"} => task[l].sess

\* Nothing is unwound before the lock or the abort of the session.
UnwindsAfter ==
  session.status \in {"none", "working"} \/ (Locking /\ session.locked = 0) => NoUnwind

Sparing ==
  /\ NotLinked /\ Untouched /\ Over /\ Counted /\ LockKnown /\ UnwindsAfter
  /\ UnwindSparesLock

LEMMA SparingInit == Init => Sparing
BY PairLockAssumption DEF Init, Sparing, NotLinked, Untouched, Fresh, Over, Counted, LockKnown,
   Locking, NoUnwind, UnwindsAfter, UnwindSparesLock, NoRow, NoTask, NoSession, NoPosition,
   NoOrder, NoSell, NetFill, Legs, Slots, Processable

\* The types the steps below use.
LEMMA Quantities ==
  ASSUME TypeOK, Matched, NEW l \in Legs
  PROVE  /\ row[l].filled \in 0..MaxQty /\ pos[l].qty \in 0..MaxQty /\ ex[l].qty \in 0..MaxQty
         /\ NetFill(l) \in 0..MaxQty /\ NetFill(l) <= ex[l].qty /\ held[l] <= NetFill(l)
         /\ session.fill \in [Legs -> 0..MaxQty] /\ session.locked \in 0..MaxQty
         /\ CommonQty \in 0..MaxQty
         /\ \A k \in Slots : unwind[l][k].qty \in 0..MaxQty /\ unwind[l][k].gross \in BOOLEAN
<1> USE PairLockAssumption
<1>1. /\ row[l].filled \in 0..MaxQty /\ pos[l].qty \in 0..MaxQty /\ ex[l].qty \in 0..MaxQty
      /\ ex[l].fee \in 0..MaxQty
      /\ session.fill \in [Legs -> 0..MaxQty] /\ session.locked \in 0..MaxQty
  BY Types DEF Rows, Positions, Books, Sessions
<1>2. NetFill(l) \in 0..MaxQty /\ NetFill(l) <= ex[l].qty
  BY <1>1, CurrentQtyTyped DEF NetFill
<1>3. CommonQty \in 0..MaxQty
  BY <1>1 DEF CommonQty, Least, Legs
<1>4. \A k \in Slots : unwind[l][k].qty \in 0..MaxQty /\ unwind[l][k].gross \in BOOLEAN
  BY Types DEF Sells
<1> QED
  BY <1>1, <1>2, <1>3, <1>4 DEF Matched

\* While a leg has not filled nothing is locked and no task is about to.
LEMMA NoCommon ==
  ASSUME IInv, Sparing, NEW l \in Legs, row[l].filled = 0 \/ session.fill[l] = 0
  PROVE  session.locked = 0 /\ \A m \in Legs : task[m].pc \notin {"lock", "residue"}
<1>1. TypeOK /\ Matched
  BY DEF IInv
<1>2. session.fill[l] = 0
  BY <1>1, Quantities, PairLockAssumption DEF Matched
<1>3. CommonQty = 0
  BY <1>1, <1>2, Quantities, PairLockAssumption DEF CommonQty, Least, Legs
<1> QED
  BY <1>1, <1>3, Quantities, PairLockAssumption DEF Sparing, LockKnown

\* What a leg is taken to hold can be sold, by the position that says so.
LEMMA CurrentQtySellable ==
  ASSUME IInv, Counted, NEW l \in Legs
  PROVE  CurrentQty(l) <= Sellable(l, pos[l].from = "fill")
<1>1. TypeOK /\ Matched
  BY DEF IInv
<1>2. pos[l].from \in {"none", "fill", "visible"}
  BY <1>1, Types DEF Positions
<1>3. CASE pos[l].from = "fill"
  BY <1>3 DEF CurrentQty, Sellable, Counted
<1>4. CASE pos[l].from = "visible"
  BY <1>4 DEF CurrentQty, Sellable, Counted
<1>5. CASE pos[l].from = "none"
  BY <1>1, <1>5, Quantities, PairLockAssumption DEF CurrentQty, Sellable
<1> QED
  BY <1>2, <1>3, <1>4, <1>5

---------------------------------------------------------------------------
\* The session and the sells are left alone, or a session whose order has not
\* filled is given up and what it holds is unwound.
GivesUp(l) ==
  /\ session'.fill = session.fill /\ session'.locked = session.locked
  /\ \/ session'.status = session.status /\ unwind' = unwind
     \/ /\ task[l].sess /\ row[l].filled = 0
        /\ session'.status \in Closed \cup {"unwinding"}
        /\ \A m \in Legs : \A k \in Slots :
             \/ unwind'[m][k] = unwind[m][k]
             \/ unwind'[m][k].qty <= Sellable(m, unwind'[m][k].gross)

\* The rows a task leaves when it ends without a fill.
LeavesRows(l) ==
  \A m \in Legs :
    /\ row'[m].sess = row[m].sess /\ row'[m].filled = row[m].filled
    /\ m # l => /\ row'[m].active = row[m].active
                /\ row'[m].status # row[m].status =>
                     /\ row[m].sess /\ row[m].filled = 0
                     /\ row'[m].status = CanceledStatus(row[m].active)

LEMMA EndsSparing ==
  ASSUME NEW l \in Legs, IInv, TypeOK', Sparing, task[l].pc \in {"read", "go"}, EndTask(l),
         GivesUp(l), LeavesRows(l), BookStep, UNCHANGED <<creator, pos>>
  PROVE  Sparing'
<1> USE PairLockAssumption DEF Legs
<1>0. /\ task' = [task EXCEPT ![l] = NoTask] /\ task \in Tasks /\ TypeOK /\ Matched
      /\ \A m \in Legs : /\ ex'[m].qty = ex[m].qty /\ ex'[m].fee = ex[m].fee
                         /\ ex[m].st = "filled" => ex'[m].st = "filled"
  BY Types DEF EndTask, IInv, BookStep
<1>1. /\ CommonQty' = CommonQty
      /\ \A m \in Legs : /\ NetFill(m)' = NetFill(m)
                         /\ \A g \in BOOLEAN : Sellable(m, g)' = Sellable(m, g)
  BY <1>0 DEF CommonQty, NetFill, Sellable, GivesUp
<1>2. /\ task'[l].pc = "idle" /\ ~task'[l].sess
      /\ \A m \in Legs \ {l} : task'[m] = task[m]
      /\ Locking' => Locking
  BY <1>0 DEF Locking, NoTask, Tasks
<1>4. NotLinked'
  BY <1>2 DEF Sparing, NotLinked, GivesUp, LeavesRows
<1>5. Untouched'
  BY <1>2 DEF Sparing, Untouched, NotLinked, Fresh, LeavesRows, CanceledStatus, Processable
<1>6. Over'
  <2> SUFFICES ASSUME NEW m \in Legs, row[m].filled > 0,
                      session'.status \in {"none", "working"}
               PROVE  \/ task'[m].pc \in Filling
                      \/ /\ task'[m].pc = "idle"
                         /\ row'[m].status \in {"completed", "canceled", "error"}
    BY DEF Over, LeavesRows
  <2>1. session'.status = session.status
    BY DEF GivesUp, Closed
  <2>2. m # l
    BY <2>1 DEF Sparing, Over, Filling
  <2>3. row'[m].status = row[m].status
    BY <1>0, <2>2, Quantities DEF LeavesRows
  <2> QED
    BY <1>2, <2>1, <2>2, <2>3 DEF Sparing, Over
<1>7. Counted'
  BY <1>0, <1>1 DEF Sparing, Counted, LeavesRows
<1>8. LockKnown'
  BY <1>1, <1>2 DEF Sparing, LockKnown, GivesUp
<1>9. UnwindsAfter' /\ UnwindSparesLock'
  <2>1. CASE session'.status = session.status /\ unwind' = unwind
    <3>1. UnwindsAfter'
      BY <1>2, <2>1 DEF Sparing, UnwindsAfter, NoUnwind, GivesUp
    <3>2. UnwindSparesLock'
      BY <1>0, <1>1, <2>1, Quantities DEF Sparing, UnwindSparesLock, GivesUp
    <3> QED
      BY <3>1, <3>2
  <2>2. CASE /\ task[l].sess /\ row[l].filled = 0
             /\ session'.status \in Closed \cup {"unwinding"}
             /\ \A m \in Legs : \A k \in Slots :
                  \/ unwind'[m][k] = unwind[m][k]
                  \/ unwind'[m][k].qty <= Sellable(m, unwind'[m][k].gross)
    <3>1. session.locked = 0 /\ ~Locking
      BY <2>2, NoCommon DEF Locking
    <3>2. UnwindsAfter'
      BY <1>2, <2>2, <3>1 DEF UnwindsAfter, Closed
    <3>3. UnwindSparesLock'
      <4> SUFFICES ASSUME NEW m \in Legs, NEW k \in Slots, unwind'[m][k].qty > 0
                   PROVE  unwind'[m][k].qty <= Sellable(m, unwind'[m][k].gross)
        <5>1. \A m \in Legs : \A k \in Slots :
                unwind'[m][k].qty \in 0..MaxQty /\ unwind'[m][k].gross \in BOOLEAN
          BY TypesNext DEF Sells
        <5>2. session'.locked = 0
          BY <3>1 DEF GivesUp
        <5> QED
          BY <1>1, <5>1, <5>2 DEF UnwindSparesLock
      <4>1. CASE unwind'[m][k] = unwind[m][k]
        BY <1>0, <3>1, <4>1, Quantities DEF Sparing, UnwindSparesLock
      <4> QED
        BY <2>2, <4>1
    <3> QED
      BY <3>2, <3>3
  <2> QED
    BY <2>1, <2>2 DEF GivesUp
<1> QED
  BY <1>4, <1>5, <1>6, <1>7, <1>8, <1>9 DEF Sparing

\* The unwind of an abort, of a session whose order has not filled.
LEMMA UnwindGivesUp ==
  ASSUME NEW l \in Legs, IInv, Counted, NEW r \in Rows, UnwindLead(r), task[l].sess,
         row[l].filled = 0
  PROVE  GivesUp(l) /\ OnlyCanceled(r, row')
<1>1. /\ OnlyCanceled(r, row') /\ unwind' \in Sells
      /\ session'.status = "unwinding" /\ session'.fill = session.fill
      /\ session'.locked = session.locked /\ UnwindsRest(0)
  BY UnwindLeadFrame DEF IInv
<1>2. \A m \in Legs : Less(CurrentQty(m), 0) <= Sellable(m, pos[m].from = "fill")
  <2> SUFFICES ASSUME NEW m \in Legs
               PROVE  Less(CurrentQty(m), 0) <= Sellable(m, pos[m].from = "fill")
    OBVIOUS
  <2>1. CurrentQty(m) \in Nat
    BY CurrentQtyTyped, PairLockAssumption DEF IInv
  <2>2. Less(CurrentQty(m), 0) = CurrentQty(m)
    BY <2>1 DEF Less
  <2> QED
    BY <2>2, CurrentQtySellable
<1> QED
  BY <1>1, <1>2 DEF GivesUp, UnwindsRest

LEMMA AbortGivesUp ==
  ASSUME NEW l \in Legs, IInv, Sparing, NEW r \in Rows, AbortForTerminal(l, r),
         task[l].pc \in {"read", "go"}
  PROVE  GivesUp(l) /\ OnlyCanceled(r, row')
<1> DEFINE aborts == task[l].sess /\ session.status = "working" /\ session.lead # NoLeg
<1>0. TypeOK /\ Matched /\ session \in Sessions
  BY Types DEF IInv
<1>1. aborts => row[l].filled = 0
  BY <1>0, Quantities, PairLockAssumption DEF Sparing, Over, Filling
<1>2. CASE aborts /\ conf.protective
  BY <1>1, <1>2, UnwindGivesUp DEF AbortForTerminal, Sparing
<1>3. CASE aborts /\ ~conf.protective
  <2>1. session' = [session EXCEPT !.status = "expired"] /\ row' = r /\ unwind' = unwind
    BY <1>3 DEF AbortForTerminal
  <2> QED
    BY <1>0, <1>1, <1>3, <2>1 DEF GivesUp, OnlyCanceled, Closed, Sessions
<1>4. CASE ~aborts
  BY <1>4 DEF AbortForTerminal, GivesUp, OnlyCanceled
<1> QED
  BY <1>2, <1>3, <1>4

\* Every way a task ends without a fill.
LEMMA TaskEndSpares ==
  ASSUME NEW l \in Legs, IInv, TypeOK', Sparing,
         \/ Expire(l) \/ RuntimeClosed(l) \/ RuntimeHold(l) \/ RuntimeAuto(l) \/ RuntimeGrace(l)
         \/ CancelRequested(l) \/ NotTriggered(l) \/ GuardBlocks(l) \/ PassFails(l)
         \/ StillOpen(l) \/ TakeBack(l)
  PROVE  Sparing'
<1> USE PairLockAssumption
<1>0. TypeOK /\ Matched /\ Counted /\ row \in Rows /\ session \in Sessions /\ ex \in Books
  BY Types DEF IInv, Sparing
<1>1. task[l].pc \in {"read", "go"} /\ EndTask(l) /\ UNCHANGED <<creator, pos>>
  BY DEF Expire, RuntimeClosed, RuntimeHold, RuntimeAuto, RuntimeGrace, CancelRequested,
     NotTriggered, GuardBlocks, PassFails, StillOpen, TakeBack, Checked, InSession, Idle, Working
<1>2. BookStep
  <2>1. CASE CancelRequested(l)
    BY <1>0, <2>1 DEF CancelRequested, BookStep, Books
  <2>2. CASE TakeBack(l)
    BY <1>0, <2>2 DEF TakeBack, BookStep, Books
  <2>3. CASE ex' = ex
    BY <2>3 DEF BookStep
  <2> QED
    BY <2>1, <2>2, <2>3 DEF Expire, RuntimeClosed, RuntimeHold, RuntimeAuto, RuntimeGrace,
       NotTriggered, GuardBlocks, PassFails, StillOpen
<1>3. session.status = "working" => row[l].filled = 0
  BY <1>0, <1>1, Quantities DEF Sparing, Over, Filling
<1>4. GivesUp(l) /\ LeavesRows(l)
  <2>1. ASSUME NEW r \in Rows, \A m \in Legs : /\ r[m].sess = row[m].sess /\ r[m].filled = row[m].filled
                                               /\ m # l => r[m] = row[m],
               OnlyCanceled(r, row')
        PROVE  LeavesRows(l)
    BY <2>1 DEF LeavesRows, OnlyCanceled
  <2>2. ASSUME NEW st \in {"expired", "canceled"}, NEW r,
               \/ r = [row EXCEPT ![l].status = st]
               \/ r = [row EXCEPT ![l].status = st, ![l].active = FALSE],
               AbortForTerminal(l, r)
        PROVE  GivesUp(l) /\ LeavesRows(l)
    <3>1. r \in Rows
      BY <1>0, <2>2, StatusesKnown, RowStatusTyped, RowActiveTyped
    <3>2. \A m \in Legs : /\ r[m].sess = row[m].sess /\ r[m].filled = row[m].filled
                          /\ m # l => r[m] = row[m]
      BY <1>0, <2>2 DEF Rows
    <3>3. GivesUp(l) /\ OnlyCanceled(r, row')
      BY <1>1, <2>2, <3>1, AbortGivesUp
    <3> QED
      BY <2>1, <3>1, <3>2, <3>3
  <2>3. ASSUME UnwindLead(row), task[l].sess, row[l].filled = 0 PROVE GivesUp(l) /\ LeavesRows(l)
    BY <1>0, <2>1, <2>3, UnwindGivesUp
  <2>4. ASSUME UNCHANGED <<session, unwind>> PROVE GivesUp(l)
    BY <2>4 DEF GivesUp
  <2>5. CASE Expire(l)
    BY <2>2, <2>5 DEF Expire
  <2>6. CASE RuntimeClosed(l) \/ PassFails(l)
    BY <1>0, <2>4, <2>6 DEF RuntimeClosed, PassFails, LeavesRows, Rows
  <2>7. CASE RuntimeHold(l)
    <3>1. GivesUp(l)
      BY <1>0, <1>3, <2>7 DEF RuntimeHold, InSession, WaitsForLead, GivesUp, Sessions, Closed
    <3>2. LeavesRows(l)
      BY <1>0, <2>7 DEF RuntimeHold, LeavesRows, Rows
    <3> QED
      BY <3>1, <3>2
  <2>8. CASE RuntimeAuto(l)
    <3>0. task[l].sess /\ l = "counter"
      BY <2>8 DEF RuntimeAuto, InSession, AutoCounter
    <3>a. session.rest = "spent" => row[l].filled = 0
      BY <1>0, <3>0, Quantities DEF IInv, Resized, Counted
    <3>1. CASE UnwindLead(row) /\ session.rest = "spent"
      BY <2>3, <3>0, <3>a, <3>1
    <3>2. CASE /\ session' = [session EXCEPT !.status = "expired"] /\ session.rest = "spent"
               /\ row' = [row EXCEPT ![l].status = "canceled"]
               /\ UNCHANGED unwind
      BY <1>0, <3>0, <3>a, <3>2 DEF GivesUp, LeavesRows, Sessions, Rows, Closed
    <3>3. CASE /\ row' = [row EXCEPT ![l].status = "pending", ![l].size = RebasedSize]
               /\ UNCHANGED <<session, unwind>>
      BY <1>0, <2>4, <3>3 DEF LeavesRows, Rows
    <3> QED
      BY <2>8, <3>1, <3>2, <3>3 DEF RuntimeAuto
  <2>9. CASE RuntimeGrace(l)
    BY <1>3, <2>3, <2>9 DEF RuntimeGrace, InSession, GraceOver
  <2>10. CASE CancelRequested(l)
    BY <1>0, <2>4, <2>10 DEF CancelRequested, LeavesRows, Rows
  <2>11. CASE NotTriggered(l) \/ StillOpen(l)
    BY <1>0, <2>4, <2>11 DEF NotTriggered, StillOpen, LeavesRows, Rows
  <2>12. CASE GuardBlocks(l)
    <3>1. ASSUME NEW st, row' = [row EXCEPT ![l].status = st], UNCHANGED <<session, unwind>>
          PROVE  GivesUp(l) /\ LeavesRows(l)
      BY <1>0, <2>4, <3>1 DEF LeavesRows, Rows
    <3>2. CASE AbortForTerminal(l, [row EXCEPT ![l].status = "canceled"])
      BY <2>2, <3>2
    <3> QED
      BY <2>12, <3>1, <3>2 DEF GuardBlocks
  <2>13. CASE TakeBack(l)
    <3>1. CASE MustWait(l)
      BY <1>0, <2>4, <2>13, <3>1 DEF TakeBack, LeavesRows, Rows
    <3>2. CASE ~MustWait(l)
      BY <2>2, <2>13, <3>2 DEF TakeBack
    <3> QED
      BY <3>1, <3>2
  <2> QED
    BY <2>5, <2>6, <2>7, <2>8, <2>9, <2>10, <2>11, <2>12, <2>13
<1> QED
  BY <1>1, <1>2, <1>4, EndsSparing

---------------------------------------------------------------------------
\* An order keeps its quantities, or had none.
BooksGrow ==
  \A l \in Legs :
    \/ ex'[l] = ex[l]
    \/ ex[l].qty = 0 /\ ex[l].fee = 0 /\ ex[l].st # "filled"

SellsKept ==
  \A l \in Legs : \A k \in Slots :
    unwind'[l][k].qty = unwind[l][k].qty /\ unwind'[l][k].gross = unwind[l][k].gross

\* Steps that leave the session's quantities and the sells alone, and take
\* nothing off a fill.
LEMMA QuantitiesKept ==
  ASSUME Sparing, TypeOK, TypeOK', Matched, Matched',
         session'.fill = session.fill, session'.locked = session.locked,
         BooksGrow, SellsKept
  PROVE  CommonQty' = CommonQty /\ UnwindSparesLock' /\ (NoUnwind <=> NoUnwind')
<1> USE PairLockAssumption
<1>1. CommonQty' = CommonQty
  BY DEF CommonQty
<1>2. UnwindSparesLock'
  <2> SUFFICES ASSUME NEW l \in Legs, NEW k \in Slots, unwind[l][k].qty > 0,
                      NEW g \in BOOLEAN, g = unwind[l][k].gross
               PROVE  unwind[l][k].qty + session.locked <= Sellable(l, g)'
    BY Quantities DEF UnwindSparesLock, Sellable, NetFill, SellsKept
  <2>1. /\ unwind[l][k].qty + session.locked <= Sellable(l, g)
        /\ unwind[l][k].qty \in 0..MaxQty /\ session.locked \in 0..MaxQty
    BY Quantities DEF Sparing, UnwindSparesLock
  <2>2. ex'[l] = ex[l]
    <3>1. CASE ex[l].qty = 0 /\ ex[l].fee = 0
      BY <2>1, <3>1 DEF Sellable, NetFill
    <3> QED
      BY <3>1 DEF BooksGrow
  <2> QED
    BY <2>1, <2>2 DEF Sellable, NetFill
<1>3. NoUnwind <=> NoUnwind'
  BY DEF NoUnwind, SellsKept
<1> QED
  BY <1>1, <1>2, <1>3

\* The flow step, the clock, the user, the exchange and the wallet.
LEMMA OutsideSpares ==
  ASSUME IInv, IInv', Sparing,
         \/ Create \/ GraceElapses \/ \E l \in Legs : Matches(l) \/ Rebase(l) \/ UserCancels(l)
  PROVE  Sparing'
<1> USE PairLockAssumption DEF Legs
<1>0. /\ row \in Rows /\ session \in Sessions /\ task \in Tasks /\ unwind \in Sells
      /\ pos \in Positions /\ ex \in Books /\ TypeOK /\ TypeOK' /\ Matched /\ Matched'
  BY Types DEF IInv
<1>1. /\ UNCHANGED <<task, unwind>> /\ session'.fill = session.fill
      /\ session'.locked = session.locked
      /\ \A l \in Legs : row'[l].filled = row[l].filled /\ row'[l].active = row[l].active
  <2>1. UNCHANGED <<task, unwind>>
    BY DEF Create, CreatePrimary, CreateCounter, CreateCounterFails, CreateSession, AttachOrder,
       HoldCounter, GraceElapses, Matches, Rebase, UserCancels
  <2>2. \/ session' = session
        \/ session' = [session EXCEPT !.status = "working"]
        \/ session' = [session EXCEPT !.elapsed = TRUE]
    BY DEF Create, CreatePrimary, CreateCounter, CreateCounterFails, CreateSession, AttachOrder,
       HoldCounter, GraceElapses, Matches, Rebase, UserCancels
  <2>3. session'.fill = session.fill /\ session'.locked = session.locked
    BY <1>0, <2>2 DEF Sessions
  <2>4. CASE Create
    BY <1>0, <2>1, <2>3, <2>4 DEF Create, CreatePrimary, CreateCounter, CreateCounterFails,
       CreateSession, AttachOrder, HoldCounter, Rows
  <2>5. CASE \E l \in Legs : UserCancels(l)
    BY <1>0, <2>1, <2>3, <2>5 DEF UserCancels, Rows
  <2>6. CASE row' = row
    BY <2>1, <2>3, <2>6
  <2> QED
    BY <2>4, <2>5, <2>6 DEF GraceElapses, Matches, Rebase
<1>2. /\ BooksGrow
      /\ \A l \in Legs : ex'[l] # ex[l] => ex'[l].st = "filled"
  <2>1. CASE \E l \in Legs : Matches(l)
    <3>1. PICK l \in Legs : Matches(l)
      BY <2>1
    <3>2. ex[l].st = "live" /\ ex[l].qty = 0 /\ ex[l].fee = 0
      BY <1>0, <3>1 DEF Matches, Matched
    <3>3. \E q \in OrderQty(l) : \E fee \in 0..(q - 1) :
            ex' = [ex EXCEPT ![l].st = "filled", ![l].qty = q, ![l].fee = fee]
      BY <3>1 DEF Matches
    <3>4. ex'[l].st = "filled" /\ \A m \in Legs \ {l} : ex'[m] = ex[m]
      BY <1>0, <3>3 DEF Books
    <3> QED
      BY <3>2, <3>4 DEF BooksGrow
  <2>2. CASE ex' = ex
    BY <2>2 DEF BooksGrow
  <2> QED
    BY <2>1, <2>2 DEF Create, CreatePrimary, CreateCounter, CreateCounterFails, CreateSession,
       AttachOrder, HoldCounter, GraceElapses, Rebase, UserCancels
<1>3. CommonQty' = CommonQty /\ UnwindSparesLock' /\ (NoUnwind <=> NoUnwind')
  BY <1>0, <1>1, <1>2, QuantitiesKept DEF SellsKept
<1>4. LockKnown'
  BY <1>1, <1>3 DEF Sparing, LockKnown
<1>5. Counted'
  <2>1. \A l \in Legs : row'[l].filled > 0 => ex'[l].st = "filled" /\ row'[l].filled = ex'[l].qty
    BY <1>1, <1>2 DEF Sparing, Counted, BooksGrow
  <2>2. \A l \in Legs : pos[l].from = "fill" => pos[l].qty <= ex'[l].qty
    <3> SUFFICES ASSUME NEW l \in Legs, pos[l].from = "fill" PROVE pos[l].qty <= ex'[l].qty
      OBVIOUS
    <3>1. pos[l].qty <= ex[l].qty /\ pos[l].qty \in 0..MaxQty /\ ex'[l].qty \in 0..MaxQty
      BY <1>0, Quantities, TypesNext DEF Sparing, Counted, Books
    <3> QED
      BY <1>2, <3>1 DEF BooksGrow
  <2>3. \A l \in Legs : pos[l].from = "visible" => pos[l].qty <= NetFill(l)'
    <3> SUFFICES ASSUME NEW l \in Legs, pos[l].from = "visible" PROVE pos[l].qty <= NetFill(l)'
      OBVIOUS
    <3>1. pos[l].qty <= NetFill(l) /\ pos[l].qty \in 0..MaxQty
      BY <1>0, Quantities DEF Sparing, Counted
    <3>2. ex'[l].st = "filled" => ex'[l].fee <= ex'[l].qty
                                  /\ ex'[l].fee \in 0..MaxQty /\ ex'[l].qty \in 0..MaxQty
      BY <1>0, TypesNext DEF Matched, Books
    <3> QED
      BY <1>2, <3>1, <3>2 DEF NetFill, BooksGrow
  <2>4. CASE \E l \in Legs : Rebase(l)
    <3>1. PICK l \in Legs : Rebase(l)
      BY <2>4
    <3>2. PICK q \in {held[l], NetFill(l)} \ {0} :
            pos' = [pos EXCEPT ![l] = [qty |-> q, from |-> "visible", sold |-> FALSE]]
      BY <3>1 DEF Rebase
    <3>3. q <= NetFill(l)
      BY <1>0, <3>2, Quantities
    <3>4. ex' = ex /\ \A m \in Legs : NetFill(m)' = NetFill(m)
      BY <3>1 DEF Rebase, NetFill
    <3> QED
      BY <1>0, <2>1, <3>2, <3>3, <3>4 DEF Sparing, Counted
  <2>5. CASE pos' = pos
    BY <2>1, <2>2, <2>3, <2>5 DEF Counted
  <2> QED
    BY <2>4, <2>5 DEF Create, CreatePrimary, CreateCounter, CreateCounterFails, CreateSession,
       AttachOrder, HoldCounter, GraceElapses, Matches, UserCancels
<1>6. NotLinked' /\ Untouched' /\ Over' /\ UnwindsAfter'
  <2>1. CASE CreatePrimary
    BY <1>0, <1>1, <1>3, <2>1 DEF CreatePrimary, Sparing, NotLinked, Untouched, Fresh, Over,
       UnwindsAfter, Rows, Locking
  <2>2. CASE CreateCounter
    BY <1>0, <1>1, <1>3, <2>2 DEF CreateCounter, Sparing, NotLinked, Untouched, Fresh, Over,
       UnwindsAfter, Rows, Locking, Processable
  <2>3. CASE CreateCounterFails
    BY <1>0, <1>1, <1>3, <2>3 DEF CreateCounterFails, Sparing, NotLinked, Untouched, Fresh,
       Over, UnwindsAfter, Rows, Locking
  <2>4. CASE CreateSession
    BY <1>0, <1>1, <1>3, <2>4 DEF CreateSession, Sparing, NotLinked, Untouched, Fresh, Over,
       UnwindsAfter, Sessions, Locking
  <2>5. CASE \E l \in Legs : AttachOrder(l)
    BY <1>0, <1>1, <1>3, <2>5 DEF AttachOrder, AttachPc, Sparing, NotLinked, Untouched, Fresh,
       Over, UnwindsAfter, Rows, Locking
  <2>6. CASE HoldCounter
    BY <1>0, <1>1, <1>3, <2>6 DEF HoldCounter, Sparing, NotLinked, Untouched, Fresh, Over,
       UnwindsAfter, Rows, Locking
  <2>7. CASE GraceElapses
    BY <1>0, <1>1, <1>3, <2>7 DEF GraceElapses, Sparing, NotLinked, Untouched, Fresh, Over,
       UnwindsAfter, Sessions, Locking
  <2>8. CASE \E l \in Legs : Matches(l) \/ Rebase(l)
    BY <1>0, <1>1, <1>3, <2>8 DEF Matches, Rebase, Sparing, NotLinked, Untouched, Fresh, Over,
       UnwindsAfter, Locking
  <2>9. CASE \E l \in Legs : UserCancels(l)
    BY <1>0, <1>1, <1>3, <2>9 DEF UserCancels, Sparing, NotLinked, Untouched, Fresh, Over,
       UnwindsAfter, Rows, Locking, Processable
  <2> QED
    BY <2>1, <2>2, <2>3, <2>4, <2>5, <2>6, <2>7, <2>8, <2>9 DEF Create
<1> QED
  BY <1>3, <1>4, <1>5, <1>6 DEF Sparing

\* The steps of a task that go on, and the end of one that filled.
LEMMA TaskGoesOnSpares ==
  ASSUME NEW l \in Legs, IInv, IInv', Sparing,
         \/ ReadRow(l) \/ RuntimePass(l) \/ Submit(l) \/ ReadSession(l) \/ FinishFill(l)
         \/ FillFails(l)
  PROVE  Sparing'
<1> USE PairLockAssumption DEF Legs
<1>0. /\ row \in Rows /\ session \in Sessions /\ task \in Tasks /\ unwind \in Sells
      /\ ex \in Books /\ TypeOK /\ TypeOK' /\ Matched /\ Matched'
  BY Types DEF IInv
<1>1. UNCHANGED <<creator, pos, unwind, session>>
  BY DEF ReadRow, RuntimePass, Submit, ReadSession, FinishFill, FillFails
<1>2. \A m \in Legs : /\ row'[m].filled = row[m].filled /\ row'[m].sess = row[m].sess
                      /\ m # l => row'[m] = row[m] /\ task'[m] = task[m]
  BY <1>0 DEF ReadRow, RuntimePass, Submit, ReadSession, FinishFill, FillFails, Rows, Tasks, Goto,
     EndTask
<1>3. BooksGrow /\ \A m \in Legs : ex'[m].qty = ex[m].qty /\ ex'[m].fee = ex[m].fee
  <2>1. CASE Submit(l)
    <3>1. ex[l].st # "filled" /\ ex[l].qty = 0 /\ ex[l].fee = 0
      BY <1>0, <2>1 DEF Submit, Matched
    <3>2. /\ ex'[l].qty = 0 /\ ex'[l].fee = 0
          /\ \A m \in Legs \ {l} : ex'[m] = ex[m]
      BY <1>0, <2>1, <3>1 DEF Submit, Books
    <3> QED
      BY <3>1, <3>2 DEF BooksGrow
  <2>2. CASE ex' = ex
    BY <2>2 DEF BooksGrow
  <2> QED
    BY <2>1, <2>2 DEF ReadRow, RuntimePass, ReadSession, FinishFill, FillFails
<1>4. CommonQty' = CommonQty /\ UnwindSparesLock' /\ (NoUnwind <=> NoUnwind')
  BY <1>0, <1>1, <1>3, QuantitiesKept DEF SellsKept
<1>5. Counted'
  BY <1>0, <1>1, <1>2, <1>3, Quantities DEF Sparing, Counted, NetFill, BooksGrow
<1>6. LockKnown' /\ NotLinked' /\ Untouched' /\ Over' /\ UnwindsAfter'
  <2>1. CASE ReadRow(l)
    BY <1>0, <1>1, <1>2, <1>4, <2>1 DEF ReadRow, Sparing, LockKnown, NotLinked, Untouched, Fresh, Over,
       UnwindsAfter, Tasks, Locking, Processable, Filling
  <2>2. CASE RuntimePass(l)
    BY <1>0, <1>1, <1>2, <1>4, <2>2 DEF RuntimePass, Checked, Goto, Sparing, LockKnown, NotLinked,
       Untouched, Fresh, Over, UnwindsAfter, Tasks, Locking, Filling
  <2>3. CASE Submit(l)
    BY <1>0, <1>1, <1>2, <1>4, <2>3 DEF Submit, Idle, Sparing, LockKnown, NotLinked, Untouched, Fresh,
       Over, UnwindsAfter, Tasks, Locking, Filling
  <2>4. CASE ReadSession(l)
    BY <1>0, <1>1, <1>2, <1>4, <2>4 DEF ReadSession, Goto, Sparing, LockKnown, NotLinked, Untouched,
       Fresh, Over, UnwindsAfter, Tasks, Locking, Filling
  <2>5. CASE FinishFill(l) \/ FillFails(l)
    BY <1>0, <1>1, <1>2, <1>4, <2>5 DEF FinishFill, FillFails, EndTask, NoTask, Sparing, LockKnown,
       NotLinked, Untouched, Fresh, Over, UnwindsAfter, Rows, Tasks, Locking, Filling
  <2> QED
    BY <2>1, <2>2, <2>3, <2>4, <2>5
<1> QED
  BY <1>4, <1>5, <1>6 DEF Sparing

\* The row's and the position's part of a fill.
LEMMA RecordRowSpares ==
  ASSUME NEW l \in Legs, IInv, IInv', Sparing, RecordRow(l) \/ RecordPosition(l)
  PROVE  Sparing'
<1> USE PairLockAssumption DEF Legs
<1>0. /\ row \in Rows /\ task \in Tasks /\ pos \in Positions /\ unwind \in Sells
      /\ TypeOK /\ TypeOK' /\ Matched /\ Matched' /\ UNCHANGED <<creator, ex, unwind, session>>
      /\ task[l].pc \in {"go", "position"} /\ ex[l].st = "filled"
  BY Types DEF IInv, RecordRow, RecordPosition, Working, Matched, Filling
<1>1. CommonQty' = CommonQty /\ UnwindSparesLock' /\ (NoUnwind <=> NoUnwind')
  BY <1>0, QuantitiesKept DEF BooksGrow, SellsKept
<1>2. \A m \in Legs : /\ row'[m].sess = row[m].sess /\ row'[m].status = row[m].status
                      /\ row'[m].active = row[m].active
                      /\ m # l => /\ row'[m].filled = row[m].filled /\ task'[m] = task[m]
                                  /\ pos'[m] = pos[m]
                      /\ task'[m].sess = task[m].sess
  BY <1>0 DEF RecordRow, RecordPosition, Goto, Rows, Tasks, Positions
<1>3. /\ task'[l].pc \in {"position", "session", "finish"}
      /\ task'[l].pc = "session" => task[l].sess
  BY <1>0 DEF RecordRow, RecordPosition, Goto, Tasks
<1>4. row'[l].filled = row[l].filled \/ row'[l].filled = ex[l].qty
  BY <1>0 DEF RecordRow, RecordPosition, Rows
<1>5. \/ pos'[l] = pos[l]
      \/ pos'[l].from = "fill" /\ pos'[l].qty = row[l].filled
  BY <1>0 DEF RecordRow, RecordPosition, Positions
<1>6. Counted'
  <2>1. \A m \in Legs : NetFill(m)' = NetFill(m)
    BY <1>0 DEF NetFill
  <2>2. row[l].filled <= ex[l].qty
    BY <1>0, Quantities DEF Sparing, Counted
  <2> QED
    BY <1>0, <1>2, <1>4, <1>5, <2>1, <2>2 DEF Sparing, Counted
<1>7. NotLinked' /\ Untouched' /\ Over'
  BY <1>0, <1>2, <1>3 DEF Sparing, NotLinked, Untouched, Fresh, Over, Filling
<1>8. LockKnown' /\ UnwindsAfter'
  BY <1>0, <1>1, <1>2, <1>3 DEF Sparing, LockKnown, UnwindsAfter, Locking
<1> QED
  BY <1>1, <1>6, <1>7, <1>8 DEF Sparing

\* The session's part: it knew this fill already, or nothing was locked yet.
LEMMA RecordSessionSpares ==
  ASSUME NEW l \in Legs, IInv, IInv', Sparing, RecordSession(l)
  PROVE  Sparing'
<1> USE PairLockAssumption DEF Legs
<1>0. /\ task \in Tasks /\ session \in Sessions /\ TypeOK /\ Matched
      /\ task[l].pc = "session" /\ task' = [task EXCEPT ![l].pc = "recorded"]
      /\ UNCHANGED <<creator, row, pos, ex, unwind>>
  BY Types DEF IInv, RecordSession, Goto
<1>1. /\ session'.status = session.status /\ session'.locked = session.locked
      /\ session'.fill = [session.fill EXCEPT ![l] = NetFill(l)]
  BY <1>0 DEF RecordSession, Sessions
<1>2. /\ task'[l].pc = "recorded" /\ \A m \in Legs : task'[m].sess = task[m].sess
      /\ \A m \in Legs : m # l => task'[m].pc = task[m].pc
  BY <1>0 DEF Tasks
<1>3. \/ CommonQty' = CommonQty
      \/ session.locked = 0 /\ \A m \in Legs : task[m].pc \notin {"lock", "residue"}
  <2>1. session.fill \in [Legs -> 0..MaxQty]
    BY <1>0, Quantities
  <2>2. CASE session.fill[l] > 0
    <3>1. session'.fill = session.fill
      BY <1>0, <1>1, <2>1, <2>2 DEF Matched
    <3> QED
      BY <3>1 DEF CommonQty
  <2>3. CASE session.fill[l] = 0
    BY <2>3, NoCommon
  <2> QED
    BY <2>1, <2>2, <2>3
<1>4. NotLinked' /\ Untouched' /\ Over'
  BY <1>0, <1>1, <1>2 DEF Sparing, NotLinked, Untouched, Fresh, Over, Filling
<1>5. Counted'
  BY <1>0 DEF Sparing, Counted, NetFill
<1>6. LockKnown'
  <2>1. /\ session'.locked > 0 => session'.locked = CommonQty'
        /\ \A m \in Legs : /\ task'[m].pc \in {"lock", "residue"} => CommonQty' > 0
                           /\ task'[m].pc = "residue" => session'.locked > 0
    BY <1>0, <1>1, <1>2, <1>3, Quantities DEF Sparing, LockKnown
  <2>2. \A m \in Legs : task'[m].pc \in {"session", "recorded", "lock", "residue"} => task'[m].sess
    BY <1>0, <1>2 DEF Sparing, LockKnown
  <2> QED
    BY <2>1, <2>2 DEF LockKnown
<1>7. UnwindsAfter'
  BY <1>0, <1>1, <1>2 DEF Sparing, UnwindsAfter, NoUnwind, Locking
<1>8. UnwindSparesLock'
  BY <1>0, <1>1 DEF Sparing, UnwindSparesLock, Sellable, NetFill
<1> QED
  BY <1>4, <1>5, <1>6, <1>7, <1>8 DEF Sparing

\* The lock: what was unwound before was unwound beside the same lock.
LEMMA LockPairSpares ==
  ASSUME NEW l \in Legs, IInv, IInv', Sparing, LockPair(l)
  PROVE  Sparing'
<1> USE PairLockAssumption DEF Legs
<1>0. /\ task \in Tasks /\ session \in Sessions /\ TypeOK /\ Matched
      /\ task[l].pc = "lock"
      /\ task' = [task EXCEPT ![l].pc = "residue", ![l].listed = Listed(row)]
      /\ UNCHANGED <<creator, row, pos, ex, unwind>>
  BY Types DEF IInv, LockPair
<1>1. /\ session'.status = "locked" /\ session'.locked = CommonQty
      /\ session'.fill = session.fill /\ CommonQty' = CommonQty
  BY <1>0 DEF LockPair, Sessions, CommonQty
<1>2. /\ task'[l].pc = "residue" /\ \A m \in Legs : task'[m].sess = task[m].sess
      /\ \A m \in Legs : m # l => task'[m].pc = task[m].pc
  BY <1>0 DEF Tasks
<1>3. CommonQty > 0 /\ task[l].sess /\ Locking
  BY <1>0 DEF Sparing, LockKnown, Locking
<1>4. NotLinked' /\ Untouched' /\ Over'
  BY <1>0, <1>1, <1>2, <1>3 DEF Sparing, NotLinked, Untouched, Fresh, Over, Filling
<1>5. Counted'
  BY <1>0 DEF Sparing, Counted, NetFill
<1>6. LockKnown'
  BY <1>0, <1>1, <1>2, <1>3 DEF Sparing, LockKnown
<1>7. UnwindsAfter'
  BY <1>0, <1>1, <1>3, Quantities DEF UnwindsAfter
<1>8. UnwindSparesLock'
  <2> SUFFICES ASSUME NEW m \in Legs, NEW k \in Slots, unwind[m][k].qty > 0
               PROVE  unwind[m][k].qty + CommonQty <= Sellable(m, unwind[m][k].gross)
    BY <1>0, <1>1 DEF UnwindSparesLock, Sellable, NetFill
  <2>1. session.locked = CommonQty
    BY <1>0, <1>3, Quantities DEF Sparing, UnwindsAfter, NoUnwind, LockKnown
  <2> QED
    BY <2>1 DEF Sparing, UnwindSparesLock
<1> QED
  BY <1>4, <1>5, <1>6, <1>7, <1>8 DEF Sparing

\* The residue: what a leg is taken to hold less the locked quantity.
LEMMA UnwindResidueSpares ==
  ASSUME NEW l \in Legs, IInv, IInv', Sparing, UnwindResidue(l)
  PROVE  Sparing'
<1> USE PairLockAssumption DEF Legs
<1>0. /\ task \in Tasks /\ TypeOK /\ Matched /\ Counted
      /\ task[l].pc = "residue" /\ task' = [task EXCEPT ![l].pc = "finish"]
      /\ UNCHANGED <<creator, pos, ex>>
  BY Types DEF IInv, UnwindResidue, Goto, Sparing
<1>1. /\ row' = row /\ unwind' \in Sells
      /\ session'.status = "locked" /\ session'.fill = session.fill
      /\ session'.locked = session.locked /\ UnwindsRest(CommonQty) /\ CommonQty \in 0..MaxQty
  BY ResidueFrame
<1>2. /\ task'[l].pc = "finish" /\ \A m \in Legs : task'[m].sess = task[m].sess
      /\ \A m \in Legs : m # l => task'[m].pc = task[m].pc
  BY <1>0 DEF Tasks
<1>3. /\ session.locked > 0 /\ session.locked = CommonQty /\ task[l].sess
      /\ CommonQty' = CommonQty
  BY <1>0, <1>1 DEF Sparing, LockKnown, CommonQty
<1>4. NotLinked' /\ Untouched' /\ Over'
  BY <1>0, <1>1, <1>2, <1>3 DEF Sparing, NotLinked, Untouched, Fresh, Over, Filling
<1>5. Counted'
  BY <1>0, <1>1 DEF Counted, NetFill
<1>6. LockKnown'
  BY <1>0, <1>1, <1>2, <1>3 DEF Sparing, LockKnown
<1>7. UnwindsAfter'
  BY <1>1, <1>3 DEF UnwindsAfter
<1>8. UnwindSparesLock'
  <2> SUFFICES ASSUME NEW m \in Legs, NEW k \in Slots, unwind'[m][k].qty > 0
               PROVE  unwind'[m][k].qty + CommonQty <= Sellable(m, unwind'[m][k].gross)
    BY <1>0, <1>1, <1>3 DEF UnwindSparesLock, Sellable, NetFill
  <2>1. CASE unwind'[m][k] = unwind[m][k]
    BY <1>3, <2>1 DEF Sparing, UnwindSparesLock
  <2>2. CASE /\ unwind'[m][k].qty = Less(CurrentQty(m), CommonQty)
             /\ unwind'[m][k].gross = (pos[m].from = "fill")
    <3>1. CurrentQty(m) \in Nat /\ CommonQty \in Nat
      BY <1>0, <1>1, CurrentQtyTyped
    <3>2. unwind'[m][k].qty + CommonQty = CurrentQty(m)
      BY <2>2, <3>1 DEF Less
    <3> QED
      BY <1>0, <2>2, <3>2, CurrentQtySellable
  <2> QED
    BY <1>1, <2>1, <2>2 DEF UnwindsRest
<1> QED
  BY <1>4, <1>5, <1>6, <1>7, <1>8 DEF Sparing

\* A step of a sell: positions shrink, legs are detached or canceled, and the
\* session may be over.
SellStep ==
  /\ session'.fill = session.fill /\ session'.locked = session.locked
  /\ \/ session'.status = session.status
     \/ session.status # "none" /\ session'.status = "completed"
  /\ \A m \in Legs :
       /\ row'[m].filled = row[m].filled /\ row'[m].active = row[m].active
       /\ row'[m].sess => row[m].sess
       /\ row'[m].status # row[m].status =>
            /\ row[m].sess /\ session'.status = "completed"
            /\ row'[m].status = CanceledStatus(row[m].active)
       /\ pos'[m].from = pos[m].from /\ pos'[m].qty <= pos[m].qty
  /\ SellsKept

LEMMA SellStepSpares ==
  ASSUME IInv, IInv', Sparing, SellStep, UNCHANGED <<creator, task, ex>>
  PROVE  Sparing'
<1>0. TypeOK /\ TypeOK' /\ Matched /\ Matched' /\ pos' \in Positions
  BY TypesNext DEF IInv
<1>1. CommonQty' = CommonQty /\ UnwindSparesLock' /\ (NoUnwind <=> NoUnwind')
  BY <1>0, QuantitiesKept DEF SellStep, BooksGrow
<1>2. NotLinked' /\ LockKnown' /\ UnwindsAfter'
  BY <1>1 DEF Sparing, NotLinked, LockKnown, UnwindsAfter, Locking, SellStep
<1>3. Untouched' /\ Over'
  BY DEF Sparing, NotLinked, Untouched, Fresh, Over, CanceledStatus, Processable, SellStep, Legs
<1>4. Counted'
  <2> SUFFICES ASSUME NEW m \in Legs
               PROVE  /\ row'[m].filled > 0 => ex[m].st = "filled" /\ row'[m].filled = ex[m].qty
                      /\ pos'[m].from = "fill" => pos'[m].qty <= ex[m].qty
                      /\ pos'[m].from = "visible" => pos'[m].qty <= NetFill(m)
    BY DEF Counted, NetFill
  <2>1. pos'[m].qty \in 0..MaxQty
    BY <1>0 DEF Positions
  <2> QED
    BY <1>0, <2>1, Quantities, PairLockAssumption DEF Sparing, Counted, SellStep
<1> QED
  BY <1>1, <1>2, <1>3, <1>4 DEF Sparing

\* A sell that is stopped keeps its quantity.
LEMMA StopUnwindsKeep ==
  ASSUME unwind \in Sells, NEW S, NEW request \in BOOLEAN, unwind' = StopUnwinds(S, request)
  PROVE  SellsKept
<1> SUFFICES ASSUME NEW l \in Legs, NEW k \in Slots
             PROVE  unwind'[l][k].qty = unwind[l][k].qty /\ unwind'[l][k].gross = unwind[l][k].gross
  BY DEF SellsKept
<1>1. unwind[l][k] \in [status : SellStatuses, qty : 0..MaxQty, gross : BOOLEAN]
  BY DEF Sells
<1>2. unwind'[l][k] = unwind[l][k] \/ \E st : unwind'[l][k] = [unwind[l][k] EXCEPT !.status = st]
  BY DEF StopUnwinds
<1> QED
  BY <1>1, <1>2

\* The sells change what is held and, for a stop loss, the position; what is
\* still to be sold stays what it was.
LEMMA SellsSpare ==
  ASSUME NEW l \in Legs, IInv, IInv', Sparing, UnwindStep(l) \/ SlStep(l)
  PROVE  Sparing'
<1> USE PairLockAssumption DEF Legs
<1>0. /\ row \in Rows /\ session \in Sessions /\ unwind \in Sells
      /\ pos \in Positions /\ held \in [Legs -> 0..MaxQty]
      /\ \A m \in Legs : pos[m].qty <= pos[m].qty
  BY Types DEF IInv, Positions
<1>2. UNCHANGED <<creator, task, ex>>
  BY DEF UnwindStep, SlStep, UnwindPlace, UnwindFill, UnwindCanceled, SlTrigger, SlFill, SlCanceled
<1>3. CASE UnwindStep(l)
  <2>1. PICK k \in Slots : UnwindPlace(l, k) \/ UnwindFill(l, k) \/ UnwindCanceled(l, k)
    BY <1>3 DEF UnwindStep
  <2>2. UNCHANGED <<row, pos>>
    BY <2>1 DEF UnwindPlace, UnwindFill, UnwindCanceled
  <2>3. SellsKept
    BY <1>0, <2>1 DEF SellsKept, UnwindPlace, UnwindFill, UnwindCanceled, Sells
  <2>4. \/ session' = session
        \/ session.status = "unwinding" /\ session' = [session EXCEPT !.status = "completed"]
    BY <2>1 DEF UnwindPlace, UnwindFill, UnwindCanceled
  <2>5. SellStep
    BY <1>0, <2>2, <2>3, <2>4 DEF SellStep, Sessions
  <2> QED
    BY <1>2, <2>5, SellStepSpares
<1>4. CASE SlTrigger(l) \/ SlCanceled(l)
  <2>1. UNCHANGED <<row, pos, session>>
    BY <1>4 DEF SlTrigger, SlCanceled
  <2>2. SellsKept
    <3>1. unwind' = StopUnwinds({l}, TRUE) => SellsKept
      BY <1>0, StopUnwindsKeep
    <3>2. unwind' = unwind => SellsKept
      BY DEF SellsKept
    <3> QED
      BY <1>4, <3>1, <3>2 DEF SlTrigger, SlCanceled
  <2>3. SellStep
    BY <1>0, <2>1, <2>2 DEF SellStep
  <2> QED
    BY <1>2, <2>3, SellStepSpares
<1>5. CASE SlFill(l)
  <2>1. \A m \in Legs : pos'[m].from = pos[m].from /\ pos'[m].qty <= pos[m].qty
    <3>1. held[l] \in 0..MaxQty /\ pos[l].qty \in 0..MaxQty
      BY <1>0 DEF Positions
    <3>2. Less(pos[l].qty, held[l]) <= pos[l].qty
      BY <3>1 DEF Less
    <3>3. pos' = [pos EXCEPT ![l].qty = Less(@, held[l]), ![l].sold = TRUE]
      BY <1>5 DEF SlFill
    <3> QED
      BY <1>0, <3>2, <3>3 DEF Positions
  <2>2. CASE LockedLegStopped(l) /\ session.status = "locked"
    <3>1. \A m \in Legs : /\ row'[m].filled = row[m].filled /\ row'[m].active = row[m].active
                          /\ row'[m].sess => row[m].sess
                          /\ row'[m].status = row[m].status
      BY <1>0, <2>2 DEF LockedLegStopped, Rows, Other
    <3>2. /\ session'.fill = session.fill /\ session'.locked = session.locked
          /\ session'.status = "completed"
      BY <1>0, <2>2 DEF LockedLegStopped, Sessions
    <3>3. SellsKept
      BY <1>0, <2>2, StopUnwindsKeep DEF LockedLegStopped
    <3> QED
      BY <1>2, <2>1, <2>2, <3>1, <3>2, <3>3, SellStepSpares DEF SellStep, SellsKept
  <2>3. CASE LeadStopped(l) /\ session.status = "working"
    <3>1. \A m \in Legs : /\ row'[m].filled = row[m].filled /\ row'[m].active = row[m].active
                          /\ row'[m].sess = row[m].sess
                          /\ row'[m].status # row[m].status =>
                               row[m].sess /\ row'[m].status = CanceledStatus(row[m].active)
      BY <1>0, <2>3 DEF LeadStopped, Rows, Other
    <3>2. /\ session'.fill = session.fill /\ session'.locked = session.locked
          /\ session'.status = "completed" /\ unwind' = unwind
      BY <1>0, <2>3 DEF LeadStopped, Sessions
    <3> QED
      BY <1>2, <2>1, <2>3, <3>1, <3>2, SellStepSpares DEF SellStep, SellsKept
  <2>4. CASE UNCHANGED <<row, session, unwind>>
    BY <1>2, <2>1, <2>4, SellStepSpares DEF SellStep, SellsKept
  <2> QED
    BY <1>5, <2>2, <2>3, <2>4 DEF SlFill
<1> QED
  BY <1>3, <1>4, <1>5 DEF SlStep

LEMMA SparingNext == IInv /\ IInv' /\ Sparing /\ [Next]_vars => Sparing'
<1> SUFFICES ASSUME IInv, IInv', Sparing, [Next]_vars PROVE Sparing'
  OBVIOUS
<1>0. TypeOK'
  BY DEF IInv
<1>1. CASE Create \/ GraceElapses
  BY <1>1, OutsideSpares
<1>2. ASSUME NEW l \in Legs, Matches(l) \/ Rebase(l) \/ UserCancels(l) PROVE Sparing'
  BY <1>2, OutsideSpares
<1>3. ASSUME NEW l \in Legs, TaskStep(l) PROVE Sparing'
  BY <1>0, <1>3, TaskEndSpares, TaskGoesOnSpares, RecordRowSpares, RecordSessionSpares,
     LockPairSpares, UnwindResidueSpares, Zenon DEF TaskStep
<1>4. ASSUME NEW l \in Legs, UnwindStep(l) \/ SlStep(l) PROVE Sparing'
  BY <1>4, SellsSpare
<1>5. CASE UNCHANGED vars
  BY <1>5 DEF vars, Sparing, NotLinked, Untouched, Fresh, Over, Counted, LockKnown, Locking,
     CommonQty, NoUnwind, UnwindsAfter, UnwindSparesLock, Sellable, NetFill
<1> QED
  BY <1>1, <1>2, <1>3, <1>4, <1>5, Zenon DEF Next

\* create_trade_builder_pair_unwind_order keeps what the pair locked: no unwind
\* sell, whenever it was scheduled, reaches into it by more than the fee, and
\* none sized by the wallet's inventory reaches into it at all.
THEOREM PairUnwindSparesLock == Spec => []UnwindSparesLock
<1>1. Sparing => UnwindSparesLock
  BY DEF Sparing
<1> QED
  BY <1>1, SparingInit, SparingNext, PairInvariant, PTL DEF Spec
=============================================================================
