--------------------------- MODULE TradeLoopProofs --------------------------
(***************************************************************************)
(* Proofs about TradeLoop for every set of configurations and every bound: *)
(* the row of a trade keeps the promise of TradeLifecycle, the types, the  *)
(* sweep of a halt, the keys of the sells, the levels of the averaging     *)
(* orders, and the fills behind what a leg holds.                          *)
(***************************************************************************)
EXTENDS TradeLoop, SequenceTheorems, FiniteSetTheorems, TLAPS

\* The states a handler may still write.
Writes == (TradeStates \ {"Idle"}) \cup {"close"}
CloseStates == {"EntryPlaced", "ExitFilled", "Settled"}

\* The state of the trade once the handler has written everything.
Final == IF todo = <<>> THEN mem ELSE todo[Len(todo)]

DualSteps == {"fills", "gate", "sweep", "act", "sell", "tp_yes", "tp_no", "dca_yes", "dca_no", "settle"}

DualOnly == {"entry", "fills", "act", "sell", "tp_yes", "tp_no", "dca_yes", "dca_no", "settle"}

TodoTyped ==
    /\ mem \in TradeStates /\ db \in TradeStates /\ closed \in BOOLEAN
    /\ todo \in Seq(Writes)
    /\ pc = "failed" => todo = <<>>

\* close_trade is the last write of a handler, and comes after a state from which
\* TradeLifecycle allows it.
CloseIsLast ==
    \A k \in 1..Len(todo) : todo[k] = "close" =>
        /\ k = Len(todo)
        /\ k > 1 => todo[k - 1] \in {"ExitFilled", "Settled"}
        /\ k = 1 => mem \in CloseStates /\ (mem = "EntryPlaced" => pc = "done")

\* The copy in memory is the row, except after close_trade.
MemIsRow ==
    pc # "failed" =>
        \/ db = mem
        \/ db = "Settled" /\ mem = "ExitFilled"
        \/ db = "Settled" /\ mem = "EntryPlaced" /\ pc = "done" /\ todo = <<>>

\* While a basket trades it is entered, held or stopped out.
DualHolds ==
    /\ pc \in DualOnly => Dual
    /\ Dual =>
            /\ pc = "entry" => Final = "EntryPlaced"
            /\ pc \in DualSteps => Final \in {"EntryPlaced", "TpPlaced", "SlArmed"}
            /\ pc \notin {"step", "place", "send", "reconcile"}

LInv == TodoTyped /\ CloseIsLast /\ MemIsRow /\ DualHolds

LEMMA InitLInv == Init => LInv
<1> SUFFICES ASSUME Init PROVE LInv
  OBVIOUS
<1>1. mem = "Idle" /\ db = "Idle" /\ closed = FALSE /\ pc \in {"entry", "gate"}
  BY DEF Init
<1>2. CASE Dual
  <2>1. todo = <<"WaitingEntry", "EntryPlaced">> /\ pc = "entry"
    BY <1>2 DEF Init
  <2>2. Len(todo) = 2 /\ todo[1] = "WaitingEntry" /\ todo[2] = "EntryPlaced" /\ todo # <<>>
    BY <2>1
  <2>3. todo \in Seq(Writes)
    BY <2>1 DEF Writes, TradeStates
  <2>4. TodoTyped
    BY <1>1, <2>1, <2>3 DEF TodoTyped, TradeStates
  <2>5. CloseIsLast
    BY <2>2 DEF CloseIsLast
  <2>6. MemIsRow /\ DualHolds
    BY <1>1, <1>2, <2>1, <2>2 DEF MemIsRow, DualHolds, Final, DualSteps
  <2> QED BY <2>4, <2>5, <2>6 DEF LInv
<1>3. CASE ~Dual
  <2>1. pc = "gate" /\ todo = <<"WaitingEntry">> /\ Len(todo) = 1 /\ todo[1] = "WaitingEntry"
    BY <1>3 DEF Init
  <2>3. todo \in Seq(Writes)
    BY <2>1 DEF Writes, TradeStates
  <2>4. TodoTyped
    BY <1>1, <2>3 DEF TodoTyped, TradeStates
  <2>5. CloseIsLast
    BY <2>1 DEF CloseIsLast
  <2>6. MemIsRow /\ DualHolds
    BY <1>1, <1>3, <2>1 DEF MemIsRow, DualHolds, DualOnly
  <2> QED BY <2>4, <2>5, <2>6 DEF LInv
<1> QED BY <1>2, <1>3

LEMMA InitLifecycle == Init => Lifecycle!Init
BY DEF Init, Lifecycle!Init, PhaseOf

LEMMA WriteStateLInv == LInv /\ WriteState => LInv'
<1> SUFFICES ASSUME LInv, WriteState PROVE LInv'
  OBVIOUS
<1> USE DEF LInv
<1>1. todo # <<>> /\ todo \in Seq(Writes) /\ todo' = Tail(todo) /\ pc' = pc /\ cfg' = cfg
  BY DEF WriteState, TodoTyped
<1>2. /\ Len(todo) \in Nat \ {0}
      /\ Head(todo) = todo[1] /\ todo[1] \in Writes
      /\ Tail(todo) \in Seq(Writes) /\ Len(Tail(todo)) = Len(todo) - 1
      /\ \A k \in 1..Len(todo) - 1 : Tail(todo)[k] = todo[k + 1]
  BY <1>1
<1>0. todo[1] = "close" =>
        Len(todo) = 1 /\ mem \in CloseStates /\ (mem = "EntryPlaced" => pc = "done")
  <2>1. 1 \in 1..Len(todo)
    BY <1>2
  <2> QED BY <2>1, Zenon DEF CloseIsLast
<1>3. Final' = IF Head(todo) = "close" THEN mem ELSE Final
  <2>1. CASE Len(todo) = 1
    <3>1. Tail(todo) = <<>>
      <4>1. Tail(todo) \in Seq(Writes) /\ Len(Tail(todo)) = 0
        BY <1>2, <2>1
      <4> QED BY <4>1, EmptySeq
    <3>2. Final = Head(todo) /\ Final' = mem'
      BY <1>1, <1>2, <2>1, <3>1 DEF Final
    <3> QED BY <3>2 DEF WriteState
  <2>2. CASE Len(todo) # 1
    <3>1. Tail(todo) # <<>> /\ Tail(todo)[Len(Tail(todo))] = todo[Len(todo)]
      BY <1>2, <2>2
    <3>2. todo[1] # "close"
      BY <1>0, <2>2
    <3> QED BY <1>1, <1>2, <3>1, <3>2 DEF Final
  <2> QED BY <2>1, <2>2
<1>4. TodoTyped'
  <2>1. pc # "failed"
    BY <1>1 DEF TodoTyped
  <2>2. CASE Head(todo) = "close"
    BY <1>1, <1>2, <2>1, <2>2 DEF WriteState, TodoTyped, TradeStates
  <2>3. CASE Head(todo) # "close"
    <3>1. mem' = Head(todo) /\ db' = Head(todo) /\ closed' = closed
      BY <2>3 DEF WriteState
    <3> QED BY <1>1, <1>2, <2>1, <2>3, <3>1 DEF TodoTyped, Writes
  <2> QED BY <2>2, <2>3
<1>5. CASE Head(todo) = "close"
  <2>1. Len(todo) = 1 /\ Tail(todo) = <<>> /\ mem \in CloseStates /\ (mem = "EntryPlaced" => pc = "done")
    <3>1. Len(todo) = 1 /\ mem \in CloseStates /\ (mem = "EntryPlaced" => pc = "done")
      BY <1>0, <1>2, <1>5
    <3> QED BY <1>2, <3>1, EmptySeq
  <2>2. db' = "Settled" /\ mem' = mem
    BY <1>5 DEF WriteState
  <2>3. CloseIsLast' /\ MemIsRow'
    BY <1>1, <2>1, <2>2 DEF CloseIsLast, MemIsRow, CloseStates
  <2>4. DualHolds'
    BY <1>1, <1>2, <1>5, <2>1, <2>2 DEF DualHolds, Final, Dual, DualSteps
  <2> QED BY <1>4, <2>3, <2>4
<1>6. CASE Head(todo) # "close"
  <2>1. mem' = Head(todo) /\ db' = Head(todo)
    BY <1>6 DEF WriteState
  <2>2. CloseIsLast'
    <3> SUFFICES ASSUME NEW k \in 1..Len(Tail(todo)), Tail(todo)[k] = "close"
                 PROVE  /\ k = Len(Tail(todo))
                        /\ k > 1 => Tail(todo)[k - 1] \in {"ExitFilled", "Settled"}
                        /\ k = 1 => mem' \in CloseStates /\ mem' # "EntryPlaced"
      BY <1>1 DEF CloseIsLast
    <3>1. k + 1 \in 1..Len(todo) /\ k + 1 > 1 /\ todo[k + 1] = "close"
      BY <1>2
    <3>2. k + 1 = Len(todo) /\ todo[(k + 1) - 1] \in {"ExitFilled", "Settled"}
      BY <3>1 DEF CloseIsLast
    <3>3. todo[k] \in {"ExitFilled", "Settled"} /\ k = Len(Tail(todo))
      <4>3. Len(Tail(todo)) \in Nat
        BY <1>2
      <4>4. k \in Nat
        BY <4>3
      <4>0. k \in Nat /\ Len(todo) \in Nat /\ k + 1 = Len(todo)
        BY <1>2, <3>2, <4>4
      <4>1. (k + 1) - 1 = k /\ k = Len(todo) - 1
        BY ONLY <4>0
      <4>2. todo[k] \in {"ExitFilled", "Settled"}
        BY <3>2, <4>1
      <4> QED BY <1>2, <3>2, <4>1, <4>2
    <3>4. k > 1 => Tail(todo)[k - 1] = todo[k]
      BY <1>2, <3>1
    <3>5. k = 1 => mem' = todo[k]
      BY <1>2, <2>1
    <3> QED BY <3>3, <3>4, <3>5 DEF CloseStates
  <2>3. MemIsRow' /\ DualHolds'
    BY <1>1, <1>3, <1>6, <2>1 DEF MemIsRow, DualHolds, Dual, DualSteps
  <2> QED BY <1>4, <2>2, <2>3
<1> QED BY <1>5, <1>6

\* A handler that starts with nothing to write and leaves the trade alone preserves
\* the invariant when what it plans to write is one of a few sequences.
LEMMA NothingPlanned ==
  ASSUME LInv, todo = <<>>, todo' = <<>>, cfg' = cfg, UNCHANGED <<mem, db, closed>>,
         pc # "failed", pc # "done", pc' \notin {"step", "place", "send", "reconcile"} \/ ~Dual,
         pc' = "entry" => pc = "entry",
         Dual /\ pc' \in DualSteps => pc \in DualSteps \cup {"entry"},
         pc' \in DualOnly => Dual
  PROVE  LInv'
BY DEF LInv, TodoTyped, CloseIsLast, MemIsRow, DualHolds, Final, Dual

LEMMA Planned ==
  ASSUME LInv, todo = <<>>, cfg' = cfg, UNCHANGED <<mem, db, closed>>,
         pc \notin {"failed", "done"}, pc' # "failed",
         NEW n \in Nat \ {0}, todo' \in Seq(Writes), Len(todo') = n,
         \A k \in 1..n : todo'[k] = "close" =>
             /\ k = n
             /\ k > 1 => todo'[k - 1] \in {"ExitFilled", "Settled"}
             /\ k = 1 => mem \in CloseStates /\ (mem = "EntryPlaced" => pc' = "done"),
         Dual => \/ pc' \in {"end", "done"}
                 \/ pc' \in DualSteps /\ todo'[n] \in {"EntryPlaced", "TpPlaced", "SlArmed"},
         pc' \in DualOnly => Dual
  PROVE  LInv'
<1>1. todo' # <<>> /\ Final' = todo'[n]
  BY DEF Final
<1>2. TodoTyped'
  BY DEF LInv, TodoTyped
<1>3. CloseIsLast'
  BY DEF CloseIsLast
<1>4. MemIsRow'
  BY DEF LInv, MemIsRow
<1>5. DualHolds'
  BY <1>1 DEF LInv, DualHolds, DualSteps, DualOnly, Dual
<1> QED BY <1>2, <1>3, <1>4, <1>5 DEF LInv

\* The pc values of the loop and the actions that plan nothing.
LEMMA QuietLInv ==
  ASSUME LInv,
         (\E ok \in BOOLEAN : ProcessFill(ok)) \/ FillsDone \/ ReconcileError \/ Trade \/ FlattenSell
           \/ (\E l \in Legs : TakeProfit(l) \/ Dca(l)) \/ LiveSend
  PROVE  LInv'
<1> USE DEF tradeVars, Ready
<1>1. CASE \E ok \in BOOLEAN : ProcessFill(ok)
  <2>1. /\ todo = <<>> /\ todo' = <<>> /\ cfg' = cfg /\ UNCHANGED <<mem, db, closed>>
        /\ pc \in {"fills", "settle"} /\ pc' = pc
    BY <1>1 DEF ProcessFill
  <2> QED BY <2>1, NothingPlanned DEF DualSteps, LInv, DualHolds
<1>2. CASE FillsDone
  BY <1>2, NothingPlanned DEF FillsDone, DualSteps, DualOnly
<1>3. CASE ReconcileError
  <2>1. ~Dual
    BY <1>3 DEF ReconcileError, LInv, DualHolds
  <2>2. /\ todo = <<>> /\ todo' = <<>> /\ cfg' = cfg /\ UNCHANGED <<mem, db, closed>>
        /\ pc = "reconcile" /\ pc' \in {"sweep", "gate", "end"}
    BY <1>3, <2>1 DEF ReconcileError, NextIteration, LoopHead, Dual
  <2> QED BY <2>1, <2>2, NothingPlanned DEF DualOnly
<1>4. CASE Trade
  BY <1>4, NothingPlanned DEF Trade, DualSteps, DualOnly, LInv, DualHolds
<1>41. CASE FlattenSell
  <2>1. /\ todo = <<>> /\ todo' = <<>> /\ cfg' = cfg /\ UNCHANGED <<mem, db, closed>>
        /\ pc = "sell" /\ pc' = "settle"
    BY <1>41 DEF FlattenSell
  <2> QED BY <2>1, NothingPlanned DEF DualSteps, DualOnly, LInv, DualHolds
<1>5. CASE \E l \in Legs : TakeProfit(l) \/ Dca(l)
  <2> PICK l \in Legs : TakeProfit(l) \/ Dca(l)
    BY <1>5
  <2>1. /\ todo = <<>> /\ todo' = <<>> /\ cfg' = cfg /\ UNCHANGED <<mem, db, closed>>
        /\ pc \in {"tp_yes", "tp_no", "dca_yes", "dca_no"}
    BY DEF TakeProfit, Dca, TpStep, DcaStep, Legs
  <2>2. pc' \in {"tp_no", "dca_yes", "dca_no", "settle"}
    BY DEF TakeProfit, Dca, LegTakeProfitPaper, LegTakeProfitLive, LegHolds
  <2> QED BY <2>1, <2>2, NothingPlanned DEF DualSteps, DualOnly, LInv, DualHolds
<1>6. CASE LiveSend
  <2>1. ~Dual
    BY <1>6 DEF LiveSend, LInv, DualHolds
  <2>2. /\ todo = <<>> /\ todo' = <<>> /\ cfg' = cfg /\ UNCHANGED <<mem, db, closed>>
        /\ pc = "send" /\ pc' \in {"reconcile", "failed"}
    BY <1>6 DEF LiveSend
  <2> QED BY <2>1, <2>2, NothingPlanned DEF DualOnly
<1> QED BY <1>1, <1>2, <1>3, <1>4, <1>41, <1>5, <1>6

\* What the handlers plan has the shape the lemma Planned asks for.
LEMMA PlansClose ==
  ASSUME NEW p \in {<<"ExitFilled", "close">>, <<"SlArmed", "ExitFilled", "close">>,
                    <<"EntryPlaced", "EntryFilled", "TpPlaced", "ExitFilled", "close">>,
                    <<"ExitFilled", "Settled", "close">>, <<"Settled", "close">>}
  PROVE  /\ p \in Seq(Writes) /\ Len(p) \in Nat \ {0, 1}
         /\ \A k \in 1..Len(p) : p[k] = "close" =>
               k = Len(p) /\ k > 1 /\ p[k - 1] \in {"ExitFilled", "Settled"}
<1>1. CASE p = <<"ExitFilled", "close">>
  BY <1>1 DEF Writes, TradeStates
<1>2. CASE p = <<"SlArmed", "ExitFilled", "close">>
  BY <1>2 DEF Writes, TradeStates
<1>3. CASE p = <<"EntryPlaced", "EntryFilled", "TpPlaced", "ExitFilled", "close">>
  BY <1>3 DEF Writes, TradeStates
<1>4. CASE p = <<"ExitFilled", "Settled", "close">>
  BY <1>4 DEF Writes, TradeStates
<1>5. CASE p = <<"Settled", "close">>
  BY <1>5 DEF Writes, TradeStates
<1> QED BY <1>1, <1>2, <1>3, <1>4, <1>5

LEMMA PlansOpen ==
  ASSUME NEW p \in {<<"EntryFilled", "TpPlaced">>, <<"EntryPlaced", "EntryFilled", "TpPlaced">>,
                    <<"EntryPlaced">>, <<"SlArmed">>, <<"Halted">>, <<"Settled">>}
  PROVE  /\ p \in Seq(Writes) /\ Len(p) \in Nat \ {0}
         /\ \A k \in 1..Len(p) : p[k] # "close"
         /\ p = <<"EntryFilled", "TpPlaced">> => p[Len(p)] = "TpPlaced"
         /\ p = <<"SlArmed">> => p[Len(p)] = "SlArmed"
<1>1. CASE p = <<"EntryFilled", "TpPlaced">>
  BY <1>1 DEF Writes, TradeStates
<1>2. CASE p = <<"EntryPlaced", "EntryFilled", "TpPlaced">>
  BY <1>2 DEF Writes, TradeStates
<1>3. ASSUME NEW w \in {"EntryPlaced", "SlArmed", "Halted", "Settled"}, p = <<w>>
      PROVE  p \in Seq(Writes) /\ Len(p) = 1 /\ p[1] = w
  BY <1>3 DEF Writes, TradeStates
<1>4. CASE p = <<"EntryPlaced">>
  BY <1>3, <1>4
<1>5. CASE p = <<"SlArmed">>
  BY <1>3, <1>5
<1>6. CASE p = <<"Halted">>
  BY <1>3, <1>6
<1>7. CASE p = <<"Settled">>
  BY <1>3, <1>7
<1> QED BY <1>1, <1>2, <1>4, <1>5, <1>6, <1>7

LEMMA PlanLInv ==
  ASSUME LInv,
         DualEntryPaper \/ DualEntryLive \/ Gate \/ Sweep \/ StepEntry \/ StepExit
           \/ LiveEntry \/ Reconcile \/ FlattenPaper \/ FlattenLive \/ Settle \/ LoopEnd
  PROVE  LInv'
<1> DEFINE Opens == {<<"EntryFilled", "TpPlaced">>, <<"EntryPlaced", "EntryFilled", "TpPlaced">>,
                     <<"EntryPlaced">>, <<"SlArmed">>, <<"Halted">>, <<"Settled">>}
           Closes == {<<"ExitFilled", "close">>, <<"SlArmed", "ExitFilled", "close">>,
                      <<"EntryPlaced", "EntryFilled", "TpPlaced", "ExitFilled", "close">>,
                      <<"ExitFilled", "Settled", "close">>, <<"Settled", "close">>}
<1>0. todo = <<>> /\ cfg' = cfg /\ UNCHANGED <<mem, db, closed>> /\ pc \notin {"failed", "done"}
  BY DEF DualEntryPaper, DualEntryLive, Gate, Sweep, StepEntry, StepExit, LiveEntry, Reconcile,
         FlattenPaper, FlattenLive, Settle, LoopEnd, Ready
<1>1. ASSUME todo' \in Opens, pc' # "failed",
             Dual => \/ pc' \in {"end", "done"}
                     \/ pc' \in DualSteps /\ todo' \in {<<"EntryFilled", "TpPlaced">>, <<"SlArmed">>},
             pc' \in DualOnly => Dual
      PROVE  LInv'
  <2>1. /\ todo' \in Seq(Writes) /\ Len(todo') \in Nat \ {0}
        /\ \A k \in 1..Len(todo') : todo'[k] # "close"
        /\ Dual => \/ pc' \in {"end", "done"}
                   \/ pc' \in DualSteps /\ todo'[Len(todo')] \in {"EntryPlaced", "TpPlaced", "SlArmed"}
    BY <1>1, PlansOpen
  <2> QED BY <1>0, <1>1, <2>1, Planned
<1>2. ASSUME todo' \in Closes, pc' # "failed", Dual => pc' \in {"end", "done"},
             pc' \in DualOnly => Dual
      PROVE  LInv'
  <2>1. /\ todo' \in Seq(Writes) /\ Len(todo') \in Nat \ {0, 1}
        /\ \A k \in 1..Len(todo') : todo'[k] = "close" =>
              k = Len(todo') /\ k > 1 /\ todo'[k - 1] \in {"ExitFilled", "Settled"}
    BY <1>2, PlansClose
  <2> QED BY <1>0, <1>2, <2>1, Planned
<1>3. ASSUME todo' = <<>>, pc' # "entry", pc' \notin {"step", "place", "send", "reconcile"} \/ ~Dual,
             Dual /\ pc' \in DualSteps => pc \in DualSteps \cup {"entry"},
             pc' \in DualOnly => Dual
      PROVE  LInv'
  BY <1>0, <1>3, NothingPlanned
<1>4. ASSUME pc' = "done", mem \in {"EntryPlaced", "TpPlaced", "SlArmed"},
             todo' = SettleAndClose(mem)
      PROVE  LInv'
  <2>1. CASE mem = "EntryPlaced"
    <3>1. todo' = <<"close">>
      BY <1>4, <2>1 DEF SettleAndClose, CanTransition
    <3>2. todo' \in Seq(Writes) /\ Len(todo') = 1 /\ todo'[1] = "close" /\ 1 \in Nat \ {0}
      BY <3>1 DEF Writes
    <3>3. \A k \in 1..1 : k = 1
      OBVIOUS
    <3>4. \A k \in 1..1 : todo'[k] = "close" =>
             /\ k = 1
             /\ k > 1 => todo'[k - 1] \in {"ExitFilled", "Settled"}
             /\ k = 1 => mem \in CloseStates /\ (mem = "EntryPlaced" => pc' = "done")
      BY <1>4, <2>1, <3>3 DEF CloseStates
    <3>5. /\ Dual => pc' \in {"end", "done"}
          /\ pc' \in DualOnly => Dual
          /\ pc' # "failed"
      BY <1>4 DEF DualOnly
    <3> QED BY <1>0, <3>2, <3>4, <3>5, Planned
  <2>2. CASE mem \in {"TpPlaced", "SlArmed"}
    <3>1. todo' = <<"ExitFilled", "Settled", "close">>
      BY <1>4, <2>2 DEF SettleAndClose, CanTransition
    <3>2. todo' \in Closes
      BY <3>1
    <3> HIDE DEF Closes
    <3> QED BY <1>2, <1>4, <3>2 DEF DualOnly
  <2> QED BY <1>4, <2>1, <2>2
<1>5. Dual => /\ pc = "entry" => mem = "EntryPlaced"
              /\ pc \in DualSteps => mem \in {"EntryPlaced", "TpPlaced", "SlArmed"}
              /\ pc \notin {"step", "place", "send", "reconcile"}
  BY <1>0 DEF LInv, DualHolds, Final
<1> USE DEF DualOnly
<1>6. /\ <<"EntryFilled", "TpPlaced">> \in Opens /\ <<"EntryPlaced">> \in Opens
      /\ <<"SlArmed">> \in Opens /\ <<"Halted">> \in Opens /\ <<"Settled">> \in Opens
      /\ <<"EntryPlaced", "EntryFilled", "TpPlaced">> \in Opens
      /\ <<"ExitFilled", "close">> \in Closes /\ <<"SlArmed", "ExitFilled", "close">> \in Closes
      /\ <<"EntryPlaced", "EntryFilled", "TpPlaced", "ExitFilled", "close">> \in Closes
  OBVIOUS
<1> HIDE DEF Opens, Closes
<1> USE DEF Ready
<1>7. CASE DualEntryPaper
  BY <1>1, <1>6, <1>7 DEF DualEntryPaper, LoopHead, DualSteps, Dual
<1>8. CASE DualEntryLive
  <2>1. Dual /\ pc = "entry"
    BY <1>8 DEF DualEntryLive, Dual
  <2>2. \/ pc' = LoopHead /\ todo' = <<"EntryFilled", "TpPlaced">>
        \/ pc' = "done" /\ todo' = SettleAndClose(mem)
        \/ pc' = LoopHead /\ todo' = <<>>
    BY <1>8 DEF DualEntryLive
  <2> QED BY <1>1, <1>3, <1>4, <1>5, <1>6, <2>1, <2>2 DEF LoopHead, DualSteps
<1>9. CASE Gate
  <2>1. pc = "gate"
    BY <1>9 DEF Gate
  <2>2. \/ pc' = "sweep" /\ todo' = <<>>
        \/ pc' = "end" /\ todo' = <<"Halted">>
        \/ pc' \in {"gate", "end"} /\ todo' = <<>>
        \/ pc' \in {"fills", "act"} /\ Dual /\ todo' = <<>>
        \/ pc' \in {"step", "place"} /\ ~Dual /\ todo' = <<>>
    BY <1>0, <1>9 DEF Gate, NextIteration, LoopHead, Dual
  <2> QED BY <1>1, <1>3, <1>6, <2>1, <2>2 DEF DualSteps
<1>10. CASE Sweep
  BY <1>1, <1>6, <1>10 DEF Sweep
<1>11. CASE StepEntry
  <2>1. ~Dual
    BY <1>5, <1>11 DEF StepEntry
  <2>2. /\ todo' \in {<<>>, <<"EntryPlaced", "EntryFilled", "TpPlaced">>,
                     <<"EntryPlaced", "EntryFilled", "TpPlaced", "ExitFilled", "close">>}
        /\ pc' \in {"gate", "end"}
    BY <1>11, <2>1 DEF StepEntry, NextIteration, LoopHead, Dual
  <2> QED BY <1>1, <1>2, <1>3, <1>6, <2>1, <2>2
<1>12. CASE StepExit
  <2>1. ~Dual
    BY <1>5, <1>12 DEF StepExit
  <2>2. /\ todo' \in {<<>>, <<"ExitFilled", "close">>, <<"SlArmed", "ExitFilled", "close">>}
        /\ pc' \in {"gate", "end"}
    BY <1>0, <1>12, <2>1 DEF StepExit, NextIteration, LoopHead, Dual
  <2> QED BY <1>1, <1>2, <1>3, <1>6, <2>1, <2>2
<1>13. CASE LiveEntry
  <2>1. ~Dual
    BY <1>5, <1>13 DEF LiveEntry
  <2> QED BY <1>0, <1>1, <1>3, <1>6, <1>13, <2>1 DEF LiveEntry
<1>14. CASE Reconcile
  <2>1. ~Dual
    BY <1>5, <1>14 DEF Reconcile
  <2>2. todo' \in {<<>>, <<"EntryFilled", "TpPlaced">>} /\ pc' \in {"gate", "end"}
    BY <1>14, <2>1 DEF Reconcile, NextIteration, LoopHead, Dual
  <2> QED BY <1>1, <1>3, <1>6, <2>1, <2>2
<1>15. CASE FlattenPaper
  BY <1>1, <1>3, <1>6, <1>15 DEF FlattenPaper, DualSteps, Dual
<1>16. CASE FlattenLive
  BY <1>0, <1>1, <1>3, <1>6, <1>16 DEF FlattenLive, DualSteps, Dual
<1>17. CASE Settle
  <2>1. CASE Flat /\ Dual
    BY <1>4, <1>5, <1>17, <2>1 DEF Settle, DualSteps
  <2>3. Dual
    BY <1>17 DEF Settle, LInv, DualHolds
  <2>2. CASE ~Flat
    BY <1>0, <1>3, <1>17, <2>2, <2>3 DEF Settle, NextIteration, LoopHead, DualSteps
  <2> QED BY <2>1, <2>2, <2>3
<1>18. CASE LoopEnd
  BY <1>0, <1>1, <1>3, <1>6, <1>18 DEF LoopEnd, DualSteps
<1> QED BY <1>7, <1>8, <1>9, <1>10, <1>11, <1>12, <1>13, <1>14, <1>15, <1>16, <1>17, <1>18

LEMMA StepLInv == LInv /\ [Next]_vars => LInv'
<1> SUFFICES ASSUME LInv, [Next]_vars PROVE LInv'
  OBVIOUS
<1>1. CASE WriteState
  BY <1>1, WriteStateLInv
<1>2. CASE Loop /\ ~WriteState
  BY <1>2, QuietLInv, PlanLInv DEF Loop
<1>3. CASE Fail
  BY <1>3 DEF Fail, LInv, TodoTyped, CloseIsLast, MemIsRow, DualHolds, Dual, DualSteps, DualOnly,
              Final, Writes, TradeStates
<1>4. CASE ExchangeFill
  BY <1>4 DEF ExchangeFill, tradeVars, LInv, TodoTyped, CloseIsLast, MemIsRow, DualHolds, Dual, Final
<1>5. CASE UNCHANGED vars
  BY <1>5 DEF vars, LInv, TodoTyped, CloseIsLast, MemIsRow, DualHolds, Dual, Final
<1> QED BY <1>1, <1>2, <1>3, <1>4, <1>5 DEF Next

\* A legal write of trades.state is a step of TradeLifecycle, or none.
LEMMA LegalWrite ==
  ASSUME NEW s \in TradeStates, NEW t \in TradeStates \ {"Idle"}, CanTransition(s, t)
  PROVE  \/ PhaseOf(t) = PhaseOf(s)
         \/ PhaseOf(t) = "halted"
         \/ /\ PhaseOf(s) \in DOMAIN Lifecycle!Following
            /\ PhaseOf(t) = Lifecycle!Following[PhaseOf(s)]
BY DEF CanTransition, PhaseOf, Lifecycle!Following, TradeStates

LEMMA WriteStateLifecycle ==
  ASSUME LInv, WriteState
  PROVE  [Lifecycle!Next]_(Lifecycle!lifecycleVars)
<1>1. /\ todo # <<>> /\ todo \in Seq(Writes) /\ pc # "failed"
      /\ mem \in TradeStates /\ db \in TradeStates
  BY DEF WriteState, LInv, TodoTyped
<1>2. Len(todo) \in Nat \ {0} /\ Head(todo) = todo[1] /\ todo[1] \in Writes
  BY <1>1
<1>3. \/ db = mem
      \/ db = "Settled" /\ mem = "ExitFilled"
  BY <1>1 DEF LInv, MemIsRow
<1>4. CASE Head(todo) = "close"
  <2>1. 1 \in 1..Len(todo)
    BY <1>2
  <2>2. mem \in CloseStates
    BY <1>2, <1>4, <2>1, Zenon DEF LInv, CloseIsLast
  <2>3. PhaseOf(db) \in {"entering", "exited", "settled"}
    BY <1>3, <2>2 DEF CloseStates, PhaseOf
  <2>4. PhaseOf(db)' = "settled" /\ closed' = TRUE
    BY <1>4 DEF WriteState, PhaseOf
  <2> QED BY <2>3, <2>4 DEF Lifecycle!Next, Lifecycle!Close
<1>5. CASE Head(todo) # "close"
  <2>1. CanTransition(mem, Head(todo)) /\ db' = Head(todo) /\ closed' = closed
    BY <1>5 DEF WriteState
  <2>2. Head(todo) \in TradeStates \ {"Idle"}
    BY <1>2, <1>5 DEF Writes
  <2>3. CanTransition(db, Head(todo)) \/ PhaseOf(Head(todo)) = PhaseOf(db)
    BY <1>3, <2>1, <2>2 DEF CanTransition, PhaseOf, TradeStates
  <2>4. \/ PhaseOf(db') = PhaseOf(db)
        \/ PhaseOf(db') = "halted"
        \/ /\ PhaseOf(db) \in DOMAIN Lifecycle!Following
           /\ PhaseOf(db') = Lifecycle!Following[PhaseOf(db)]
    BY <1>1, <2>1, <2>2, <2>3, LegalWrite
  <2> QED BY <2>1, <2>4 DEF Lifecycle!Next, Lifecycle!Proceed, Lifecycle!Halt, Lifecycle!lifecycleVars
<1> QED BY <1>4, <1>5

LEMMA StepLifecycle == LInv /\ [Next]_vars => [Lifecycle!Next]_(Lifecycle!lifecycleVars)
<1> SUFFICES ASSUME LInv, [Next]_vars PROVE [Lifecycle!Next]_(Lifecycle!lifecycleVars)
  OBVIOUS
<1>1. CASE WriteState
  BY <1>1, WriteStateLifecycle
<1>2. CASE Fail
  <2>1. CASE UNCHANGED db
    BY <1>2, <2>1 DEF Fail, PhaseOf, Lifecycle!lifecycleVars
  <2>2. CASE todo # <<>> /\ Head(todo) # "close" /\ CanTransition(mem, Head(todo)) /\ db' = Head(todo)
    <3>1. /\ todo \in Seq(Writes) /\ pc # "failed"
          /\ mem \in TradeStates /\ db \in TradeStates
      BY <1>2 DEF Fail, LInv, TodoTyped
    <3>2. \/ db = mem
          \/ db = "Settled" /\ mem = "ExitFilled"
      BY <2>2, <3>1 DEF LInv, MemIsRow
    <3>3. Head(todo) \in TradeStates \ {"Idle"}
      BY <2>2, <3>1 DEF Writes
    <3>4. CanTransition(db, Head(todo)) \/ PhaseOf(Head(todo)) = PhaseOf(db)
      BY <2>2, <3>2, <3>3 DEF CanTransition, PhaseOf, TradeStates
    <3>5. \/ PhaseOf(db') = PhaseOf(db)
          \/ PhaseOf(db') = "halted"
          \/ /\ PhaseOf(db) \in DOMAIN Lifecycle!Following
             /\ PhaseOf(db') = Lifecycle!Following[PhaseOf(db)]
      BY <2>2, <3>1, <3>3, <3>4, LegalWrite
    <3>6. closed' = closed
      BY <1>2 DEF Fail
    <3> QED BY <3>5, <3>6 DEF Lifecycle!Next, Lifecycle!Proceed, Lifecycle!Halt,
                              Lifecycle!lifecycleVars
  <2> QED BY <1>2, <2>1, <2>2 DEF Fail
<1>3. CASE ~WriteState /\ ~Fail
  <2>1. UNCHANGED <<db, closed>>
    BY <1>3 DEF Next, Loop, vars, tradeVars, ExchangeFill, DualEntryPaper, DualEntryLive, ProcessFill,
       FillsDone, Gate, Sweep, StepEntry, StepExit, LiveEntry, LiveSend, Reconcile, ReconcileError,
       FlattenPaper, FlattenLive, FlattenSell, Trade, TakeProfit, Dca, Settle, LoopEnd
  <2> QED BY <2>1 DEF PhaseOf, Lifecycle!lifecycleVars
<1> QED BY <1>1, <1>2, <1>3

\* Every loop implements TradeLifecycle: the row of the trade goes forward through its
\* phases, is closed only where the promise allows it and is never opened again, for
\* every configuration, every bound and every place where the run may fail.
THEOREM TradeLoopLifecycle == Spec => LifecycleSpec
<1>1. Init => LInv /\ Lifecycle!Init
  BY InitLInv, InitLifecycle
<1>2. LInv /\ [Next]_vars => LInv' /\ [Lifecycle!Next]_(Lifecycle!lifecycleVars)
  BY StepLInv, StepLifecycle
<1> QED BY <1>1, <1>2, PTL DEF Spec, LifecycleSpec, Lifecycle!Spec

-----------------------------------------------------------------------------
(* Types of the orders, the legs and the counters.                          *)

Pcs == {"entry", "fills", "gate", "sweep", "step", "place", "send", "reconcile", "act", "sell",
        "tp_yes", "tp_no", "dca_yes", "dca_no", "settle", "end", "done", "failed"}
LegStates == [qty : Nat, levels : 0..MaxLevels]
Intents == {"entry", "dca", "leg_tp", "basket_exit"}
Orders == [leg : Legs, side : {"buy", "sell"}, size : Nat, filled : Nat, seen : Nat,
           applied : Nat, live : BOOLEAN, row : {"none", "acked", "canceled"},
           meta : BOOLEAN, intent : Intents]

BookTyped == cfg \in Configs /\ book \in Seq(Orders) /\ leg \in [Legs -> LegStates]

\* The loop stops at its bound and at its third error; a basket is entered once.
Counting ==
    /\ pc \in Pcs /\ iter \in 0..MaxIter /\ errors \in 0..3 /\ spared \subseteq Ids
    /\ pc \notin {"end", "done", "failed"} => iter < MaxIter
    /\ pc \notin {"sweep", "end", "done", "failed"} => errors < 3
    /\ pc = "entry" => \A l \in Legs : leg[l].levels = 0

\* Who sends orders, and where.
ModeHolds ==
    /\ pc \in {"place", "send", "reconcile"} => cfg.mode = "live"
    /\ pc = "sell" => cfg.mode = "live_dual"

LEMMA ConfigTyped ==
  ASSUME cfg \in Configs
  PROVE  /\ cfg.mode \in Modes /\ MaxIter \in Nat \ {0} /\ MaxLevels \in Nat \ {0}
         /\ MaxOpenOrders \in Nat /\ MaxOrders \in Nat
BY TradeLoopAssumption

LEMMA NewOrderTyped ==
  ASSUME NEW l \in Legs, NEW side \in {"buy", "sell"}, NEW intent \in Intents, NEW size \in Nat,
         NEW tracked \in BOOLEAN
  PROVE  NewOrder(l, side, intent, size, tracked) \in Orders
BY DEF NewOrder, Orders

\* c is book b, or b with one more order.
Grown(b, c, l, side, intent, size, outcome) ==
    \/ c = b
    \/ /\ size # 0 /\ outcome # "rejected"
       /\ c \in Seq(Orders) /\ Len(c) = Len(b) + 1
       /\ \A i \in 1..Len(b) : c[i] = b[i]
       /\ c[Len(c)] = NewOrder(l, side, intent, size, outcome = "ok")

LEMMA PlaceGrows ==
  ASSUME NEW b \in Seq(Orders), NEW l \in Legs, NEW side \in {"buy", "sell"},
         NEW intent \in Intents, NEW size \in Nat, NEW outcome \in Outcomes
  PROVE  /\ PlaceLegOrder(b, l, side, intent, size, outcome) \in Seq(Orders)
         /\ Grown(b, PlaceLegOrder(b, l, side, intent, size, outcome), l, side, intent, size, outcome)
<1> DEFINE o == NewOrder(l, side, intent, size, outcome = "ok")
<1>1. o \in Orders
  BY NewOrderTyped
<1> HIDE DEF o
<1>2. Append(b, o) \in Seq(Orders) /\ Len(Append(b, o)) = Len(b) + 1
      /\ (\A i \in 1..Len(b) : Append(b, o)[i] = b[i]) /\ Append(b, o)[Len(b) + 1] = o
  BY <1>1
<1>3. CASE size = 0 \/ outcome = "rejected"
  BY <1>3 DEF PlaceLegOrder, Grown
<1>4. CASE size # 0 /\ outcome # "rejected"
  <2>1. PlaceLegOrder(b, l, side, intent, size, outcome) = Append(b, o)
    BY <1>4 DEF PlaceLegOrder, o
  <2> QED
    BY <1>2, <1>4, <2>1 DEF Grown, o
<1> QED
  BY <1>3, <1>4

LEMMA FillTyped ==
  ASSUME NEW g \in LegStates, NEW side, NEW level \in BOOLEAN, level => g.levels < MaxLevels,
         MaxLevels \in Nat
  PROVE  /\ ApplyFillToLeg(g, side, level) \in LegStates
         /\ ApplyFillToLeg(g, side, level).qty =
              IF side = "buy" THEN g.qty + 1 ELSE IF g.qty > 0 THEN g.qty - 1 ELSE 0
         /\ ~level => ApplyFillToLeg(g, side, level).levels = g.levels
<1>0. g.qty \in Nat /\ g.levels \in 0..MaxLevels
  BY DEF LegStates
<1>1. CASE side = "buy"
  <2> DEFINE n == IF level THEN g.levels + 1 ELSE g.levels
             d == [qty |-> g.qty + 1, levels |-> n]
  <2>1. n \in 0..MaxLevels /\ (~level => n = g.levels)
    BY <1>0
  <2>2. ApplyFillToLeg(g, side, level) = d
    BY <1>1 DEF ApplyFillToLeg, LegStates
  <2> HIDE DEF n
  <2>3. d \in LegStates /\ d.qty = g.qty + 1 /\ d.levels = n
    BY <1>0, <2>1 DEF LegStates
  <2> QED
    BY <1>1, <2>1, <2>2, <2>3
<1>2. CASE side # "buy"
  <2> DEFINE q == IF g.qty > 0 THEN g.qty - 1 ELSE 0
             d == [g EXCEPT !.qty = q]
  <2>1. q \in Nat
    BY <1>0
  <2>2. ApplyFillToLeg(g, side, level) = d
    BY <1>2 DEF ApplyFillToLeg
  <2>3. d \in LegStates /\ d.qty = q /\ d.levels = g.levels
    <3> HIDE DEF q
    <3> QED
      BY <1>0, <2>1 DEF LegStates
  <2> QED
    BY <1>2, <2>2, <2>3
<1> QED
  BY <1>1, <1>2

\* The steps that send orders, by the books they lead to.
LEMMA EntryGrows ==
  ASSUME BookTyped, DualEntryLive
  PROVE  \E b \in Seq(Orders), o1, o2 \in Outcomes :
           /\ Grown(book, b, "yes", "buy", "entry", 1, o1)
           /\ Grown(b, book', "no", "buy", "entry", 1, o2)
           /\ book' \in Seq(Orders)
<1> PICK out \in [Legs -> Outcomes] :
      book' = PlaceLegOrder(PlaceLegOrder(book, "yes", "buy", "entry", 1, out["yes"]),
                            "no", "buy", "entry", 1, out["no"])
  BY DEF DualEntryLive
<1> DEFINE b == PlaceLegOrder(book, "yes", "buy", "entry", 1, out["yes"])
<1>1. "yes" \in Legs /\ "no" \in Legs /\ "entry" \in Intents /\ out["yes"] \in Outcomes /\ out["no"] \in Outcomes
  BY DEF Legs, Intents
<1>2. b \in Seq(Orders) /\ Grown(book, b, "yes", "buy", "entry", 1, out["yes"])
  BY <1>1, PlaceGrows DEF BookTyped
<1> HIDE DEF b
<1>3. book' = PlaceLegOrder(b, "no", "buy", "entry", 1, out["no"])
  BY DEF b
<1>4. book' \in Seq(Orders) /\ Grown(b, book', "no", "buy", "entry", 1, out["no"])
  BY <1>1, <1>2, <1>3, PlaceGrows
<1> QED
  BY <1>1, <1>2, <1>4

LEMMA SellGrows ==
  ASSUME BookTyped, FlattenSell
  PROVE  \E b \in Seq(Orders), o1, o2 \in Outcomes :
           /\ Grown(book, b, "yes", "sell", "basket_exit", leg["yes"].qty, o1)
           /\ Grown(b, book', "no", "sell", "basket_exit", leg["no"].qty, o2)
           /\ book' \in Seq(Orders)
<1> PICK out \in [Legs -> Outcomes] :
      book' = PlaceLegOrder(
                PlaceLegOrder(book, "yes", "sell", "basket_exit", leg["yes"].qty, out["yes"]),
                "no", "sell", "basket_exit", leg["no"].qty, out["no"])
  BY DEF FlattenSell
<1> DEFINE b == PlaceLegOrder(book, "yes", "sell", "basket_exit", leg["yes"].qty, out["yes"])
<1>1. /\ "yes" \in Legs /\ "no" \in Legs /\ "basket_exit" \in Intents
      /\ out["yes"] \in Outcomes /\ out["no"] \in Outcomes
  BY DEF Legs, Intents
<1>2. leg["yes"].qty \in Nat /\ leg["no"].qty \in Nat
  BY <1>1 DEF BookTyped, LegStates
<1>3. b \in Seq(Orders) /\ Grown(book, b, "yes", "sell", "basket_exit", leg["yes"].qty, out["yes"])
  BY <1>1, <1>2, PlaceGrows DEF BookTyped
<1> HIDE DEF b
<1>4. book' = PlaceLegOrder(b, "no", "sell", "basket_exit", leg["no"].qty, out["no"])
  BY DEF b
<1>5. book' \in Seq(Orders) /\ Grown(b, book', "no", "sell", "basket_exit", leg["no"].qty, out["no"])
  BY <1>1, <1>2, <1>3, <1>4, PlaceGrows
<1> QED
  BY <1>1, <1>3, <1>5

LEMMA BookIds ==
  ASSUME BookTyped
  PROVE  /\ Ids = 1..Len(book) /\ Len(book) \in Nat
         /\ \A i \in Ids : /\ book[i] \in Orders
                          /\ book[i].size \in Nat /\ book[i].filled \in Nat /\ book[i].seen \in Nat
                          /\ book[i].applied \in Nat /\ book[i].live \in BOOLEAN
                          /\ book[i].row \in {"none", "acked", "canceled"}
<1>1. Ids = 1..Len(book) /\ Len(book) \in Nat /\ \A i \in Ids : book[i] \in Orders
  BY DEF BookTyped, Ids
<1> QED
  BY <1>1 DEF Orders

LEMMA SameIds ==
  ASSUME BookTyped, book' \in Seq(Orders), Len(book') = Len(book)
  PROVE  Ids' = Ids
BY DEF BookTyped, Ids

LEMMA SeqUpdate ==
  ASSUME NEW S, NEW b \in Seq(S), NEW i \in DOMAIN b, NEW o \in S
  PROVE  /\ [b EXCEPT ![i] = o] \in Seq(S) /\ Len([b EXCEPT ![i] = o]) = Len(b)
         /\ [b EXCEPT ![i] = o][i] = o
         /\ \A k \in DOMAIN b : k # i => [b EXCEPT ![i] = o][k] = b[k]
OBVIOUS

LEMMA SeqOfFunction ==
  ASSUME NEW S, NEW n \in Nat, NEW f \in [1..n -> S]
  PROVE  f \in Seq(S) /\ Len(f) = n
OBVIOUS

LEMMA SendGrows ==
  ASSUME BookTyped, LiveSend
  PROVE  book' \in Seq(Orders) /\ \E o \in Outcomes : Grown(book, book', "yes", "buy", "entry", 1, o)
BY PlaceGrows DEF BookTyped, LiveSend, Legs, Intents

LEMMA TakeGrows ==
  ASSUME BookTyped, NEW l \in Legs, LegTakeProfitLive(l)
  PROVE  /\ book' \in Seq(Orders)
         /\ \E o \in Outcomes : Grown(book, book', l, "sell", "leg_tp", leg[l].qty, o)
<1>1. leg[l].qty \in Nat
  BY DEF BookTyped, LegStates
<1> QED
  BY <1>1, PlaceGrows DEF BookTyped, LegTakeProfitLive, Intents

LEMMA DcaGrows ==
  ASSUME BookTyped, NEW l \in Legs, LegDcaLive(l)
  PROVE  /\ book' \in Seq(Orders)
         /\ \E o \in Outcomes :
              /\ Grown(book, book', l, "buy", "dca", 1, o)
              /\ leg' = IF o = "ok" THEN [leg EXCEPT ![l].levels = @ + 1] ELSE leg
<1>1. PICK o \in Outcomes :
        /\ book' = PlaceLegOrder(book, l, "buy", "dca", 1, o)
        /\ leg' = IF o = "ok" THEN [leg EXCEPT ![l].levels = @ + 1] ELSE leg
  BY DEF LegDcaLive
<1>2. book' \in Seq(Orders) /\ Grown(book, book', l, "buy", "dca", 1, o)
  BY <1>1, PlaceGrows DEF BookTyped, Intents
<1> QED
  BY <1>1, <1>2

LEMMA OrderUpdates ==
  ASSUME NEW o \in Orders, NEW n \in Nat, NEW m \in Nat, NEW b \in BOOLEAN,
         NEW r \in {"none", "acked", "canceled"}
  PROVE  /\ [o EXCEPT !.seen = n, !.applied = m] \in Orders
         /\ [o EXCEPT !.seen = n, !.applied = m, !.row = r] \in Orders
         /\ [o EXCEPT !.live = b, !.row = r] \in Orders
         /\ [o EXCEPT !.filled = n, !.live = b] \in Orders
BY DEF Orders

LEMMA ProcessTouches ==
  ASSUME BookTyped, NEW ok \in BOOLEAN, ProcessFill(ok)
  PROVE  /\ book' \in Seq(Orders) /\ Len(book') = Len(book)
         /\ \E i \in UnseenFills :
              /\ \A k \in Ids : k # i => book'[k] = book[k]
              /\ book'[i] = [book[i] EXCEPT !.seen = @ + 1,
                                           !.applied = IF ok /\ book[i].meta THEN @ + 1 ELSE @]
              /\ leg' = IF ok /\ book[i].meta
                        THEN [leg EXCEPT ![book[i].leg] = ApplyFillToLeg(@, book[i].side, FALSE)]
                        ELSE leg
<1>1. PICK i \in UnseenFills :
        /\ book' = [book EXCEPT ![i].seen = @ + 1,
                                ![i].applied = IF ok /\ book[i].meta THEN @ + 1 ELSE @]
        /\ leg' = IF ok /\ book[i].meta
                  THEN [leg EXCEPT ![book[i].leg] = ApplyFillToLeg(@, book[i].side, FALSE)]
                  ELSE leg
  BY DEF ProcessFill
<1>2. i \in Ids /\ book[i] \in Orders /\ book[i].seen \in Nat /\ book[i].applied \in Nat
  BY <1>1, BookIds DEF UnseenFills
<1> DEFINE n == book[i].seen + 1
           m == IF ok /\ book[i].meta THEN book[i].applied + 1 ELSE book[i].applied
           o == [book[i] EXCEPT !.seen = n, !.applied = m]
<1>3. o \in Orders
  <2>1. n \in Nat /\ m \in Nat
    BY <1>2
  <2> HIDE DEF n, m
  <2> QED
    BY <1>2, <2>1, OrderUpdates
<1>4. book' = [book EXCEPT ![i] = o]
  BY <1>1, <1>2 DEF Orders
<1>5. book' \in Seq(Orders) /\ Len(book') = Len(book) /\ book'[i] = o
      /\ \A k \in Ids : k # i => book'[k] = book[k]
  <2> HIDE DEF o
  <2> QED
    BY <1>2, <1>3, <1>4, SeqUpdate DEF BookTyped, Ids
<1> QED
  BY <1>1, <1>5

LEMMA SweepTouches ==
  ASSUME BookTyped, Sweep
  PROVE  /\ book' \in Seq(Orders) /\ Len(book') = Len(book)
         /\ \E listed \in BOOLEAN : \E refused \in SUBSET SweepCandidates(listed) :
              /\ \A i \in Ids :
                   book'[i] = IF i \in SweepCandidates(listed) \ refused
                              THEN [book[i] EXCEPT !.live = FALSE,
                                                   !.row = IF @ = "none" THEN @ ELSE "canceled"]
                              ELSE book[i]
              /\ spared' = refused \cup (IF listed THEN {} ELSE {i \in Ids : book[i].row = "none"})
<1>0. PICK listed \in BOOLEAN : \E refused \in SUBSET SweepCandidates(listed) :
        /\ book' = [i \in Ids |->
                      IF i \in SweepCandidates(listed) \ refused
                      THEN [book[i] EXCEPT !.live = FALSE,
                                           !.row = IF @ = "none" THEN @ ELSE "canceled"]
                      ELSE book[i]]
        /\ spared' = refused \cup (IF listed THEN {} ELSE {i \in Ids : book[i].row = "none"})
  BY DEF Sweep
<1>1. PICK refused \in SUBSET SweepCandidates(listed) :
        /\ book' = [i \in Ids |->
                      IF i \in SweepCandidates(listed) \ refused
                      THEN [book[i] EXCEPT !.live = FALSE,
                                           !.row = IF @ = "none" THEN @ ELSE "canceled"]
                      ELSE book[i]]
        /\ spared' = refused \cup (IF listed THEN {} ELSE {i \in Ids : book[i].row = "none"})
  BY <1>0
<1>2. Ids = 1..Len(book) /\ Len(book) \in Nat
  BY BookIds
<1>3. ASSUME NEW i \in Ids PROVE book'[i] \in Orders
  <2> DEFINE r == IF book[i].row = "none" THEN book[i].row ELSE "canceled"
  <2>1. book[i] \in Orders /\ r \in {"none", "acked", "canceled"}
    BY BookIds
  <2>2. book'[i] \in {book[i], [book[i] EXCEPT !.live = FALSE, !.row = r]}
    BY <1>1, <2>1 DEF Orders
  <2> HIDE DEF r
  <2> QED
    BY <2>1, <2>2, OrderUpdates
<1>4. book' \in [1..Len(book) -> Orders]
  BY <1>1, <1>2, <1>3
<1>5. book' \in Seq(Orders) /\ Len(book') = Len(book)
  BY <1>2, <1>4, SeqOfFunction
<1> QED
  BY <1>1, <1>5

LEMMA ReconcileTouches ==
  ASSUME BookTyped, Reconcile
  PROVE  /\ book' \in Seq(Orders) /\ Len(book') = Len(book)
         /\ \A i \in Ids :
              book'[i] = [book[i] EXCEPT !.seen = book[i].filled, !.applied = book[i].filled,
                                         !.row = IF book[i].live THEN "acked" ELSE @]
<1>1. book' = [i \in Ids |->
                 [book[i] EXCEPT !.seen = book[i].filled, !.applied = book[i].filled,
                                 !.row = IF book[i].live THEN "acked" ELSE @]]
  BY DEF Reconcile
<1>2. Ids = 1..Len(book) /\ Len(book) \in Nat
  BY BookIds
<1>3. ASSUME NEW i \in Ids PROVE book'[i] \in Orders
  <2> DEFINE r == IF book[i].live THEN "acked" ELSE book[i].row
             n == book[i].filled
  <2>1. book[i] \in Orders /\ r \in {"none", "acked", "canceled"} /\ n \in Nat
    BY BookIds
  <2>2. book'[i] = [book[i] EXCEPT !.seen = n, !.applied = n, !.row = r]
    BY <1>1, <2>1 DEF Orders
  <2> HIDE DEF r, n
  <2> QED
    BY <2>1, <2>2 DEF Orders
<1>4. book' \in [1..Len(book) -> Orders]
  BY <1>1, <1>2, <1>3
<1>5. book' \in Seq(Orders) /\ Len(book') = Len(book)
  BY <1>2, <1>4, SeqOfFunction
<1> QED
  BY <1>1, <1>5

LEMMA FillTouches ==
  ASSUME BookTyped, ExchangeFill
  PROVE  /\ book' \in Seq(Orders) /\ Len(book') = Len(book)
         /\ \E i \in Ids :
              /\ book[i].live /\ book[i].filled < book[i].size
              /\ \A k \in Ids : k # i => book'[k] = book[k]
              /\ book'[i] = [book[i] EXCEPT !.filled = @ + 1,
                                           !.live = book[i].filled + 1 < book[i].size]
<1>1. PICK i \in Ids :
        /\ book[i].live /\ book[i].filled < book[i].size
        /\ book' = [book EXCEPT ![i].filled = @ + 1, ![i].live = book[i].filled + 1 < book[i].size]
  BY DEF ExchangeFill
<1>2. book[i] \in Orders /\ book[i].filled \in Nat
  BY <1>1, BookIds
<1> DEFINE n == book[i].filled + 1
           b == book[i].filled + 1 < book[i].size
           o == [book[i] EXCEPT !.filled = n, !.live = b]
<1>3. o \in Orders
  <2>1. n \in Nat /\ b \in BOOLEAN
    BY <1>2
  <2> HIDE DEF n, b
  <2> QED
    BY <1>2, <2>1, OrderUpdates
<1>4. book' = [book EXCEPT ![i] = o]
  BY <1>1, <1>2 DEF Orders
<1>5. book' \in Seq(Orders) /\ Len(book') = Len(book) /\ book'[i] = o
      /\ \A k \in Ids : k # i => book'[k] = book[k]
  <2>1. i \in DOMAIN book /\ book \in Seq(Orders)
    BY <1>1 DEF BookTyped, Ids
  <2> HIDE DEF o
  <2> QED
    BY <2>1, <1>3, <1>4, SeqUpdate DEF Ids
<1> QED
  BY <1>1, <1>5

\* The steps that neither send nor count anything.
Idle ==
    \/ WriteState \/ FillsDone \/ Gate \/ StepEntry \/ StepExit \/ LiveEntry \/ ReconcileError
    \/ FlattenLive \/ Trade \/ Settle \/ LoopEnd \/ Fail \/ UNCHANGED vars

LEMMA IdleFrame == Idle => UNCHANGED <<cfg, leg, book>>
BY DEF Idle, WriteState, FillsDone, Gate, StepEntry, StepExit, LiveEntry, ReconcileError, FlattenLive,
       Trade, Settle, LoopEnd, Fail, vars, tradeVars

LEMMA StepKinds ==
  [Next]_vars =>
    \/ Idle \/ DualEntryPaper \/ DualEntryLive \/ (\E ok \in BOOLEAN : ProcessFill(ok)) \/ Sweep
    \/ LiveSend \/ Reconcile \/ FlattenPaper \/ FlattenSell \/ (\E l \in Legs : TakeProfit(l) \/ Dca(l))
    \/ ExchangeFill
BY DEF Next, Loop, Idle

\* The legs and the orders keep their types.
LEMMA BookTypedNext ==
  ASSUME BookTyped, Counting, [Next]_vars
  PROVE  BookTyped'
<1>0. /\ cfg \in Configs /\ book \in Seq(Orders) /\ leg \in [Legs -> LegStates]
      /\ MaxLevels \in Nat \ {0} /\ \A l \in Legs : leg[l] \in LegStates
  BY ConfigTyped DEF BookTyped
<1>1. CASE Idle
  BY <1>1, IdleFrame DEF BookTyped
<1>2. CASE DualEntryPaper
  <2>1. pc = "entry" /\ leg' = [l \in Legs |-> ApplyFillToLeg(leg[l], "buy", TRUE)]
        /\ UNCHANGED <<cfg, book>>
    BY <1>2 DEF DualEntryPaper, Ready
  <2>2. \A l \in Legs : leg[l].levels < MaxLevels
    BY <1>0, <2>1 DEF Counting
  <2>3. \A l \in Legs : ApplyFillToLeg(leg[l], "buy", TRUE) \in LegStates
    BY <1>0, <2>2, FillTyped
  <2> QED
    BY <1>0, <2>1, <2>3 DEF BookTyped
<1>3. CASE DualEntryLive
  BY <1>0, <1>3, EntryGrows DEF BookTyped, DualEntryLive
<1>4. ASSUME NEW ok \in BOOLEAN, ProcessFill(ok) PROVE BookTyped'
  <2>1. PICK i \in UnseenFills :
          leg' \in {leg, [leg EXCEPT ![book[i].leg] = ApplyFillToLeg(@, book[i].side, FALSE)]}
    BY <1>4, ProcessTouches
  <2>2. leg' \in [Legs -> LegStates]
    <3>1. \A l \in Legs : ApplyFillToLeg(leg[l], book[i].side, FALSE) \in LegStates
      BY <1>0, FillTyped
    <3> QED
      BY <1>0, <2>1, <3>1
  <2>3. book' \in Seq(Orders) /\ cfg' = cfg
    BY <1>4, ProcessTouches DEF ProcessFill
  <2> QED
    BY <1>0, <2>2, <2>3 DEF BookTyped
<1>5. CASE Sweep
  BY <1>0, <1>5, SweepTouches DEF Sweep, BookTyped
<1>6. CASE LiveSend
  BY <1>0, <1>6, SendGrows DEF LiveSend, BookTyped
<1>7. CASE Reconcile
  BY <1>0, <1>7, ReconcileTouches DEF Reconcile, BookTyped
<1>8. CASE FlattenPaper
  <2>1. \A l \in Legs : [leg[l] EXCEPT !.qty = 0] \in LegStates
    BY <1>0 DEF LegStates
  <2> QED
    BY <1>0, <1>8, <2>1 DEF FlattenPaper, BookTyped
<1>9. CASE FlattenSell
  BY <1>0, <1>9, SellGrows DEF FlattenSell, BookTyped
<1>10. ASSUME NEW l \in Legs, TakeProfit(l) PROVE BookTyped'
  <2>1. [leg[l] EXCEPT !.qty = 0] \in LegStates
    BY <1>0 DEF LegStates
  <2>2. [leg EXCEPT ![l].qty = 0] = [leg EXCEPT ![l] = [leg[l] EXCEPT !.qty = 0]]
    OBVIOUS
  <2>3. CASE LegTakeProfitLive(l)
    BY <1>0, <1>10, <2>3, TakeGrows DEF TakeProfit, LegTakeProfitLive, BookTyped
  <2>4. CASE LegTakeProfitPaper(l)
    <3>1. leg' = [leg EXCEPT ![l] = [leg[l] EXCEPT !.qty = 0]] /\ book' = book /\ cfg' = cfg
      BY <1>10, <2>2, <2>4 DEF TakeProfit, LegTakeProfitPaper
    <3> QED
      BY <1>0, <2>1, <3>1 DEF BookTyped
  <2>5. CASE LegHolds(l)
    BY <1>10, <2>5 DEF TakeProfit, LegHolds, BookTyped
  <2> QED
    BY <1>10, <2>3, <2>4, <2>5 DEF TakeProfit
<1>11. ASSUME NEW l \in Legs, Dca(l) PROVE BookTyped'
  <2>1. CASE LegDcaPaper(l)
    <3>1. leg[l].levels < MaxLevels /\ leg' = [leg EXCEPT ![l] = ApplyFillToLeg(leg[l], "buy", TRUE)]
          /\ book' = book /\ cfg' = cfg
      BY <1>11, <2>1 DEF Dca, LegDcaPaper
    <3>2. ApplyFillToLeg(leg[l], "buy", TRUE) \in LegStates
      BY <1>0, <3>1, FillTyped
    <3> QED
      BY <1>0, <3>1, <3>2 DEF BookTyped
  <2>2. CASE LegDcaLive(l)
    <3>1. leg[l].levels < MaxLevels /\ cfg' = cfg
      BY <1>11, <2>2 DEF Dca, LegDcaLive
    <3>2. leg[l].levels + 1 \in 0..MaxLevels
      BY <1>0, <3>1 DEF LegStates
    <3>3. [leg[l] EXCEPT !.levels = leg[l].levels + 1] \in LegStates
      BY <1>0, <3>2 DEF LegStates
    <3>4. leg' \in {leg, [leg EXCEPT ![l] = [leg[l] EXCEPT !.levels = leg[l].levels + 1]]}
      BY <1>0, <2>2, DcaGrows
    <3>5. leg' \in [Legs -> LegStates]
      BY <1>0, <3>3, <3>4
    <3> QED
      BY <1>0, <2>2, <3>1, <3>5, DcaGrows DEF BookTyped
  <2>3. CASE UNCHANGED <<leg, book>>
    BY <1>11, <2>3 DEF Dca, BookTyped
  <2> QED
    BY <1>11, <2>1, <2>2, <2>3 DEF Dca
<1>12. CASE ExchangeFill
  BY <1>0, <1>12, FillTouches DEF ExchangeFill, BookTyped
<1> QED
  BY <1>1, <1>2, <1>3, <1>4, <1>5, <1>6, <1>7, <1>8, <1>9, <1>10, <1>11, <1>12, StepKinds

\* The part of Counting about the loop itself.
Control ==
    /\ pc \in Pcs /\ iter \in 0..MaxIter /\ errors \in 0..3
    /\ pc \notin {"end", "done", "failed"} => iter < MaxIter
    /\ pc \notin {"sweep", "end", "done", "failed"} => errors < 3

LEMMA IterationTyped ==
  ASSUME iter \in 0..MaxIter, iter < MaxIter, MaxIter \in Nat, NextIteration
  PROVE  /\ iter' \in 0..MaxIter /\ pc' \in {"fills", "gate", "end"}
         /\ pc' # "end" => iter' < MaxIter
BY DEF NextIteration, LoopHead

ControlStep == Control' /\ ModeHolds' /\ (pc' = "entry" => pc = "entry" /\ leg' = leg)

LEMMA ControlNext ==
  ASSUME BookTyped, Control, ModeHolds, [Next]_vars
  PROVE  ControlStep
<1>0. /\ MaxIter \in Nat \ {0} /\ cfg.mode \in Modes
      /\ pc \in Pcs /\ iter \in 0..MaxIter /\ errors \in 0..3
      /\ pc \notin {"end", "done", "failed"} => iter < MaxIter
      /\ pc \notin {"sweep", "end", "done", "failed"} => errors < 3
  BY ConfigTyped DEF BookTyped, Control
\* A step that stays where it is, or goes on to a place of the same iteration.
<1>1. ASSUME iter' = iter, errors' = errors, cfg' = cfg, pc' \in Pcs \ {"entry", "place", "send", "reconcile", "sell"},
             pc \notin {"sweep", "end", "done", "failed"}
      PROVE  ControlStep
  BY <1>0, <1>1 DEF ControlStep, Control, ModeHolds
<1>2. ASSUME iter' = iter, errors' = errors, cfg' = cfg, pc' = pc, leg' = leg PROVE ControlStep
  BY <1>0, <1>2 DEF ControlStep, Control, ModeHolds
<1>3. ASSUME iter' = iter, errors' = errors, cfg' = cfg, pc' \in {"end", "done", "failed"} PROVE ControlStep
  BY <1>0, <1>3 DEF ControlStep, Control, ModeHolds, Pcs
<1>4. ASSUME NextIteration, errors' \in {errors, 0}, cfg' = cfg, pc \notin {"sweep", "end", "done", "failed"}
      PROVE  ControlStep
  BY <1>0, <1>4, IterationTyped DEF ControlStep, Control, ModeHolds, Pcs
<1>5. CASE WriteState \/ ExchangeFill \/ UNCHANGED vars
  BY <1>2, <1>5 DEF WriteState, ExchangeFill, vars, tradeVars
<1>6. CASE DualEntryPaper \/ DualEntryLive \/ FillsDone \/ FlattenPaper \/ FlattenSell \/ Trade
  <2>1. /\ iter' = iter /\ errors' = errors /\ cfg' = cfg /\ pc \in {"entry", "fills", "act", "sell"}
        /\ pc' \in {"fills", "gate", "settle", "done", "tp_yes"}
    BY <1>6 DEF DualEntryPaper, DualEntryLive, FillsDone, FlattenPaper, FlattenSell, Trade, Ready, LoopHead,
                tradeVars
  <2> QED
    BY <1>1, <2>1 DEF Pcs
<1>7. ASSUME NEW ok \in BOOLEAN, ProcessFill(ok) PROVE ControlStep
  <2>1. /\ iter' = iter /\ errors' = errors /\ cfg' = cfg /\ pc \in {"fills", "settle"} /\ pc' = pc
    BY <1>7 DEF ProcessFill
  <2> QED
    BY <1>1, <2>1 DEF Pcs
<1>8. CASE Gate
  <2>1. errors' = errors /\ cfg' = cfg /\ pc = "gate" /\ leg' = leg
    BY <1>8 DEF Gate, Ready
  <2>2. \/ pc' = "sweep" /\ iter' = iter
        \/ pc' = "end" /\ iter' = iter
        \/ NextIteration
        \/ pc' \in {"act", "step"} /\ iter' = iter
        \/ pc' = "place" /\ iter' = iter /\ cfg.mode = "live"
    BY <1>8 DEF Gate
  <2>3. CASE pc' = "place" /\ iter' = iter /\ cfg.mode = "live"
    BY <1>0, <2>1, <2>3 DEF ControlStep, Control, ModeHolds, Pcs
  <2> QED
    BY <1>1, <1>4, <2>1, <2>2, <2>3 DEF Pcs
<1>9. CASE Sweep \/ LoopEnd \/ Fail
  BY <1>3, <1>9 DEF Sweep, LoopEnd, Fail
<1>10. CASE StepEntry \/ StepExit \/ Reconcile
  BY <1>4, <1>10 DEF StepEntry, StepExit, Reconcile, Ready
<1>11. CASE LiveEntry \/ LiveSend
  <2>1. /\ iter' = iter /\ errors' = errors /\ cfg' = cfg /\ pc \in {"place", "send"}
        /\ pc' \in {"reconcile", "send", "failed"}
    BY <1>11 DEF LiveEntry, LiveSend, Ready
  <2>2. cfg.mode = "live"
    BY <2>1 DEF ModeHolds
  <2> QED
    BY <1>0, <2>1, <2>2 DEF ControlStep, Control, ModeHolds, Pcs
<1>12. CASE ReconcileError
  <2>0. /\ cfg' = cfg /\ pc = "reconcile" /\ errors' = errors + 1
        /\ IF errors + 1 >= 3 THEN pc' = "sweep" /\ iter' = iter ELSE NextIteration
    BY <1>12 DEF ReconcileError, Ready
  <2>1. (pc' = "sweep" /\ iter' = iter) \/ (errors + 1 < 3 /\ NextIteration)
    BY <1>0, <2>0
  <2>2. CASE pc' = "sweep" /\ iter' = iter
    BY <1>0, <2>0, <2>2 DEF ControlStep, Control, ModeHolds, Pcs
  <2>3. CASE NextIteration /\ errors + 1 < 3
    BY <1>0, <2>0, <2>3, IterationTyped DEF ControlStep, Control, ModeHolds, Pcs
  <2> QED
    BY <2>1, <2>2, <2>3
<1>13. CASE FlattenLive
  <2>1. /\ iter' = iter /\ errors' = errors /\ cfg' = cfg /\ pc = "act" /\ pc' \in {"settle", "sell"}
        /\ cfg.mode = "live_dual"
    BY <1>13 DEF FlattenLive, Ready
  <2> QED
    BY <1>0, <2>1 DEF ControlStep, Control, ModeHolds, Pcs
<1>14. ASSUME NEW l \in Legs, TakeProfit(l) \/ Dca(l) PROVE ControlStep
  <2>1. iter' = iter /\ errors' = errors /\ cfg' = cfg /\ pc \in {"tp_yes", "tp_no", "dca_yes", "dca_no"}
    BY <1>14 DEF TakeProfit, Dca, Ready, TpStep, DcaStep, Legs
  <2>2. pc' \in {"tp_no", "dca_yes", "dca_no", "settle"}
    BY <1>14 DEF TakeProfit, Dca, LegTakeProfitPaper, LegTakeProfitLive, LegHolds
  <2> QED
    BY <1>1, <2>1, <2>2 DEF Pcs
<1>15. CASE Settle
  <2>1. /\ errors' = errors /\ cfg' = cfg /\ pc = "settle"
        /\ (NextIteration \/ (pc' = "done" /\ iter' = iter))
    BY <1>15 DEF Settle, Ready
  <2> QED
    BY <1>3, <1>4, <2>1
<1> QED
  BY <1>5, <1>6, <1>7, <1>8, <1>9, <1>10, <1>11, <1>12, <1>13, <1>14, <1>15, StepKinds DEF Idle

LEMMA GrownIds ==
  ASSUME NEW b \in Seq(Orders), NEW c \in Seq(Orders), NEW l, NEW side, NEW intent, NEW size, NEW o,
         Grown(b, c, l, side, intent, size, o)
  PROVE  DOMAIN b \subseteq DOMAIN c
BY DEF Grown

\* Orders stay in the book.
LEMMA IdsStay == ASSUME BookTyped, [Next]_vars PROVE Ids \subseteq Ids'
<1>1. book \in Seq(Orders)
  BY DEF BookTyped
<1>2. CASE Idle \/ DualEntryPaper \/ FlattenPaper
  BY <1>2, IdleFrame DEF DualEntryPaper, FlattenPaper, Ids
<1>3. CASE DualEntryLive
  BY <1>1, <1>3, EntryGrows, GrownIds DEF Ids
<1>4. CASE FlattenSell
  BY <1>1, <1>4, SellGrows, GrownIds DEF Ids
<1>5. CASE LiveSend
  BY <1>1, <1>5, SendGrows, GrownIds DEF Ids
<1>6. ASSUME NEW l \in Legs, TakeProfit(l) \/ Dca(l) PROVE Ids \subseteq Ids'
  <2>1. CASE LegTakeProfitLive(l)
    BY <1>1, <2>1, TakeGrows, GrownIds DEF Ids
  <2>2. CASE LegDcaLive(l)
    BY <1>1, <2>2, DcaGrows, GrownIds DEF Ids
  <2> QED
    BY <1>6, <2>1, <2>2 DEF TakeProfit, Dca, LegTakeProfitPaper, LegHolds, LegDcaPaper, Ids
<1>7. CASE (\E ok \in BOOLEAN : ProcessFill(ok)) \/ Sweep \/ Reconcile \/ ExchangeFill
  <2>1. book' \in Seq(Orders) /\ Len(book') = Len(book)
    BY <1>7, ProcessTouches, SweepTouches, ReconcileTouches, FillTouches
  <2> QED
    BY <1>1, <2>1 DEF Ids
<1> QED
  BY <1>2, <1>3, <1>4, <1>5, <1>6, <1>7, StepKinds

LEMMA CountingNext ==
  ASSUME BookTyped, Counting, ModeHolds, [Next]_vars
  PROVE  Counting' /\ ModeHolds'
<1>1. Control
  BY DEF Counting, Control
<1>2. /\ Control' /\ ModeHolds' /\ (pc' = "entry" => pc = "entry" /\ leg' = leg)
  BY <1>1, ControlNext DEF ControlStep
<1>3. spared' \subseteq Ids'
  <2>1. CASE Sweep
    <3>1. PICK listed \in BOOLEAN : \E refused \in SUBSET SweepCandidates(listed) :
            spared' = refused \cup (IF listed THEN {} ELSE {i \in Ids : book[i].row = "none"})
      BY <2>1 DEF Sweep
    <3>2. SweepCandidates(listed) \subseteq Ids
      BY DEF SweepCandidates, UnfinishedRows
    <3> QED
      BY <3>1, <3>2, IdsStay
  <2>2. CASE ~Sweep
    <3>1. spared' = spared
      BY <2>2 DEF Next, Loop, vars, tradeVars, WriteState, DualEntryPaper, DualEntryLive, ProcessFill, FillsDone,
         Gate, StepEntry, StepExit, LiveEntry, LiveSend, Reconcile, ReconcileError, FlattenPaper, FlattenLive,
         FlattenSell, Trade, TakeProfit, Dca, Settle, LoopEnd, Fail, ExchangeFill
    <3> QED
      BY <3>1, IdsStay DEF Counting
  <2> QED
    BY <2>1, <2>2
<1> QED
  BY <1>2, <1>3 DEF Control, Counting

LEMMA TypesInit == Init => BookTyped /\ Counting /\ ModeHolds
<1> SUFFICES ASSUME Init PROVE BookTyped /\ Counting /\ ModeHolds
  OBVIOUS
<1>0. MaxIter \in Nat \ {0} /\ MaxLevels \in Nat \ {0}
  BY TradeLoopAssumption
<1>1. [qty |-> 0, levels |-> 0] \in LegStates
  BY <1>0 DEF LegStates
<1>2. <<>> \in Seq(Orders)
  OBVIOUS
<1>3. BookTyped
  BY <1>1, <1>2 DEF Init, BookTyped
<1>4. Counting
  BY <1>0 DEF Init, Counting, Pcs
<1>5. ModeHolds
  BY DEF Init, ModeHolds
<1> QED
  BY <1>3, <1>4, <1>5

LEMMA TypesSpec == Spec => [](LInv /\ BookTyped /\ Counting /\ ModeHolds)
<1>1. BookTyped /\ Counting /\ ModeHolds /\ [Next]_vars => BookTyped' /\ Counting' /\ ModeHolds'
  BY BookTypedNext, CountingNext
<1> QED
  BY <1>1, InitLInv, StepLInv, TypesInit, PTL DEF Spec

\* The loop's position, its counters, the legs, the orders and the row keep their
\* types: it stops at its bound and at its third error, and no leg exceeds its levels.
THEOREM TradeLoopTypes == Spec => []TypeOK
<1>1. LInv /\ BookTyped /\ Counting => TypeOK
  <2> SUFFICES ASSUME LInv, BookTyped, Counting PROVE TypeOK
    OBVIOUS
  <2>1. Writes \subseteq TradeStates \cup {"close"}
    BY DEF Writes
  <2>2. todo \in Seq(TradeStates \cup {"close"})
    BY <2>1 DEF LInv, TodoTyped
  <2>3. mem \in TradeStates /\ db \in TradeStates /\ closed \in BOOLEAN
    BY DEF LInv, TodoTyped
  <2>4. leg \in [Legs -> [qty : Nat, levels : 0..MaxLevels]]
    BY DEF BookTyped, LegStates
  <2>5. book \in Seq([leg : Legs, side : {"buy", "sell"}, size : Nat, filled : Nat, seen : Nat,
                      applied : Nat, live : BOOLEAN, row : {"none", "acked", "canceled"},
                      meta : BOOLEAN, intent : {"entry", "dca", "leg_tp", "basket_exit"}])
    BY DEF BookTyped, Orders, Intents
  <2>6. cfg \in Configs
    BY DEF BookTyped
  <2>7. pc \in Pcs /\ iter \in 0..MaxIter /\ errors \in 0..3 /\ spared \subseteq Ids
    BY DEF Counting
  <2> QED
    BY <2>2, <2>3, <2>4, <2>5, <2>6, <2>7 DEF TypeOK, Pcs
<1> QED
  BY <1>1, TypesSpec, PTL

-----------------------------------------------------------------------------
(* What is known of the orders.                                             *)

\* No order is live with a canceled row, and fills are applied once they are
\* seen, and seen once they have happened.
Consistent(b) ==
    \A i \in DOMAIN b : /\ b[i].row = "canceled" => ~b[i].live
                       /\ b[i].applied <= b[i].seen /\ b[i].seen <= b[i].filled

Sent ==
    /\ cfg.mode \in {"paper", "paper_dual"} => book = <<>>
    /\ cfg.mode # "live_dual" => \A i \in Ids : book[i].intent = "entry"
    /\ Consistent(book)

LEMMA GrownConsistent ==
  ASSUME NEW b \in Seq(Orders), NEW c \in Seq(Orders), NEW l, NEW side, NEW intent, NEW size, NEW o,
         Grown(b, c, l, side, intent, size, o), Consistent(b)
  PROVE  /\ Consistent(c)
         /\ intent = "entry" /\ (\A i \in DOMAIN b : b[i].intent = "entry") =>
               \A i \in DOMAIN c : c[i].intent = "entry"
<1>1. CASE c = b
  BY <1>1
<1>2. CASE c # b
  <2>1. /\ Len(c) = Len(b) + 1 /\ (\A i \in 1..Len(b) : c[i] = b[i])
        /\ c[Len(c)] = NewOrder(l, side, intent, size, o = "ok")
        /\ DOMAIN b = 1..Len(b) /\ DOMAIN c = 1..Len(c) /\ Len(b) \in Nat
    BY <1>2 DEF Grown
  <2>2. /\ c[Len(c)].intent = intent /\ c[Len(c)].row # "canceled"
        /\ c[Len(c)].applied <= c[Len(c)].seen /\ c[Len(c)].seen <= c[Len(c)].filled
    BY <2>1 DEF NewOrder
  <2>3. \A i \in DOMAIN c : i \in DOMAIN b \/ i = Len(c)
    BY <2>1
  <2> QED
    BY <2>1, <2>2, <2>3 DEF Consistent
<1> QED
  BY <1>1, <1>2

LEMMA SentInit == Init => Sent
BY DEF Init, Sent, Consistent, Ids

\* A step that sends nothing keeps what is known if each order keeps it.
OrderKeeps(i) ==
    /\ book'[i].intent = book[i].intent
    /\ book'[i].row = "canceled" => ~book'[i].live
    /\ book'[i].applied <= book'[i].seen /\ book'[i].seen <= book'[i].filled

LEMMA SentKept ==
  ASSUME BookTyped, Sent, cfg' = cfg, book' \in Seq(Orders), Len(book') = Len(book),
         \A i \in Ids : OrderKeeps(i)
  PROVE  Sent'
<1>1. Ids' = Ids /\ Ids = DOMAIN book /\ (book = <<>> => book' = <<>>)
  BY DEF Ids, BookTyped
<1>2. Consistent(book')
  BY <1>1 DEF Consistent, Ids, OrderKeeps
<1>3. cfg.mode # "live_dual" => \A i \in Ids : book'[i].intent = "entry"
  BY DEF Sent, OrderKeeps
<1> QED
  BY <1>1, <1>2, <1>3 DEF Sent

LEMMA SentNext ==
  ASSUME BookTyped, ModeHolds, Sent, [Next]_vars
  PROVE  Sent'
<1>0. book \in Seq(Orders) /\ Consistent(book)
  BY DEF BookTyped, Sent
<1>1. CASE Idle \/ DualEntryPaper \/ FlattenPaper
  BY <1>1, IdleFrame DEF DualEntryPaper, FlattenPaper, Ids, Sent
<1>2. CASE DualEntryLive
  <2>1. cfg' = cfg /\ cfg.mode = "live_dual"
    BY <1>2 DEF DualEntryLive
  <2>2. Consistent(book')
    BY <1>0, <1>2, EntryGrows, GrownConsistent
  <2> QED
    BY <2>1, <2>2 DEF Sent
<1>3. CASE FlattenSell
  <2>1. cfg' = cfg /\ cfg.mode = "live_dual"
    BY <1>3 DEF FlattenSell, Ready, ModeHolds
  <2>2. Consistent(book')
    BY <1>0, <1>3, SellGrows, GrownConsistent
  <2> QED
    BY <2>1, <2>2 DEF Sent
<1>4. CASE LiveSend
  <2>1. cfg' = cfg /\ cfg.mode = "live"
    BY <1>4 DEF LiveSend, Ready, ModeHolds
  <2>2. \A i \in DOMAIN book : book[i].intent = "entry"
    BY <2>1 DEF Sent, Ids
  <2>3. Consistent(book') /\ \A i \in DOMAIN book' : book'[i].intent = "entry"
    BY <1>0, <1>4, <2>2, SendGrows, GrownConsistent
  <2> QED
    BY <2>1, <2>3 DEF Sent, Ids
<1>5. ASSUME NEW l \in Legs, TakeProfit(l) \/ Dca(l) PROVE Sent'
  <2>1. CASE LegTakeProfitLive(l)
    <3>1. cfg' = cfg /\ cfg.mode = "live_dual"
      BY <1>5, <2>1 DEF TakeProfit, Dca, LegTakeProfitLive
    <3>2. Consistent(book')
      BY <1>0, <2>1, TakeGrows, GrownConsistent
    <3> QED
      BY <3>1, <3>2 DEF Sent
  <2>2. CASE LegDcaLive(l)
    <3>1. cfg' = cfg /\ cfg.mode = "live_dual"
      BY <1>5, <2>2 DEF TakeProfit, Dca, LegDcaLive
    <3>2. Consistent(book')
      BY <1>0, <2>2, DcaGrows, GrownConsistent
    <3> QED
      BY <3>1, <3>2 DEF Sent
  <2>3. CASE UNCHANGED book
    BY <1>5, <2>3 DEF TakeProfit, Dca, Sent, Ids
  <2> QED
    BY <1>5, <2>1, <2>2, <2>3 DEF TakeProfit, Dca, LegTakeProfitPaper, LegHolds, LegDcaPaper
<1>6. ASSUME NEW ok \in BOOLEAN, ProcessFill(ok) PROVE Sent'
  <2>1. PICK i \in UnseenFills :
          /\ \A k \in Ids : k # i => book'[k] = book[k]
          /\ book'[i] = [book[i] EXCEPT !.seen = @ + 1,
                                       !.applied = IF ok /\ book[i].meta THEN @ + 1 ELSE @]
    BY <1>6, ProcessTouches
  <2>2. i \in Ids /\ book[i] \in Orders /\ book[i].seen < book[i].filled
    BY BookIds DEF UnseenFills
  <2>3. /\ book'[i].intent = book[i].intent /\ book'[i].row = book[i].row /\ book'[i].live = book[i].live
        /\ book'[i].seen = book[i].seen + 1 /\ book'[i].filled = book[i].filled
        /\ book'[i].applied \in {book[i].applied, book[i].applied + 1}
    BY <2>1, <2>2 DEF Orders
  <2>4. \A k \in Ids : /\ book[k].row = "canceled" => ~book[k].live
                      /\ book[k].applied <= book[k].seen /\ book[k].seen <= book[k].filled
    BY DEF Sent, Consistent, Ids
  <2>5. /\ book'[i].row = "canceled" => ~book'[i].live
        /\ book'[i].applied <= book'[i].seen /\ book'[i].seen <= book'[i].filled
    BY <2>2, <2>3, <2>4, BookIds
  <2>6. ASSUME NEW k \in Ids
        PROVE  OrderKeeps(k)
    <3>1. CASE k = i
      BY <3>1, <2>3, <2>5 DEF OrderKeeps
    <3>2. CASE k # i
      BY <3>2, <2>1, <2>4 DEF OrderKeeps
    <3> QED
      BY <3>1, <3>2
  <2> QED
    BY SentKept, <1>6, <2>6, ProcessTouches DEF ProcessFill
<1>7. CASE Sweep
  <2>1. PICK listed \in BOOLEAN : \E refused \in SUBSET SweepCandidates(listed) :
          \A i \in Ids :
            book'[i] = IF i \in SweepCandidates(listed) \ refused
                       THEN [book[i] EXCEPT !.live = FALSE, !.row = IF @ = "none" THEN @ ELSE "canceled"]
                       ELSE book[i]
    BY <1>7, SweepTouches
  <2>2. ASSUME NEW i \in Ids
        PROVE  OrderKeeps(i)
    <3>1. book[i] \in Orders
      BY BookIds
    <3>2. \/ book'[i] = book[i]
          \/ book'[i] = [book[i] EXCEPT !.live = FALSE, !.row = IF @ = "none" THEN @ ELSE "canceled"]
      BY <2>1
    <3>3. /\ book[i].row = "canceled" => ~book[i].live
          /\ book[i].applied <= book[i].seen /\ book[i].seen <= book[i].filled
      BY DEF Sent, Consistent, Ids
    <3> QED
      BY <3>1, <3>2, <3>3 DEF Orders, OrderKeeps
  <2> QED
    BY SentKept, <1>7, <2>2, SweepTouches DEF Sweep
<1>8. CASE Reconcile
  <2>1. ASSUME NEW i \in Ids
        PROVE  OrderKeeps(i)
    <3>1. book[i] \in Orders
      BY BookIds
    <3>2. book'[i] = [book[i] EXCEPT !.seen = book[i].filled, !.applied = book[i].filled,
                                     !.row = IF book[i].live THEN "acked" ELSE @]
      BY <1>8, ReconcileTouches
    <3> QED
      BY <3>1, <3>2 DEF Orders, OrderKeeps
  <2> QED
    BY SentKept, <1>8, <2>1, ReconcileTouches DEF Reconcile
<1>9. CASE ExchangeFill
  <2>1. PICK i \in Ids :
          /\ book[i].live /\ book[i].filled < book[i].size
          /\ \A k \in Ids : k # i => book'[k] = book[k]
          /\ book'[i] = [book[i] EXCEPT !.filled = @ + 1, !.live = book[i].filled + 1 < book[i].size]
    BY <1>9, FillTouches
  <2>2. book[i] \in Orders
    BY BookIds
  <2>3. /\ book'[i].intent = book[i].intent /\ book'[i].row = book[i].row
        /\ book'[i].seen = book[i].seen /\ book'[i].filled = book[i].filled + 1
        /\ book'[i].applied = book[i].applied
    BY <2>1, <2>2 DEF Orders
  <2>4. \A k \in Ids : /\ book[k].row = "canceled" => ~book[k].live
                      /\ book[k].applied <= book[k].seen /\ book[k].seen <= book[k].filled
    BY DEF Sent, Consistent, Ids
  <2>5. /\ book'[i].row = "canceled" => ~book'[i].live
        /\ book'[i].applied <= book'[i].seen /\ book'[i].seen <= book'[i].filled
    BY <2>1, <2>2, <2>3, <2>4, BookIds
  <2>6. ASSUME NEW k \in Ids
        PROVE  OrderKeeps(k)
    <3>1. CASE k = i
      BY <3>1, <2>3, <2>5 DEF OrderKeeps
    <3>2. CASE k # i
      BY <3>2, <2>1, <2>4 DEF OrderKeeps
    <3> QED
      BY <3>1, <3>2
  <2> QED
    BY SentKept, <1>9, <2>6, FillTouches DEF ExchangeFill
<1> QED
  BY <1>1, <1>2, <1>3, <1>4, <1>5, <1>6, <1>7, <1>8, <1>9, StepKinds

-----------------------------------------------------------------------------
(* Halts.                                                                   *)

\* The row is halted, or the handler is about to halt it.
Halting == db = "Halted" \/ \E k \in 1..Len(todo) : todo[k] = "Halted"

Unreached == \A i \in Ids : book[i].live => i \in spared

\* What is halted has been swept, and is not traded again.
Swept == pc # "failed" /\ Halting => pc \in {"end", "done"} /\ Unreached

\* What the handlers plan to write, other than Halted.
Plans ==
    {<<>>, <<"EntryPlaced">>, <<"EntryFilled", "TpPlaced">>, <<"EntryPlaced", "EntryFilled", "TpPlaced">>,
     <<"EntryPlaced", "EntryFilled", "TpPlaced", "ExitFilled", "close">>, <<"SlArmed">>,
     <<"ExitFilled", "close">>, <<"SlArmed", "ExitFilled", "close">>,
     <<"ExitFilled", "Settled", "close">>, <<"Settled", "close">>, <<"close">>, <<"Settled">>}

LEMMA PlansGoOn ==
  ASSUME NEW p \in Plans
  PROVE  \A k \in 1..Len(p) : p[k] # "Halted"
<1>1. CASE p = <<>> \/ p = <<"EntryPlaced">> \/ p = <<"SlArmed">> \/ p = <<"close">> \/ p = <<"Settled">>
  BY <1>1
<1>2. CASE p = <<"EntryFilled", "TpPlaced">> \/ p = <<"ExitFilled", "close">> \/ p = <<"Settled", "close">>
  BY <1>2
<1>3. CASE p = <<"EntryPlaced", "EntryFilled", "TpPlaced">> \/ p = <<"SlArmed", "ExitFilled", "close">>
           \/ p = <<"ExitFilled", "Settled", "close">>
  BY <1>3
<1>4. CASE p = <<"EntryPlaced", "EntryFilled", "TpPlaced", "ExitFilled", "close">>
  BY <1>4
<1> QED
  BY <1>1, <1>2, <1>3, <1>4 DEF Plans

LEMMA SettlePlans == \A s : SettleAndClose(s) \in Plans
BY DEF SettleAndClose, Plans

\* A step of a cycle that trades on.
Onward == pc \notin {"end", "done", "failed"} /\ db' = db /\ (todo' = todo \/ todo' \in Plans)

LEMMA OnwardSwept ==
  ASSUME Swept, Onward
  PROVE  Swept'
BY PlansGoOn DEF Swept, Onward, Halting

LEMMA GoesOnward ==
  ASSUME NEW l \in Legs, NEW ok \in BOOLEAN,
         \/ DualEntryPaper \/ DualEntryLive \/ ProcessFill(ok) \/ FillsDone \/ StepEntry \/ StepExit
         \/ LiveEntry \/ LiveSend \/ Reconcile \/ ReconcileError \/ FlattenPaper \/ FlattenLive
         \/ FlattenSell \/ Trade \/ TakeProfit(l) \/ Dca(l) \/ Settle
  PROVE  Onward
<1>1. CASE DualEntryPaper
  BY <1>1 DEF DualEntryPaper, Ready, Onward, Plans
<1>2. CASE DualEntryLive
  BY <1>2, SettlePlans DEF DualEntryLive, Ready, Onward, Plans
<1>3. CASE ProcessFill(ok)
  BY <1>3 DEF ProcessFill, tradeVars, Onward
<1>4. CASE FillsDone \/ LiveSend \/ ReconcileError \/ FlattenSell \/ Trade
  BY <1>4 DEF FillsDone, LiveSend, ReconcileError, FlattenSell, Trade, Ready, tradeVars, Onward
<1>5. CASE StepEntry
  BY <1>5 DEF StepEntry, Ready, Onward, Plans
<1>6. CASE StepExit
  BY <1>6 DEF StepExit, Ready, Onward, Plans
<1>7. CASE LiveEntry \/ Reconcile
  BY <1>7 DEF LiveEntry, Reconcile, Ready, Onward, Plans
<1>8. CASE FlattenPaper \/ FlattenLive
  BY <1>8 DEF FlattenPaper, FlattenLive, Ready, Onward, Plans
<1>9. CASE TakeProfit(l) \/ Dca(l)
  BY <1>9 DEF TakeProfit, Dca, Ready, TpStep, DcaStep, Legs, tradeVars, Onward
<1>10. CASE Settle
  BY <1>10, SettlePlans DEF Settle, Ready, Onward
<1> QED
  BY <1>1, <1>2, <1>3, <1>4, <1>5, <1>6, <1>7, <1>8, <1>9, <1>10

LEMMA WriteSwept ==
  ASSUME LInv, Swept, WriteState
  PROVE  Swept'
<1>1. /\ todo # <<>> /\ todo \in Seq(Writes) /\ todo' = Tail(todo) /\ UNCHANGED <<pc, book, spared>>
      /\ db' = "Halted" => Head(todo) = "Halted"
  BY DEF WriteState, LInv, TodoTyped
<1>2. /\ Len(todo) \in Nat \ {0} /\ Len(todo') = Len(todo) - 1 /\ todo[1] = Head(todo)
      /\ \A k \in 1..Len(todo') : todo'[k] = todo[k + 1] /\ k + 1 \in 1..Len(todo)
  BY <1>1
<1>3. Halting' => Halting
  BY <1>1, <1>2 DEF Halting
<1> QED
  BY <1>1, <1>3 DEF Swept, Unreached, Ids

LEMMA ExchangeSwept ==
  ASSUME BookTyped, Swept, ExchangeFill
  PROVE  Swept'
<1>1. PICK i \in Ids :
        /\ book[i].live
        /\ \A k \in Ids : k # i => book'[k] = book[k]
  BY FillTouches
<1>2. Ids' = Ids
  BY FillTouches, SameIds
<1>3. UNCHANGED <<pc, todo, db, spared>>
  BY DEF ExchangeFill, tradeVars
<1>4. Unreached => Unreached'
  BY <1>1, <1>2, <1>3 DEF Unreached
<1> QED
  BY <1>3, <1>4 DEF Swept, Halting

\* enforce_halt_open_order_safety reaches every live order but those it reports.
LEMMA SweepSwept ==
  ASSUME BookTyped, Sent, Sweep
  PROVE  Swept'
<1>1. PICK listed \in BOOLEAN : \E refused \in SUBSET SweepCandidates(listed) :
        /\ \A i \in Ids :
             book'[i] = IF i \in SweepCandidates(listed) \ refused
                        THEN [book[i] EXCEPT !.live = FALSE,
                                             !.row = IF @ = "none" THEN @ ELSE "canceled"]
                        ELSE book[i]
        /\ spared' = refused \cup (IF listed THEN {} ELSE {i \in Ids : book[i].row = "none"})
  BY SweepTouches
<1>2. PICK refused \in SUBSET SweepCandidates(listed) :
        /\ \A i \in Ids :
             book'[i] = IF i \in SweepCandidates(listed) \ refused
                        THEN [book[i] EXCEPT !.live = FALSE,
                                             !.row = IF @ = "none" THEN @ ELSE "canceled"]
                        ELSE book[i]
        /\ spared' = refused \cup (IF listed THEN {} ELSE {i \in Ids : book[i].row = "none"})
  BY <1>1
<1>3. Ids' = Ids
  BY SweepTouches, SameIds
<1>4. ASSUME NEW i \in Ids, book'[i].live PROVE i \in spared'
  <2>1. book[i] \in Orders /\ book[i].row \in {"none", "acked", "canceled"}
    BY BookIds
  <2>2. i \notin SweepCandidates(listed) \ refused
    BY <1>2, <1>4, <2>1 DEF Orders
  <2>3. book[i].live /\ book[i].row # "canceled"
    BY <1>2, <1>4, <2>2 DEF Sent, Consistent, Ids
  <2>4. CASE i \in SweepCandidates(listed)
    BY <1>2, <2>2, <2>4
  <2>5. CASE i \notin SweepCandidates(listed)
    <3>1. ~listed /\ book[i].row # "acked"
      BY <2>3, <2>5 DEF SweepCandidates, UnfinishedRows
    <3> QED
      BY <1>2, <2>1, <2>3, <3>1
  <2> QED
    BY <2>4, <2>5
<1> QED
  BY <1>3, <1>4 DEF Sweep, Swept, Unreached

LEMMA SweptInit == Init => Swept
<1> SUFFICES ASSUME Init PROVE ~Halting
  BY DEF Swept
<1>1. db = "Idle" /\ todo \in {<<"WaitingEntry", "EntryPlaced">>, <<"WaitingEntry">>}
  BY DEF Init
<1> QED
  BY <1>1 DEF Halting

LEMMA SweptNext ==
  ASSUME LInv, BookTyped, Sent, Swept, [Next]_vars
  PROVE  Swept'
<1>1. CASE WriteState
  BY <1>1, WriteSwept
<1>2. CASE ExchangeFill
  BY <1>2, ExchangeSwept
<1>3. CASE Sweep
  BY <1>3, SweepSwept
<1>4. CASE Fail
  BY <1>4 DEF Fail, Swept
<1>5. CASE UNCHANGED vars
  BY <1>5 DEF vars, Swept, Halting, Unreached, Ids
<1>6. CASE LoopEnd
  <2>1. /\ pc' = "done" /\ todo' \in Plans /\ UNCHANGED <<db, book, spared>>
        /\ pc = "end"
    BY <1>6 DEF LoopEnd, Ready, Plans
  <2>2. Halting' => Halting
    BY <2>1, PlansGoOn DEF Halting
  <2> QED
    BY <2>1, <2>2 DEF Swept, Unreached, Ids
<1>7. CASE Gate
  <2>1. /\ pc = "gate" /\ db' = db /\ UNCHANGED <<book, spared>>
        /\ (todo' = todo \/ (pc' = "end" /\ cfg.mode \in {"paper", "paper_dual"}))
    BY <1>7 DEF Gate, Ready
  <2>2. CASE todo' = todo
    BY <2>1, <2>2, OnwardSwept DEF Onward
  <2>3. CASE pc' = "end" /\ cfg.mode \in {"paper", "paper_dual"}
    <3>1. book' = <<>>
      BY <2>1, <2>3 DEF Sent
    <3> QED
      BY <2>3, <3>1 DEF Swept, Unreached, Ids
  <2> QED
    BY <2>1, <2>2, <2>3
<1>8. ASSUME NEW l \in Legs, NEW ok \in BOOLEAN,
         \/ DualEntryPaper \/ DualEntryLive \/ ProcessFill(ok) \/ FillsDone \/ StepEntry \/ StepExit
         \/ LiveEntry \/ LiveSend \/ Reconcile \/ ReconcileError \/ FlattenPaper \/ FlattenLive
         \/ FlattenSell \/ Trade \/ TakeProfit(l) \/ Dca(l) \/ Settle
      PROVE  Swept'
  BY <1>8, GoesOnward, OnwardSwept
<1>9. "yes" \in Legs /\ TRUE \in BOOLEAN
  BY DEF Legs
<1> QED
  BY <1>1, <1>2, <1>3, <1>4, <1>5, <1>6, <1>7, <1>8, <1>9 DEF Next, Loop

LEMMA SweptSpec == Spec => [](Sent /\ Swept)
<1>1. /\ LInv /\ BookTyped /\ ModeHolds /\ Sent /\ Swept /\ [Next]_vars => Sent' /\ Swept'
  BY SentNext, SweptNext
<1> QED
  BY <1>1, TypesSpec, SentInit, SweptInit, PTL DEF Spec

\* A halted trade leaves no order on the exchange but those the sweep reports: the
\* refused cancels, and the orders without a row when list_open failed.
THEOREM TradeLoopHaltSweeps == Spec => []HaltSweeps
<1>1. Swept => HaltSweeps
  BY DEF Swept, Halting, Unreached, HaltSweeps
<1> QED
  BY <1>1, SweptSpec, PTL

-----------------------------------------------------------------------------
(* Counting orders.                                                         *)

Of(b, l, t) == {i \in DOMAIN b : b[i].leg = l /\ b[i].intent = t}
Tracked(b, l) == {i \in DOMAIN b : b[i].leg = l /\ b[i].intent = "dca" /\ b[i].row # "none"}

LEMMA OneMore ==
  ASSUME NEW S, NEW T, NEW x, NEW more \in BOOLEAN, IsFiniteSet(S),
         T \subseteq S \cup (IF more THEN {x} ELSE {})
  PROVE  /\ IsFiniteSet(T) /\ Cardinality(T) \in Nat /\ Cardinality(S) \in Nat
         /\ Cardinality(T) <= Cardinality(S) + (IF more THEN 1 ELSE 0)
<1>1. /\ IsFiniteSet(S \cup {x}) /\ Cardinality(S) \in Nat /\ Cardinality(S \cup {x}) \in Nat
      /\ Cardinality(S \cup {x}) <= Cardinality(S) + 1
  BY FS_AddElement, FS_CardinalityType
<1>2. CASE more
  BY <1>1, <1>2, FS_Subset, FS_CardinalityType
<1>3. CASE ~more
  BY <1>1, <1>3, FS_Subset, FS_CardinalityType
<1> QED
  BY <1>2, <1>3

LEMMA OrdersFinite ==
  ASSUME NEW b \in Seq(Orders), NEW l, NEW t
  PROVE  /\ IsFiniteSet(Of(b, l, t)) /\ Cardinality(Of(b, l, t)) \in Nat
         /\ IsFiniteSet(Tracked(b, l)) /\ Cardinality(Tracked(b, l)) \in Nat
<1>1. DOMAIN b = 1..Len(b) /\ Len(b) \in Nat
  OBVIOUS
<1>2. IsFiniteSet(DOMAIN b)
  BY <1>1, FS_Interval
<1>3. Of(b, l, t) \subseteq DOMAIN b /\ Tracked(b, l) \subseteq DOMAIN b
  BY DEF Of, Tracked
<1> QED
  BY <1>2, <1>3, FS_Subset, FS_CardinalityType

LEMMA GrownCounts ==
  ASSUME NEW b \in Seq(Orders), NEW c \in Seq(Orders), NEW l, NEW side, NEW intent, NEW size, NEW o,
         Grown(b, c, l, side, intent, size, o), NEW k, NEW t
  PROVE  /\ Cardinality(Of(c, k, t)) <= Cardinality(Of(b, k, t)) + (IF k = l /\ t = intent THEN 1 ELSE 0)
         /\ Cardinality(Tracked(c, k)) <=
              Cardinality(Tracked(b, k)) + (IF k = l /\ intent = "dca" /\ o = "ok" THEN 1 ELSE 0)
<1> DEFINE x == Len(c)
<1>1. Of(c, k, t) \subseteq Of(b, k, t) \cup (IF k = l /\ t = intent THEN {x} ELSE {})
  <2>1. CASE c = b
    BY <2>1
  <2>2. CASE c # b
    BY <2>2 DEF Grown, Of, NewOrder
  <2> QED
    BY <2>1, <2>2
<1>2. Tracked(c, k) \subseteq Tracked(b, k) \cup (IF k = l /\ intent = "dca" /\ o = "ok" THEN {x} ELSE {})
  <2>1. CASE c = b
    BY <2>1
  <2>2. CASE c # b
    BY <2>2 DEF Grown, Tracked, NewOrder
  <2> QED
    BY <2>1, <2>2
<1>3. (k = l /\ t = intent) \in BOOLEAN /\ (k = l /\ intent = "dca" /\ o = "ok") \in BOOLEAN
  OBVIOUS
<1>4. IsFiniteSet(Of(b, k, t)) /\ IsFiniteSet(Tracked(b, k))
  BY OrdersFinite
<1> HIDE DEF x
<1>5. Cardinality(Of(c, k, t)) <= Cardinality(Of(b, k, t)) + (IF k = l /\ t = intent THEN 1 ELSE 0)
  BY <1>1, <1>3, <1>4, OneMore
<1>6. Cardinality(Tracked(c, k)) <=
        Cardinality(Tracked(b, k)) + (IF k = l /\ intent = "dca" /\ o = "ok" THEN 1 ELSE 0)
  BY <1>2, <1>3, <1>4, OneMore
<1> QED
  BY <1>5, <1>6

\* The steps that send no order, and those that do.
Unsending ==
    \/ Idle \/ DualEntryPaper \/ FlattenPaper \/ (\E ok \in BOOLEAN : ProcessFill(ok))
    \/ Sweep \/ Reconcile \/ ExchangeFill
    \/ \E l \in Legs : TakeProfit(l) /\ (LegTakeProfitPaper(l) \/ LegHolds(l))
    \/ \E l \in Legs : Dca(l) /\ (LegDcaPaper(l) \/ UNCHANGED <<leg, book>>)

LEMMA SendKinds ==
  [Next]_vars =>
    \/ Unsending \/ DualEntryLive \/ FlattenSell \/ LiveSend
    \/ \E l \in Legs : (TakeProfit(l) /\ LegTakeProfitLive(l)) \/ (Dca(l) /\ LegDcaLive(l))
BY StepKinds DEF Unsending, TakeProfit, Dca

SameOrder(i) ==
    book'[i].leg = book[i].leg /\ book'[i].side = book[i].side /\ book'[i].intent = book[i].intent

LEMMA UnsentOrders ==
  ASSUME BookTyped, Unsending
  PROVE  Ids' = Ids /\ \A i \in Ids : SameOrder(i)
<1>1. CASE UNCHANGED book
  BY <1>1 DEF Ids, SameOrder
<1>2. ASSUME NEW ok \in BOOLEAN, ProcessFill(ok) PROVE Ids' = Ids /\ \A i \in Ids : SameOrder(i)
  <2>1. PICK i \in UnseenFills :
          /\ \A k \in Ids : k # i => book'[k] = book[k]
          /\ book'[i] = [book[i] EXCEPT !.seen = @ + 1,
                                       !.applied = IF ok /\ book[i].meta THEN @ + 1 ELSE @]
    BY <1>2, ProcessTouches
  <2>2. ASSUME NEW k \in Ids PROVE SameOrder(k)
    <3>1. CASE k = i
      BY <2>1, <3>1, BookIds DEF Orders, SameOrder
    <3>2. CASE k # i
      BY <2>1, <3>2 DEF SameOrder
    <3> QED
      BY <3>1, <3>2
  <2> QED
    BY <1>2, <2>2, ProcessTouches, SameIds
<1>3. CASE Sweep
  <2>1. ASSUME NEW k \in Ids PROVE SameOrder(k)
    <3>1. \/ book'[k] = book[k]
          \/ book'[k] = [book[k] EXCEPT !.live = FALSE, !.row = IF @ = "none" THEN @ ELSE "canceled"]
      BY <1>3, SweepTouches
    <3> QED
      BY <3>1, BookIds DEF Orders, SameOrder
  <2> QED
    BY <1>3, <2>1, SweepTouches, SameIds
<1>4. CASE Reconcile
  <2>1. ASSUME NEW k \in Ids PROVE SameOrder(k)
    <3>1. book'[k] = [book[k] EXCEPT !.seen = book[k].filled, !.applied = book[k].filled,
                                     !.row = IF book[k].live THEN "acked" ELSE @]
      BY <1>4, ReconcileTouches
    <3> QED
      BY <3>1, BookIds DEF Orders, SameOrder
  <2> QED
    BY <1>4, <2>1, ReconcileTouches, SameIds
<1>5. CASE ExchangeFill
  <2>1. PICK i \in Ids :
          /\ \A k \in Ids : k # i => book'[k] = book[k]
          /\ book'[i] = [book[i] EXCEPT !.filled = @ + 1, !.live = book[i].filled + 1 < book[i].size]
    BY <1>5, FillTouches
  <2>2. ASSUME NEW k \in Ids PROVE SameOrder(k)
    <3>1. CASE k = i
      BY <2>1, <3>1, BookIds DEF Orders, SameOrder
    <3>2. CASE k # i
      BY <2>1, <3>2 DEF SameOrder
    <3> QED
      BY <3>1, <3>2
  <2> QED
    BY <1>5, <2>2, FillTouches, SameIds
<1> QED
  BY <1>1, <1>2, <1>3, <1>4, <1>5, IdleFrame
     DEF Unsending, DualEntryPaper, FlattenPaper, LegTakeProfitPaper, LegHolds, LegDcaPaper

-----------------------------------------------------------------------------
(* Sells and their keys.                                                    *)

FlattenKeyed == {r \in Reasons : <<"flatten", r>> \in keys}
TpKeyed(l) == {p \in TpPrices : <<l, p>> \in keys}

\* The sells of a leg, and the one it is about to send, have a key each.
Keyed(l) ==
    /\ IsFiniteSet(TpKeyed(l))
    /\ Cardinality(Of(book, l, "basket_exit")) + (IF pc = "sell" THEN 1 ELSE 0) <= Cardinality(FlattenKeyed)
    /\ Cardinality(Of(book, l, "leg_tp")) <= Cardinality(TpKeyed(l))
AllKeyed == \A l \in Legs : Keyed(l)

\* What a step leaves of the keys of sells.
SellKeysStay == FlattenKeyed' = FlattenKeyed /\ \A l \in Legs : TpKeyed(l)' = TpKeyed(l)

LEMMA FlattenKeyedFinite == IsFiniteSet(FlattenKeyed) /\ Cardinality(FlattenKeyed) \in Nat
<1>1. IsFiniteSet(AllReasons)
  <2>1. IsFiniteSet({"drop_sell"})
    BY FS_Singleton
  <2>2. IsFiniteSet({"drop_sell"} \cup {"pressure_exit"})
    BY <2>1, FS_AddElement
  <2>3. IsFiniteSet(({"drop_sell"} \cup {"pressure_exit"}) \cup {"force_flatten"})
    BY <2>2, FS_AddElement
  <2>4. IsFiniteSet((({"drop_sell"} \cup {"pressure_exit"}) \cup {"force_flatten"}) \cup {"basket_sl"})
    BY <2>3, FS_AddElement
  <2>5. IsFiniteSet(((({"drop_sell"} \cup {"pressure_exit"}) \cup {"force_flatten"}) \cup {"basket_sl"})
                      \cup {"basket_tp"})
    BY <2>4, FS_AddElement
  <2>6. AllReasons = ((({"drop_sell"} \cup {"pressure_exit"}) \cup {"force_flatten"}) \cup {"basket_sl"})
                       \cup {"basket_tp"}
    BY DEF AllReasons
  <2> QED
    BY <2>5, <2>6
<1>2. FlattenKeyed \subseteq AllReasons
  BY TradeLoopAssumption DEF FlattenKeyed
<1> QED
  BY <1>1, <1>2, FS_Subset, FS_CardinalityType

LEMMA KeySteps ==
  ASSUME [Next]_vars
  PROVE  \/ FlattenLive
         \/ \E l \in Legs : TakeProfit(l) /\ LegTakeProfitLive(l)
         \/ SellKeysStay /\ (pc' = "sell" => pc = "sell")
<1>1. CASE keys' = keys /\ (pc' = "sell" => pc = "sell")
  BY <1>1 DEF SellKeysStay, FlattenKeyed, TpKeyed
<1>2. ASSUME NEW x, keys' = keys \cup {<<"trade", x>>} \/ keys' = keys, pc' # "sell"
      PROVE  SellKeysStay
  <2>1. \A y, z : <<y, z>> = <<"trade", x>> => y = "trade"
    OBVIOUS
  <2>2. \A y, z : y # "trade" => (<<y, z>> \in keys' <=> <<y, z>> \in keys)
    BY <1>2, <2>1
  <2>3. "flatten" # "trade" /\ \A l \in Legs : l # "trade"
    BY DEF Legs
  <2> QED
    BY <2>2, <2>3 DEF SellKeysStay, FlattenKeyed, TpKeyed
<1>3. CASE StepEntry
  <2>1. (keys' = keys \cup {<<"trade", "tp">>} \/ keys' = keys) /\ pc' # "sell"
    BY <1>3 DEF StepEntry, NextIteration, LoopHead
  <2> QED
    BY <1>2, <2>1
<1>4. CASE StepExit
  <2>1. /\ \/ keys' = keys \cup {<<"trade", "tp">>} \/ keys' = keys \/ keys' = keys \cup {<<"trade", "sl">>}
        /\ pc' # "sell"
    BY <1>4 DEF StepExit, NextIteration, LoopHead
  <2> QED
    BY <1>2, <2>1
<1>5. CASE WriteState \/ ExchangeFill \/ UNCHANGED vars \/ Fail \/ LoopEnd \/ Sweep
  BY <1>1, <1>5 DEF WriteState, ExchangeFill, vars, tradeVars, Fail, LoopEnd, Sweep
<1>6. CASE DualEntryPaper \/ DualEntryLive \/ FillsDone \/ FlattenPaper \/ FlattenSell \/ Trade
  BY <1>1, <1>6 DEF DualEntryPaper, DualEntryLive, FillsDone, FlattenPaper, FlattenSell, Trade, LoopHead
<1>7. ASSUME NEW ok \in BOOLEAN, ProcessFill(ok) PROVE keys' = keys /\ pc' = pc
  BY <1>7 DEF ProcessFill
<1>8. CASE Gate \/ LiveEntry \/ LiveSend \/ Settle
  BY <1>1, <1>8 DEF Gate, LiveEntry, LiveSend, Settle, NextIteration, LoopHead
<1>9. CASE Reconcile \/ ReconcileError
  BY <1>1, <1>9 DEF Reconcile, ReconcileError, NextIteration, LoopHead
<1>10. ASSUME NEW l \in Legs, TakeProfit(l), ~LegTakeProfitLive(l) PROVE keys' = keys /\ pc' # "sell"
  BY <1>10 DEF TakeProfit, LegTakeProfitPaper, LegHolds
<1>11. ASSUME NEW l \in Legs, Dca(l) PROVE keys' = keys /\ pc' # "sell"
  BY <1>11 DEF Dca
<1> QED
  BY <1>1, <1>3, <1>4, <1>5, <1>6, <1>7, <1>8, <1>9, <1>10, <1>11, StepKinds DEF Idle

\* An order of another kind, or none, leaves the counts of a leg's sells.
LEMMA SellCounts ==
  ASSUME NEW b \in Seq(Orders), NEW c \in Seq(Orders), NEW l, NEW side, NEW intent, NEW size, NEW o,
         Grown(b, c, l, side, intent, size, o), NEW k
  PROVE  /\ intent # "basket_exit" \/ k # l =>
              Cardinality(Of(c, k, "basket_exit")) <= Cardinality(Of(b, k, "basket_exit"))
         /\ intent # "leg_tp" \/ k # l =>
              Cardinality(Of(c, k, "leg_tp")) <= Cardinality(Of(b, k, "leg_tp"))
         /\ Cardinality(Of(c, k, "basket_exit")) <= Cardinality(Of(b, k, "basket_exit")) + 1
         /\ Cardinality(Of(c, k, "leg_tp")) <= Cardinality(Of(b, k, "leg_tp")) + 1
         /\ \A t \in Intents : Cardinality(Of(b, k, t)) \in Nat /\ Cardinality(Of(c, k, t)) \in Nat
<1>1. \A t \in Intents : Cardinality(Of(b, k, t)) \in Nat /\ Cardinality(Of(c, k, t)) \in Nat
  BY OrdersFinite
<1>2. Cardinality(Of(c, k, "basket_exit")) <=
        Cardinality(Of(b, k, "basket_exit")) + (IF k = l /\ "basket_exit" = intent THEN 1 ELSE 0)
  BY GrownCounts
<1>3. Cardinality(Of(c, k, "leg_tp")) <=
        Cardinality(Of(b, k, "leg_tp")) + (IF k = l /\ "leg_tp" = intent THEN 1 ELSE 0)
  BY GrownCounts
<1>4. "basket_exit" \in Intents /\ "leg_tp" \in Intents
  BY DEF Intents
<1>5. /\ Cardinality(Of(b, k, "basket_exit")) \in Nat /\ Cardinality(Of(c, k, "basket_exit")) \in Nat
      /\ Cardinality(Of(b, k, "leg_tp")) \in Nat /\ Cardinality(Of(c, k, "leg_tp")) \in Nat
  BY <1>1, <1>4
<1>6. intent # "basket_exit" \/ k # l =>
        Cardinality(Of(c, k, "basket_exit")) <= Cardinality(Of(b, k, "basket_exit"))
  BY <1>2, <1>5
<1>7. intent # "leg_tp" \/ k # l => Cardinality(Of(c, k, "leg_tp")) <= Cardinality(Of(b, k, "leg_tp"))
  BY <1>3, <1>5
<1>8. /\ Cardinality(Of(c, k, "basket_exit")) <= Cardinality(Of(b, k, "basket_exit")) + 1
      /\ Cardinality(Of(c, k, "leg_tp")) <= Cardinality(Of(b, k, "leg_tp")) + 1
  BY <1>2, <1>3, <1>5
<1> QED
  BY <1>1, <1>6, <1>7, <1>8

LEMMA SameCounts ==
  ASSUME BookTyped, Unsending, NEW l, NEW t
  PROVE  Of(book', l, t) = Of(book, l, t)
BY UnsentOrders DEF Of, Ids, SameOrder

\* The counts of a step, against the keys of the state before it.
LEMMA KeyedStep ==
  ASSUME NEW k, AllKeyed, k \in Legs, SellKeysStay, pc' = "sell" => pc = "sell",
         Cardinality(Of(book', k, "basket_exit")) \in Nat, Cardinality(Of(book, k, "basket_exit")) \in Nat,
         \/ Cardinality(Of(book', k, "basket_exit")) <= Cardinality(Of(book, k, "basket_exit"))
         \/ /\ pc = "sell" /\ pc' # "sell"
            /\ Cardinality(Of(book', k, "basket_exit")) <= Cardinality(Of(book, k, "basket_exit")) + 1,
         Cardinality(Of(book', k, "leg_tp")) \in Nat, Cardinality(Of(book, k, "leg_tp")) \in Nat,
         Cardinality(Of(book', k, "leg_tp")) <= Cardinality(Of(book, k, "leg_tp"))
  PROVE  Keyed(k)'
<1> DEFINE x == Cardinality(Of(book, k, "basket_exit"))
           y == Cardinality(Of(book', k, "basket_exit"))
           u == Cardinality(Of(book, k, "leg_tp"))
           v == Cardinality(Of(book', k, "leg_tp"))
           n == Cardinality(FlattenKeyed)
           m == Cardinality(TpKeyed(k))
<1>1. Keyed(k)
  BY DEF AllKeyed
<1>2. IsFiniteSet(TpKeyed(k)) /\ x + (IF pc = "sell" THEN 1 ELSE 0) <= n /\ u <= m
  BY <1>1 DEF Keyed
<1>3. n \in Nat /\ m \in Nat
  BY <1>2, FlattenKeyedFinite, FS_CardinalityType
<1>4. x \in Nat /\ y \in Nat /\ u \in Nat /\ v \in Nat /\ v <= u /\ (y <= x \/ (pc = "sell" /\ pc' # "sell" /\ y <= x + 1))
  OBVIOUS
<1>5. FlattenKeyed' = FlattenKeyed /\ TpKeyed(k)' = TpKeyed(k)
  BY DEF SellKeysStay
<1> HIDE DEF x, y, u, v, n, m
<1>6. y + (IF pc' = "sell" THEN 1 ELSE 0) <= n /\ v <= m
  BY <1>2, <1>3, <1>4
<1> QED
  BY <1>2, <1>5, <1>6 DEF Keyed, x, y, u, v, n, m

LEMMA AllKeyedInit == Init => AllKeyed
<1> SUFFICES ASSUME Init, NEW l \in Legs PROVE Keyed(l)
  BY DEF AllKeyed
<1>1. book = <<>> /\ keys = {} /\ pc # "sell"
  BY DEF Init
<1>2. Of(book, l, "basket_exit") = {} /\ Of(book, l, "leg_tp") = {} /\ TpKeyed(l) = {} /\ FlattenKeyed = {}
  BY <1>1 DEF Of, TpKeyed, FlattenKeyed
<1>3. IsFiniteSet({}) /\ Cardinality({}) = 0
  BY FS_EmptySet
<1>4. Cardinality(Of(book, l, "basket_exit")) + (IF pc = "sell" THEN 1 ELSE 0) <= Cardinality(FlattenKeyed)
  <2>1. Cardinality(Of(book, l, "basket_exit")) = 0 /\ Cardinality(FlattenKeyed) = 0
    BY <1>2, <1>3
  <2>2. pc # "sell"
    BY <1>1
  <2> QED
    BY <2>1, <2>2
<1>5. IsFiniteSet(TpKeyed(l)) /\ Cardinality(Of(book, l, "leg_tp")) <= Cardinality(TpKeyed(l))
  BY <1>2, <1>3
<1> QED
  BY <1>4, <1>5 DEF Keyed

\* flatten_key: the key comes first, and only its first record leads to the sells.
LEMMA FlattenIsKeyed ==
  ASSUME BookTyped, AllKeyed, FlattenLive, NEW k \in Legs
  PROVE  Keyed(k)'
<1>1. PICK r \in Reasons :
        /\ keys' = keys \cup {<<"flatten", r>>}
        /\ \/ ~FirstFlatten(r) /\ pc' = "settle"
           \/ FirstFlatten(r) /\ pc' = "sell"
  BY DEF FlattenLive
<1>2. book' = book /\ pc = "act"
  BY DEF FlattenLive, Ready
<1>3. /\ IsFiniteSet(TpKeyed(k))
      /\ Cardinality(Of(book, k, "basket_exit")) <= Cardinality(FlattenKeyed)
      /\ Cardinality(Of(book, k, "leg_tp")) <= Cardinality(TpKeyed(k))
      /\ Cardinality(Of(book, k, "basket_exit")) \in Nat
  <2>1. Cardinality(Of(book, k, "basket_exit")) \in Nat
    BY OrdersFinite DEF BookTyped
  <2> QED
    BY <1>2, <2>1 DEF AllKeyed, Keyed
<1>4. TpKeyed(k)' = TpKeyed(k)
  BY <1>1 DEF TpKeyed, Legs
<1>5. FlattenKeyed' = FlattenKeyed \cup {r}
  BY <1>1 DEF FlattenKeyed
<1>6. Cardinality(FlattenKeyed') = IF r \in FlattenKeyed THEN Cardinality(FlattenKeyed) ELSE Cardinality(FlattenKeyed) + 1
  BY <1>5, FlattenKeyedFinite, FS_AddElement
<1>7. Cardinality(Of(book, k, "basket_exit")) + (IF pc' = "sell" THEN 1 ELSE 0) <= Cardinality(FlattenKeyed')
  <2>1. r \in FlattenKeyed <=> ~FirstFlatten(r)
    BY DEF FlattenKeyed, FirstFlatten
  <2> QED
    BY <1>1, <1>3, <1>6, <2>1, FlattenKeyedFinite
<1> QED
  BY <1>2, <1>3, <1>4, <1>7 DEF Keyed

\* The leg_tp key: one sell for a price that has not been recorded.
LEMMA TakeProfitIsKeyed ==
  ASSUME BookTyped, AllKeyed, NEW l \in Legs, TakeProfit(l), LegTakeProfitLive(l), NEW k \in Legs
  PROVE  Keyed(k)'
<1>1. PICK p \in TpPrices : <<l, p>> \notin keys /\ keys' = keys \cup {<<l, p>>}
  BY DEF LegTakeProfitLive
<1>2. pc # "sell" /\ pc' # "sell"
  BY DEF LegTakeProfitLive, TakeProfit, Ready, TpStep, Legs
<1>3. book \in Seq(Orders) /\ book' \in Seq(Orders) /\ \E o \in Outcomes : Grown(book, book', l, "sell", "leg_tp", leg[l].qty, o)
  BY TakeGrows DEF BookTyped
<1>4. /\ Cardinality(Of(book', k, "basket_exit")) <= Cardinality(Of(book, k, "basket_exit"))
      /\ k # l => Cardinality(Of(book', k, "leg_tp")) <= Cardinality(Of(book, k, "leg_tp"))
      /\ Cardinality(Of(book', k, "leg_tp")) <= Cardinality(Of(book, k, "leg_tp")) + 1
  BY <1>3, SellCounts
<1>5. /\ Cardinality(Of(book', k, "basket_exit")) \in Nat /\ Cardinality(Of(book, k, "basket_exit")) \in Nat
      /\ Cardinality(Of(book', k, "leg_tp")) \in Nat /\ Cardinality(Of(book, k, "leg_tp")) \in Nat
  BY <1>3, OrdersFinite
<1>6. /\ IsFiniteSet(TpKeyed(k))
      /\ Cardinality(Of(book, k, "basket_exit")) <= Cardinality(FlattenKeyed)
      /\ Cardinality(Of(book, k, "leg_tp")) <= Cardinality(TpKeyed(k))
  BY <1>2, <1>5 DEF AllKeyed, Keyed
<1>7. FlattenKeyed' = FlattenKeyed
  BY <1>1 DEF FlattenKeyed, Legs
<1>8. CASE k = l
  <2>1. TpKeyed(k)' = TpKeyed(k) \cup {p} /\ p \notin TpKeyed(k)
    BY <1>1, <1>8 DEF TpKeyed
  <2>2. IsFiniteSet(TpKeyed(k)') /\ Cardinality(TpKeyed(k)') = Cardinality(TpKeyed(k)) + 1
    BY <1>6, <2>1, FS_AddElement
  <2>3. Cardinality(Of(book', k, "leg_tp")) <= Cardinality(TpKeyed(k)')
    BY <1>4, <1>5, <1>6, <2>2, FS_CardinalityType
  <2>4. Cardinality(Of(book', k, "basket_exit")) + 0 <= Cardinality(FlattenKeyed')
    BY <1>4, <1>5, <1>6, <1>7, FlattenKeyedFinite
  <2> QED
    BY <1>2, <2>2, <2>3, <2>4 DEF Keyed
<1>9. CASE k # l
  <2>1. TpKeyed(k)' = TpKeyed(k)
    BY <1>1, <1>9 DEF TpKeyed
  <2>2. Cardinality(Of(book', k, "leg_tp")) <= Cardinality(TpKeyed(k)')
    BY <1>4, <1>5, <1>6, <1>9, <2>1, FS_CardinalityType
  <2>3. Cardinality(Of(book', k, "basket_exit")) + 0 <= Cardinality(FlattenKeyed')
    BY <1>4, <1>5, <1>6, <1>7, FlattenKeyedFinite
  <2> QED
    BY <1>2, <1>6, <2>1, <2>2, <2>3 DEF Keyed
<1> QED
  BY <1>8, <1>9

LEMMA AllKeyedNext ==
  ASSUME BookTyped, BookTyped', AllKeyed, [Next]_vars
  PROVE  AllKeyed'
<1> SUFFICES ASSUME NEW k \in Legs PROVE Keyed(k)'
  BY DEF AllKeyed
<1>0. book \in Seq(Orders) /\ book' \in Seq(Orders)
  BY DEF BookTyped
<1>1. /\ Cardinality(Of(book', k, "basket_exit")) \in Nat /\ Cardinality(Of(book, k, "basket_exit")) \in Nat
      /\ Cardinality(Of(book', k, "leg_tp")) \in Nat /\ Cardinality(Of(book, k, "leg_tp")) \in Nat
  BY <1>0, OrdersFinite
<1>2. CASE FlattenLive
  BY <1>2, FlattenIsKeyed
<1>3. CASE \E l \in Legs : TakeProfit(l) /\ LegTakeProfitLive(l)
  BY <1>3, TakeProfitIsKeyed
<1>4. ASSUME SellKeysStay, pc' = "sell" => pc = "sell",
             ~\E l \in Legs : TakeProfit(l) /\ LegTakeProfitLive(l)
      PROVE  Keyed(k)'
  <2>1. CASE Unsending
    BY <1>1, <1>4, <2>1, SameCounts, KeyedStep
  <2>2. CASE DualEntryLive
    <3>1. PICK b \in Seq(Orders), o1, o2 \in Outcomes :
            /\ Grown(book, b, "yes", "buy", "entry", 1, o1)
            /\ Grown(b, book', "no", "buy", "entry", 1, o2)
      BY <2>2, EntryGrows
    <3>2. /\ Cardinality(Of(b, k, "basket_exit")) <= Cardinality(Of(book, k, "basket_exit"))
          /\ Cardinality(Of(b, k, "leg_tp")) <= Cardinality(Of(book, k, "leg_tp"))
      BY <1>0, <3>1, SellCounts
    <3>3. /\ Cardinality(Of(book', k, "basket_exit")) <= Cardinality(Of(b, k, "basket_exit"))
          /\ Cardinality(Of(book', k, "leg_tp")) <= Cardinality(Of(b, k, "leg_tp"))
      BY <1>0, <3>1, SellCounts
    <3>4. Cardinality(Of(b, k, "basket_exit")) \in Nat /\ Cardinality(Of(b, k, "leg_tp")) \in Nat
      BY OrdersFinite
    <3>5. /\ Cardinality(Of(book', k, "basket_exit")) <= Cardinality(Of(book, k, "basket_exit"))
          /\ Cardinality(Of(book', k, "leg_tp")) <= Cardinality(Of(book, k, "leg_tp"))
      BY <1>1, <3>2, <3>3, <3>4
    <3> QED
      BY <1>1, <1>4, <3>5, KeyedStep
  <2>3. CASE FlattenSell
    <3>1. PICK b \in Seq(Orders), o1, o2 \in Outcomes :
            /\ Grown(book, b, "yes", "sell", "basket_exit", leg["yes"].qty, o1)
            /\ Grown(b, book', "no", "sell", "basket_exit", leg["no"].qty, o2)
      BY <2>3, SellGrows
    <3>2. /\ Cardinality(Of(b, k, "basket_exit")) <= Cardinality(Of(book, k, "basket_exit")) + (IF k = "yes" THEN 1 ELSE 0)
          /\ Cardinality(Of(b, k, "leg_tp")) <= Cardinality(Of(book, k, "leg_tp"))
      BY <1>0, <3>1, SellCounts, OrdersFinite
    <3>3. /\ Cardinality(Of(book', k, "basket_exit")) <= Cardinality(Of(b, k, "basket_exit")) + (IF k = "no" THEN 1 ELSE 0)
          /\ Cardinality(Of(book', k, "leg_tp")) <= Cardinality(Of(b, k, "leg_tp"))
      BY <1>0, <3>1, SellCounts, OrdersFinite
    <3>4. Cardinality(Of(b, k, "basket_exit")) \in Nat /\ Cardinality(Of(b, k, "leg_tp")) \in Nat
      BY OrdersFinite
    <3>5. /\ Cardinality(Of(book', k, "basket_exit")) <= Cardinality(Of(book, k, "basket_exit")) + 1
          /\ Cardinality(Of(book', k, "leg_tp")) <= Cardinality(Of(book, k, "leg_tp"))
      BY <1>1, <3>2, <3>3, <3>4
    <3>6. pc = "sell" /\ pc' # "sell"
      BY <2>3 DEF FlattenSell, Ready
    <3> QED
      BY <1>1, <1>4, <3>5, <3>6, KeyedStep
  <2>4. CASE LiveSend
    <3>1. PICK o \in Outcomes : Grown(book, book', "yes", "buy", "entry", 1, o)
      BY <2>4, SendGrows
    <3>2. /\ Cardinality(Of(book', k, "basket_exit")) <= Cardinality(Of(book, k, "basket_exit"))
          /\ Cardinality(Of(book', k, "leg_tp")) <= Cardinality(Of(book, k, "leg_tp"))
      BY <1>0, <3>1, SellCounts
    <3> QED
      BY <1>1, <1>4, <3>2, KeyedStep
  <2>5. ASSUME NEW l \in Legs, LegDcaLive(l) PROVE Keyed(k)'
    <3>1. PICK o \in Outcomes : Grown(book, book', l, "buy", "dca", 1, o)
      BY <2>5, DcaGrows
    <3>2. /\ Cardinality(Of(book', k, "basket_exit")) <= Cardinality(Of(book, k, "basket_exit"))
          /\ Cardinality(Of(book', k, "leg_tp")) <= Cardinality(Of(book, k, "leg_tp"))
      BY <1>0, <3>1, SellCounts
    <3> QED
      BY <1>1, <1>4, <3>2, KeyedStep
  <2> QED
    BY <1>4, <2>1, <2>2, <2>3, <2>4, <2>5, SendKinds
<1> QED
  BY <1>2, <1>3, <1>4, KeySteps

LEMMA AllKeyedSpec == Spec => []AllKeyed
<1>1. /\ BookTyped /\ BookTyped' /\ AllKeyed /\ [Next]_vars => AllKeyed'
  BY AllKeyedNext
<1> QED
  BY <1>1, TypesSpec, AllKeyedInit, PTL DEF Spec

\* A leg is sold at most once for each recorded reason to flatten and once for each
\* recorded take-profit price, whatever is retried and whichever sells fail.
THEOREM TradeLoopSellsAreKeyed == Spec => []SellsAreKeyed
<1>1. BookTyped /\ AllKeyed => SellsAreKeyed
  <2> SUFFICES ASSUME BookTyped, AllKeyed, NEW l \in Legs
      PROVE  /\ Cardinality(Sells(l, "basket_exit")) <= Cardinality({r \in Reasons : <<"flatten", r>> \in keys})
             /\ Cardinality(Sells(l, "leg_tp")) <= Cardinality({p \in TpPrices : <<l, p>> \in keys})
    BY DEF SellsAreKeyed
  <2>1. \A t : Sells(l, t) = Of(book, l, t)
    BY DEF Sells, Of, Ids
  <2>2. Keyed(l)
    BY DEF AllKeyed
  <2>3. Cardinality(Of(book, l, "basket_exit")) \in Nat
    BY OrdersFinite DEF BookTyped
  <2>4. Cardinality(Of(book, l, "basket_exit")) <= Cardinality(FlattenKeyed)
    BY <2>2, <2>3, FlattenKeyedFinite DEF Keyed
  <2> QED
    BY <2>1, <2>2, <2>4 DEF Keyed, FlattenKeyed, TpKeyed
<1> QED
  BY <1>1, TypesSpec, AllKeyedSpec, PTL

-----------------------------------------------------------------------------
(* Averaging orders and levels.                                             *)

\* A level is counted for every averaging order with a row.
Budgeted == \A l \in Legs : Cardinality(Tracked(book, l)) <= leg[l].levels

LEMMA FillLevels ==
  ASSUME NEW g \in LegStates, NEW side, NEW level \in BOOLEAN, MaxLevels \in Nat
  PROVE  ApplyFillToLeg(g, side, level).levels \in {g.levels, g.levels + 1}
<1>1. CASE side = "buy"
  <2> DEFINE n == IF level THEN g.levels + 1 ELSE g.levels
  <2>1. ApplyFillToLeg(g, side, level) = [g EXCEPT !.qty = g.qty + 1, !.levels = n]
    BY <1>1 DEF ApplyFillToLeg
  <2>2. n \in {g.levels, g.levels + 1}
    OBVIOUS
  <2> HIDE DEF n
  <2> QED
    BY <2>1, <2>2 DEF LegStates
<1>2. CASE side # "buy"
  <2> DEFINE q == IF g.qty > 0 THEN g.qty - 1 ELSE 0
  <2>1. ApplyFillToLeg(g, side, level) = [g EXCEPT !.qty = q]
    BY <1>2 DEF ApplyFillToLeg
  <2> HIDE DEF q
  <2> QED
    BY <2>1 DEF LegStates
<1> QED
  BY <1>1, <1>2

\* No step takes a level back.
LEMMA LevelsStay ==
  ASSUME BookTyped, BookTyped', [Next]_vars, NEW k \in Legs
  PROVE  leg'[k].levels >= leg[k].levels
<1>0. /\ leg \in [Legs -> LegStates] /\ leg' \in [Legs -> LegStates] /\ MaxLevels \in Nat
      /\ leg[k] \in LegStates /\ leg[k].levels \in Nat /\ \A l \in Legs : leg[l] \in LegStates
  BY ConfigTyped DEF BookTyped, LegStates
<1>1. CASE leg' = leg
  BY <1>0, <1>1
<1>2. ASSUME NEW l \in Legs, NEW side, NEW level \in BOOLEAN,
             leg' = [leg EXCEPT ![l] = ApplyFillToLeg(leg[l], side, level)]
      PROVE  leg'[k].levels >= leg[k].levels
  <2>1. CASE k = l
    <3>1. leg'[k] = ApplyFillToLeg(leg[k], side, level)
      BY <1>0, <1>2, <2>1
    <3> QED
      BY <1>0, <3>1, FillLevels
  <2>2. CASE k # l
    BY <1>0, <1>2, <2>2
  <2> QED
    BY <2>1, <2>2
<1>3. CASE DualEntryPaper
  <2>1. leg'[k] = ApplyFillToLeg(leg[k], "buy", TRUE)
    BY <1>3 DEF DualEntryPaper
  <2>2. TRUE \in BOOLEAN
    OBVIOUS
  <2>3. leg'[k].levels \in {leg[k].levels, leg[k].levels + 1}
    BY <1>0, <2>1, <2>2, FillLevels
  <2> QED
    BY <1>0, <2>3
<1>4. CASE FlattenPaper
  <2>1. leg'[k] = [leg[k] EXCEPT !.qty = 0]
    BY <1>4 DEF FlattenPaper
  <2> QED
    BY <1>0, <2>1 DEF LegStates
<1>5. ASSUME NEW ok \in BOOLEAN, ProcessFill(ok) PROVE leg'[k].levels >= leg[k].levels
  <2>1. PICK i \in UnseenFills :
          leg' = IF ok /\ book[i].meta
                 THEN [leg EXCEPT ![book[i].leg] = ApplyFillToLeg(@, book[i].side, FALSE)]
                 ELSE leg
    BY <1>5, ProcessTouches
  <2>2. book[i].leg \in Legs
    BY BookIds DEF UnseenFills, Orders
  <2>3. \/ leg' = leg
        \/ leg' = [leg EXCEPT ![book[i].leg] = ApplyFillToLeg(leg[book[i].leg], book[i].side, FALSE)]
    BY <2>1
  <2> QED
    BY <1>1, <1>2, <2>2, <2>3
<1>6. ASSUME NEW l \in Legs, TakeProfit(l) PROVE leg'[k].levels >= leg[k].levels
  <2>1. CASE LegTakeProfitPaper(l)
    <3>1. leg'[k] = leg[k] \/ leg'[k] = [leg[k] EXCEPT !.qty = 0]
      BY <1>0, <2>1 DEF LegTakeProfitPaper
    <3> QED
      BY <1>0, <3>1 DEF LegStates
  <2> QED
    BY <1>1, <1>6, <2>1 DEF TakeProfit, LegTakeProfitLive, LegHolds
<1>7. ASSUME NEW l \in Legs, Dca(l) PROVE leg'[k].levels >= leg[k].levels
  <2>1. CASE LegDcaPaper(l)
    BY <1>2, <2>1 DEF LegDcaPaper
  <2>2. CASE LegDcaLive(l)
    <3>1. leg' \in {leg, [leg EXCEPT ![l] = [leg[l] EXCEPT !.levels = leg[l].levels + 1]]}
      BY <2>2, DcaGrows
    <3>2. leg'[k] = leg[k] \/ leg'[k] = [leg[k] EXCEPT !.levels = leg[k].levels + 1]
      BY <1>0, <3>1
    <3> QED
      BY <1>0, <3>2 DEF LegStates
  <2> QED
    BY <1>1, <1>7, <2>1, <2>2 DEF Dca
<1>8. CASE Idle \/ DualEntryLive \/ Sweep \/ LiveSend \/ Reconcile \/ FlattenSell \/ ExchangeFill
  BY <1>1, <1>8, IdleFrame DEF DualEntryLive, Sweep, LiveSend, Reconcile, FlattenSell, ExchangeFill, tradeVars
<1> QED
  BY <1>3, <1>4, <1>5, <1>6, <1>7, <1>8, StepKinds

\* A row comes with its order: no step gives one to an averaging order later.
LEMMA UnsentTracked ==
  ASSUME BookTyped, ModeHolds, Sent, Unsending, NEW l
  PROVE  Tracked(book', l) \subseteq Tracked(book, l)
<1>1. Ids' = Ids /\ \A i \in Ids : SameOrder(i)
  BY UnsentOrders
<1>2. ASSUME NEW i \in Ids, book[i].intent = "dca", book'[i].row # "none" PROVE book[i].row # "none"
  <2>0. book[i] \in Orders
    BY BookIds
  <2>1. CASE UNCHANGED book
    BY <1>2, <2>1
  <2>2. CASE \E ok \in BOOLEAN : ProcessFill(ok)
    <3>1. PICK ok \in BOOLEAN, j \in UnseenFills :
            /\ \A k \in Ids : k # j => book'[k] = book[k]
            /\ book'[j] = [book[j] EXCEPT !.seen = @ + 1,
                                         !.applied = IF ok /\ book[j].meta THEN @ + 1 ELSE @]
      BY <2>2, ProcessTouches
    <3>2. CASE i = j
      BY <1>2, <2>0, <3>1, <3>2 DEF Orders
    <3>3. CASE i # j
      BY <1>2, <3>1, <3>3
    <3> QED
      BY <3>2, <3>3
  <2>3. CASE Sweep
    <3>1. \/ book'[i] = book[i]
          \/ book'[i] = [book[i] EXCEPT !.live = FALSE, !.row = IF @ = "none" THEN @ ELSE "canceled"]
      BY <2>3, SweepTouches
    <3> QED
      BY <1>2, <2>0, <3>1 DEF Orders
  <2>4. CASE Reconcile
    BY <1>2, <2>4 DEF Reconcile, Ready, ModeHolds, Sent
  <2>5. CASE ExchangeFill
    <3>1. PICK j \in Ids :
            /\ \A k \in Ids : k # j => book'[k] = book[k]
            /\ book'[j] = [book[j] EXCEPT !.filled = @ + 1, !.live = book[j].filled + 1 < book[j].size]
      BY <2>5, FillTouches
    <3>2. CASE i = j
      BY <1>2, <2>0, <3>1, <3>2 DEF Orders
    <3>3. CASE i # j
      BY <1>2, <3>1, <3>3
    <3> QED
      BY <3>2, <3>3
  <2> QED
    BY <2>1, <2>2, <2>3, <2>4, <2>5, IdleFrame
       DEF Unsending, DualEntryPaper, FlattenPaper, LegTakeProfitPaper, LegHolds, LegDcaPaper
<1> QED
  BY <1>1, <1>2 DEF Tracked, Ids, SameOrder

LEMMA TrackedCounts ==
  ASSUME NEW b \in Seq(Orders), NEW c \in Seq(Orders), NEW l, NEW side, NEW intent, NEW size, NEW o,
         Grown(b, c, l, side, intent, size, o), intent # "dca", NEW k
  PROVE  Cardinality(Tracked(c, k)) <= Cardinality(Tracked(b, k))
<1>1. Cardinality(Tracked(c, k)) <=
        Cardinality(Tracked(b, k)) + (IF k = l /\ intent = "dca" /\ o = "ok" THEN 1 ELSE 0)
  BY GrownCounts
<1>2. Cardinality(Tracked(b, k)) \in Nat
  BY OrdersFinite
<1> QED
  BY <1>1, <1>2

LEMMA BudgetedInit == Init => Budgeted
<1> SUFFICES ASSUME Init, NEW l \in Legs PROVE Cardinality(Tracked(book, l)) <= leg[l].levels
  BY DEF Budgeted
<1>1. Tracked(book, l) = {} /\ leg[l].levels = 0
  BY DEF Init, Tracked
<1>2. Cardinality(Tracked(book, l)) = 0
  BY <1>1, FS_EmptySet
<1> QED
  BY <1>1, <1>2

LEMMA BudgetedNext ==
  ASSUME BookTyped, BookTyped', ModeHolds, Sent, Budgeted, [Next]_vars
  PROVE  Budgeted'
<1> SUFFICES ASSUME NEW k \in Legs PROVE Cardinality(Tracked(book', k)) <= leg'[k].levels
  BY DEF Budgeted
<1>0. /\ book \in Seq(Orders) /\ book' \in Seq(Orders)
      /\ leg[k].levels \in Nat /\ leg'[k].levels \in Nat
  <2>1. leg[k].levels \in 0..MaxLevels /\ leg'[k].levels \in 0..MaxLevels
    BY DEF BookTyped, LegStates
  <2> QED
    BY <2>1 DEF BookTyped
<1>1. /\ Cardinality(Tracked(book, k)) \in Nat /\ Cardinality(Tracked(book', k)) \in Nat
      /\ IsFiniteSet(Tracked(book, k))
  BY <1>0, OrdersFinite
<1>2. Cardinality(Tracked(book, k)) <= leg[k].levels /\ leg'[k].levels >= leg[k].levels
  BY LevelsStay DEF Budgeted
<1>3. CASE Cardinality(Tracked(book', k)) <= Cardinality(Tracked(book, k))
  BY <1>0, <1>1, <1>2, <1>3
<1>4. CASE Unsending
  BY <1>1, <1>3, <1>4, UnsentTracked, FS_Subset
<1>5. CASE DualEntryLive
  <2>1. PICK b \in Seq(Orders), o1, o2 \in Outcomes :
          /\ Grown(book, b, "yes", "buy", "entry", 1, o1)
          /\ Grown(b, book', "no", "buy", "entry", 1, o2)
    BY <1>5, EntryGrows
  <2>2. Cardinality(Tracked(b, k)) <= Cardinality(Tracked(book, k))
    BY <1>0, <2>1, TrackedCounts
  <2>3. Cardinality(Tracked(book', k)) <= Cardinality(Tracked(b, k))
    BY <1>0, <2>1, TrackedCounts
  <2>4. Cardinality(Tracked(b, k)) \in Nat
    BY OrdersFinite
  <2> QED
    BY <1>1, <1>3, <2>2, <2>3, <2>4
<1>6. CASE FlattenSell
  <2>1. PICK b \in Seq(Orders), o1, o2 \in Outcomes :
          /\ Grown(book, b, "yes", "sell", "basket_exit", leg["yes"].qty, o1)
          /\ Grown(b, book', "no", "sell", "basket_exit", leg["no"].qty, o2)
    BY <1>6, SellGrows
  <2>2. Cardinality(Tracked(b, k)) <= Cardinality(Tracked(book, k))
    BY <1>0, <2>1, TrackedCounts
  <2>3. Cardinality(Tracked(book', k)) <= Cardinality(Tracked(b, k))
    BY <1>0, <2>1, TrackedCounts
  <2>4. Cardinality(Tracked(b, k)) \in Nat
    BY OrdersFinite
  <2> QED
    BY <1>1, <1>3, <2>2, <2>3, <2>4
<1>7. CASE LiveSend
  <2>1. PICK o \in Outcomes : Grown(book, book', "yes", "buy", "entry", 1, o)
    BY <1>7, SendGrows
  <2>2. Cardinality(Tracked(book', k)) <= Cardinality(Tracked(book, k))
    BY <1>0, <2>1, TrackedCounts
  <2> QED
    BY <1>1, <1>3, <2>2
<1>8. ASSUME NEW l \in Legs, LegTakeProfitLive(l) PROVE Cardinality(Tracked(book', k)) <= leg'[k].levels
  <2>1. PICK o \in Outcomes : Grown(book, book', l, "sell", "leg_tp", leg[l].qty, o)
    BY <1>8, TakeGrows
  <2>2. Cardinality(Tracked(book', k)) <= Cardinality(Tracked(book, k))
    BY <1>0, <2>1, TrackedCounts
  <2> QED
    BY <1>1, <1>3, <2>2
<1>9. ASSUME NEW l \in Legs, LegDcaLive(l) PROVE Cardinality(Tracked(book', k)) <= leg'[k].levels
  <2>1. PICK o \in Outcomes :
          /\ Grown(book, book', l, "buy", "dca", 1, o)
          /\ leg' = IF o = "ok" THEN [leg EXCEPT ![l].levels = @ + 1] ELSE leg
    BY <1>9, DcaGrows
  <2>2. Cardinality(Tracked(book', k)) <=
          Cardinality(Tracked(book, k)) + (IF k = l /\ "dca" = "dca" /\ o = "ok" THEN 1 ELSE 0)
    BY <1>0, <2>1, GrownCounts
  <2>3. CASE k = l /\ o = "ok"
    <3>1. leg'[k] = [leg[k] EXCEPT !.levels = leg[k].levels + 1] /\ leg[k] \in LegStates
      BY <2>1, <2>3 DEF BookTyped
    <3>2. leg'[k].levels = leg[k].levels + 1
      BY <3>1 DEF LegStates
    <3> QED
      BY <1>0, <1>1, <1>2, <2>2, <3>2
  <2>4. CASE ~(k = l /\ o = "ok")
    BY <1>1, <1>3, <2>2, <2>4
  <2> QED
    BY <2>3, <2>4
<1> QED
  BY <1>4, <1>5, <1>6, <1>7, <1>8, <1>9, SendKinds

LEMMA BudgetedSpec == Spec => []Budgeted
<1>1. BookTyped /\ BookTyped' /\ ModeHolds /\ Sent /\ Budgeted /\ [Next]_vars => Budgeted'
  BY BudgetedNext
<1> QED
  BY <1>1, TypesSpec, SweptSpec, BudgetedInit, PTL DEF Spec

\* A leg is averaged down at most max_dca_levels_per_leg times, by the orders with a row.
THEOREM TradeLoopDcaBudget == Spec => []DcaBudget
<1>1. BookTyped /\ Budgeted => DcaBudget
  <2> SUFFICES ASSUME BookTyped, Budgeted, NEW l \in Legs
      PROVE  Cardinality({i \in Ids : book[i].leg = l /\ book[i].intent = "dca" /\ book[i].row # "none"})
               <= MaxLevels
    BY DEF DcaBudget
  <2>1. Cardinality(Tracked(book, l)) \in Nat
    BY OrdersFinite DEF BookTyped
  <2>2. leg[l].levels \in 0..MaxLevels /\ MaxLevels \in Nat
    BY ConfigTyped DEF BookTyped, LegStates
  <2>3. Cardinality(Tracked(book, l)) <= MaxLevels
    BY <2>1, <2>2 DEF Budgeted
  <2> QED
    BY <2>3 DEF Tracked, Ids
<1> QED
  BY <1>1, TypesSpec, BudgetedSpec, PTL

-----------------------------------------------------------------------------
(* Units filled and units counted.                                          *)

\* The units of the buys of a leg that have been applied to it.
Applied(l) == UNION {{i} \X (1 .. book[i].applied) : i \in Buys(l)}

BoughtFinite == \A l \in Legs : IsFiniteSet(Bought(l))
Counted == cfg.mode = "live_dual" => \A l \in Legs : leg[l].qty <= Cardinality(Applied(l))

LEMMA FilledUnits ==
  ASSUME NEW I, NEW b
  PROVE  LET U == UNION {{i} \X (1 .. b[i].filled) : i \in I} IN
           /\ \A i, n : <<i, n>> \in U <=> i \in I /\ n \in 1..b[i].filled
           /\ \A u \in U : \E i, n : u = <<i, n>>
<1> DEFINE U == UNION {{i} \X (1 .. b[i].filled) : i \in I}
<1>1. ASSUME NEW i, NEW n, <<i, n>> \in U PROVE i \in I /\ n \in 1..b[i].filled
  <2>1. PICK j \in I : <<i, n>> \in {j} \X (1 .. b[j].filled)
    BY <1>1
  <2> QED
    BY <2>1
<1>2. ASSUME NEW i, NEW n, i \in I, n \in 1..b[i].filled PROVE <<i, n>> \in U
  <2>1. <<i, n>> \in {i} \X (1 .. b[i].filled)
    BY <1>2
  <2> QED
    BY <1>2, <2>1
<1>3. ASSUME NEW u \in U PROVE \E i, n : u = <<i, n>>
  <2>1. PICK j \in I : u \in {j} \X (1 .. b[j].filled)
    BY <1>3
  <2> QED
    BY <2>1
<1> HIDE DEF U
<1>4. (\A i, n : <<i, n>> \in U <=> i \in I /\ n \in 1..b[i].filled) /\ (\A u \in U : \E i, n : u = <<i, n>>)
  BY <1>1, <1>2, <1>3
<1> QED
  BY <1>4 DEF U

LEMMA CountedUnits ==
  ASSUME NEW I, NEW b
  PROVE  LET U == UNION {{i} \X (1 .. b[i].applied) : i \in I} IN
           /\ \A i, n : <<i, n>> \in U <=> i \in I /\ n \in 1..b[i].applied
           /\ \A u \in U : \E i, n : u = <<i, n>>
<1> DEFINE U == UNION {{i} \X (1 .. b[i].applied) : i \in I}
<1>1. ASSUME NEW i, NEW n, <<i, n>> \in U PROVE i \in I /\ n \in 1..b[i].applied
  <2>1. PICK j \in I : <<i, n>> \in {j} \X (1 .. b[j].applied)
    BY <1>1
  <2> QED
    BY <2>1
<1>2. ASSUME NEW i, NEW n, i \in I, n \in 1..b[i].applied PROVE <<i, n>> \in U
  <2>1. <<i, n>> \in {i} \X (1 .. b[i].applied)
    BY <1>2
  <2> QED
    BY <1>2, <2>1
<1>3. ASSUME NEW u \in U PROVE \E i, n : u = <<i, n>>
  <2>1. PICK j \in I : u \in {j} \X (1 .. b[j].applied)
    BY <1>3
  <2> QED
    BY <2>1
<1> HIDE DEF U
<1>4. (\A i, n : <<i, n>> \in U <=> i \in I /\ n \in 1..b[i].applied) /\ (\A u \in U : \E i, n : u = <<i, n>>)
  BY <1>1, <1>2, <1>3
<1> QED
  BY <1>4 DEF U

LEMMA BoughtUnits ==
  ASSUME NEW l
  PROVE  /\ \A i, n : <<i, n>> \in Bought(l) <=> i \in Buys(l) /\ n \in 1..book[i].filled
         /\ \A u \in Bought(l) : \E i, n : u = <<i, n>>
BY FilledUnits DEF Bought

LEMMA AppliedUnits ==
  ASSUME NEW l
  PROVE  /\ \A i, n : <<i, n>> \in Applied(l) <=> i \in Buys(l) /\ n \in 1..book[i].applied
         /\ \A u \in Applied(l) : \E i, n : u = <<i, n>>
BY CountedUnits DEF Applied

\* Only what the exchange has filled is applied.
LEMMA AppliedWasBought ==
  ASSUME BookTyped, Sent, NEW l
  PROVE  Applied(l) \subseteq Bought(l)
<1> SUFFICES ASSUME NEW u \in Applied(l) PROVE u \in Bought(l)
  OBVIOUS
<1>1. PICK i, n : u = <<i, n>>
  BY AppliedUnits
<1>2. i \in Buys(l) /\ n \in 1..book[i].applied
  BY <1>1, AppliedUnits
<1>3. /\ book[i].applied \in Nat /\ book[i].seen \in Nat /\ book[i].filled \in Nat
      /\ book[i].applied <= book[i].seen /\ book[i].seen <= book[i].filled
  BY <1>2, BookIds DEF Buys, Sent, Consistent, Ids
<1>4. n \in 1..book[i].filled
  BY <1>2, <1>3
<1> QED
  BY <1>1, <1>2, <1>4, BoughtUnits

WasBought == \A l \in Legs : Applied(l) \subseteq Bought(l)

LEMMA AllWasBought == BookTyped /\ Sent => WasBought
BY AppliedWasBought DEF WasBought

LEMMA AppliedStaysBought == BookTyped' /\ Sent' => WasBought'
BY AllWasBought, PTL

\* What a step keeps of an order, and of a leg's units.
Keeps(i) == i \in Ids' /\ SameOrder(i) /\ book'[i].filled >= book[i].filled /\ book'[i].applied >= book[i].applied
NewUnfilled == \A i \in Ids' : i \in Ids \/ book'[i].filled = 0

LEMMA GrownKeeps ==
  ASSUME NEW b \in Seq(Orders), NEW c \in Seq(Orders), NEW l, NEW side, NEW intent, NEW size, NEW o,
         Grown(b, c, l, side, intent, size, o)
  PROVE  /\ \A i \in DOMAIN b : i \in DOMAIN c /\ c[i] = b[i]
         /\ \A i \in DOMAIN c : i \in DOMAIN b \/ c[i].filled = 0
<1>1. CASE c = b
  BY <1>1
<1>2. CASE c # b
  BY <1>2 DEF Grown, NewOrder
<1> QED
  BY <1>1, <1>2

LEMMA SameKeeps ==
  ASSUME BookTyped, Ids \subseteq Ids', \A i \in Ids : book'[i] = book[i]
  PROVE  \A i \in Ids : Keeps(i) /\ book'[i].filled = book[i].filled
BY BookIds DEF Keeps, SameOrder

\* Sending touches no order that was sent, and the new one is not filled.
LEMMA SendsKeep ==
  ASSUME BookTyped, [Next]_vars, ~Unsending
  PROVE  (\A i \in Ids : Keeps(i) /\ book'[i].filled = book[i].filled) /\ NewUnfilled
<1>0. book \in Seq(Orders)
  BY DEF BookTyped
<1>1. CASE DualEntryLive
  <2>1. PICK b \in Seq(Orders), o1, o2 \in Outcomes :
          /\ Grown(book, b, "yes", "buy", "entry", 1, o1)
          /\ Grown(b, book', "no", "buy", "entry", 1, o2)
          /\ book' \in Seq(Orders)
    BY <1>1, EntryGrows
  <2>2. /\ \A i \in DOMAIN book : i \in DOMAIN b /\ b[i] = book[i]
        /\ \A i \in DOMAIN b : i \in DOMAIN book \/ b[i].filled = 0
    BY <1>0, <2>1, GrownKeeps
  <2>3. /\ \A i \in DOMAIN b : i \in DOMAIN book' /\ book'[i] = b[i]
        /\ \A i \in DOMAIN book' : i \in DOMAIN b \/ book'[i].filled = 0
    BY <2>1, GrownKeeps
  <2> QED
    BY <2>2, <2>3, SameKeeps DEF NewUnfilled, Ids
<1>2. CASE FlattenSell
  <2>1. PICK b \in Seq(Orders), o1, o2 \in Outcomes :
          /\ Grown(book, b, "yes", "sell", "basket_exit", leg["yes"].qty, o1)
          /\ Grown(b, book', "no", "sell", "basket_exit", leg["no"].qty, o2)
          /\ book' \in Seq(Orders)
    BY <1>2, SellGrows
  <2>2. /\ \A i \in DOMAIN book : i \in DOMAIN b /\ b[i] = book[i]
        /\ \A i \in DOMAIN b : i \in DOMAIN book \/ b[i].filled = 0
    BY <1>0, <2>1, GrownKeeps
  <2>3. /\ \A i \in DOMAIN b : i \in DOMAIN book' /\ book'[i] = b[i]
        /\ \A i \in DOMAIN book' : i \in DOMAIN b \/ book'[i].filled = 0
    BY <2>1, GrownKeeps
  <2> QED
    BY <2>2, <2>3, SameKeeps DEF NewUnfilled, Ids
<1>3. ASSUME NEW l, NEW side, NEW intent, NEW size, NEW o, book' \in Seq(Orders),
             Grown(book, book', l, side, intent, size, o)
      PROVE  (\A i \in Ids : Keeps(i) /\ book'[i].filled = book[i].filled) /\ NewUnfilled
  <2>1. /\ \A i \in DOMAIN book : i \in DOMAIN book' /\ book'[i] = book[i]
        /\ \A i \in DOMAIN book' : i \in DOMAIN book \/ book'[i].filled = 0
    BY <1>0, <1>3, GrownKeeps
  <2> QED
    BY <2>1, SameKeeps DEF NewUnfilled, Ids
<1>4. CASE LiveSend
  BY <1>3, <1>4, SendGrows
<1>5. ASSUME NEW l \in Legs, LegTakeProfitLive(l) \/ LegDcaLive(l)
      PROVE  (\A i \in Ids : Keeps(i) /\ book'[i].filled = book[i].filled) /\ NewUnfilled
  BY <1>3, <1>5, TakeGrows, DcaGrows
<1> QED
  BY <1>1, <1>2, <1>4, <1>5, SendKinds

LEMMA UnsentKeeps ==
  ASSUME BookTyped, Sent, Unsending, NEW i \in Ids
  PROVE  /\ Keeps(i)
         /\ ExchangeFill \/ book'[i].filled = book[i].filled
<1>0. /\ i \in Ids' /\ SameOrder(i)
      /\ book[i] \in Orders /\ book[i].filled \in Nat /\ book[i].seen \in Nat /\ book[i].applied \in Nat
      /\ book[i].applied <= book[i].seen /\ book[i].seen <= book[i].filled
  BY UnsentOrders, BookIds DEF Sent, Consistent, Ids
<1>1. ASSUME book'[i].applied >= book[i].applied, book'[i].filled = book[i].filled
      PROVE  Keeps(i) /\ book'[i].filled = book[i].filled
  BY <1>0, <1>1 DEF Keeps
<1>2. CASE UNCHANGED book
  BY <1>0, <1>1, <1>2
<1>3. CASE \E ok \in BOOLEAN : ProcessFill(ok)
  <2>1. PICK ok \in BOOLEAN, j \in UnseenFills :
          /\ \A k \in Ids : k # j => book'[k] = book[k]
          /\ book'[j] = [book[j] EXCEPT !.seen = @ + 1,
                                       !.applied = IF ok /\ book[j].meta THEN @ + 1 ELSE @]
    BY <1>3, ProcessTouches
  <2>2. CASE i = j
    <3> DEFINE n == book[i].seen + 1
               m == IF ok /\ book[i].meta THEN book[i].applied + 1 ELSE book[i].applied
    <3>1. book'[i] = [book[i] EXCEPT !.seen = n, !.applied = m] /\ m >= book[i].applied
      BY <1>0, <2>1, <2>2
    <3> HIDE DEF n, m
    <3>2. book'[i].applied = m /\ book'[i].filled = book[i].filled
      BY <1>0, <3>1 DEF Orders
    <3> QED
      BY <1>1, <3>1, <3>2
  <2>3. CASE i # j
    BY <1>0, <1>1, <2>1, <2>3
  <2> QED
    BY <2>2, <2>3
<1>4. CASE Sweep
  <2>1. \/ book'[i] = book[i]
        \/ book'[i] = [book[i] EXCEPT !.live = FALSE, !.row = IF @ = "none" THEN @ ELSE "canceled"]
    BY <1>4, SweepTouches
  <2>2. book'[i].applied = book[i].applied /\ book'[i].filled = book[i].filled
    BY <1>0, <2>1 DEF Orders
  <2> QED
    BY <1>0, <1>1, <2>2
<1>5. CASE Reconcile
  <2>1. book'[i] = [book[i] EXCEPT !.seen = book[i].filled, !.applied = book[i].filled,
                                   !.row = IF book[i].live THEN "acked" ELSE @]
    BY <1>5, ReconcileTouches
  <2>2. book'[i].applied = book[i].filled /\ book'[i].filled = book[i].filled
    BY <1>0, <2>1 DEF Orders
  <2> QED
    BY <1>0, <1>1, <2>2
<1>6. CASE ExchangeFill
  <2>1. PICK j \in Ids :
          /\ \A k \in Ids : k # j => book'[k] = book[k]
          /\ book'[j] = [book[j] EXCEPT !.filled = @ + 1, !.live = book[j].filled + 1 < book[j].size]
    BY <1>6, FillTouches
  <2>2. CASE i = j
    <3>1. book'[i].applied = book[i].applied /\ book'[i].filled = book[i].filled + 1
      BY <1>0, <2>1, <2>2 DEF Orders
    <3> QED
      BY <1>0, <1>6, <3>1 DEF Keeps
  <2>3. CASE i # j
    BY <1>0, <1>6, <2>1, <2>3 DEF Keeps
  <2> QED
    BY <2>2, <2>3
<1> QED
  BY <1>2, <1>3, <1>4, <1>5, <1>6, IdleFrame
     DEF Unsending, DualEntryPaper, FlattenPaper, LegTakeProfitPaper, LegHolds, LegDcaPaper

LEMMA OrdersKept ==
  ASSUME BookTyped, Sent, [Next]_vars
  PROVE  (\A i \in Ids : Keeps(i)) /\ NewUnfilled
<1>1. CASE Unsending
  BY <1>1, UnsentKeeps, UnsentOrders DEF NewUnfilled
<1>2. CASE ~Unsending
  BY <1>2, SendsKeep
<1> QED
  BY <1>1, <1>2

LEMMA FilledKept ==
  ASSUME BookTyped, Sent, [Next]_vars, ~ExchangeFill
  PROVE  \A i \in Ids : book'[i].filled = book[i].filled
<1>1. CASE Unsending
  BY <1>1, UnsentKeeps
<1>2. CASE ~Unsending
  BY <1>2, SendsKeep
<1> QED
  BY <1>1, <1>2

LEMMA BuysKept ==
  ASSUME BookTyped, Sent, [Next]_vars, NEW l, NEW i \in Ids
  PROVE  i \in Buys(l)' <=> i \in Buys(l)
BY OrdersKept DEF Keeps, SameOrder, Buys

\* The units filled stay finitely many: one more at a time.
LEMMA BoughtFiniteNext ==
  ASSUME BookTyped, Sent, BoughtFinite, [Next]_vars
  PROVE  BoughtFinite'
<1> SUFFICES ASSUME NEW l \in Legs PROVE IsFiniteSet(Bought(l)')
  BY DEF BoughtFinite
<1>1. IsFiniteSet(Bought(l))
  BY DEF BoughtFinite
<1>2. ASSUME NEW i, NEW n, <<i, n>> \in Bought(l)'
      PROVE  i \in Ids /\ i \in Buys(l) /\ n \in 1..book'[i].filled
  <2>1. i \in Buys(l)' /\ n \in 1..book'[i].filled
    BY <1>2, FilledUnits DEF Bought
  <2>2. i \in Ids'
    BY <2>1 DEF Buys
  <2>3. i \in Ids
    BY <2>1, <2>2, OrdersKept DEF NewUnfilled
  <2> QED
    BY <2>1, <2>3, BuysKept
<1>3. \A u \in Bought(l)' : \E i, n : u = <<i, n>>
  BY FilledUnits DEF Bought
<1>4. CASE ~ExchangeFill
  <2>1. ASSUME NEW u \in Bought(l)' PROVE u \in Bought(l)
    <3>1. PICK i, n : u = <<i, n>>
      BY <1>3
    <3>2. i \in Ids /\ i \in Buys(l) /\ n \in 1..book'[i].filled
      BY <1>2, <2>1, <3>1
    <3>3. n \in 1..book[i].filled
      BY <1>4, <3>2, FilledKept
    <3> QED
      BY <3>1, <3>2, <3>3, BoughtUnits
  <2>2. Bought(l)' \in SUBSET Bought(l)
    BY <2>1
  <2> QED
    BY <1>1, <2>2, FS_Subset
<1>5. CASE ExchangeFill
  <2>1. PICK j \in Ids :
          /\ \A k \in Ids : k # j => book'[k] = book[k]
          /\ book'[j] = [book[j] EXCEPT !.filled = @ + 1, !.live = book[j].filled + 1 < book[j].size]
    BY <1>5, FillTouches
  <2>2. book[j].filled \in Nat /\ book'[j].filled = book[j].filled + 1
    BY <2>1, BookIds DEF Orders
  <2> DEFINE x == <<j, book[j].filled + 1>>
  <2>3. ASSUME NEW u \in Bought(l)' PROVE u \in Bought(l) \cup {x}
    <3>1. PICK i, n : u = <<i, n>>
      BY <1>3
    <3>2. i \in Ids /\ i \in Buys(l) /\ n \in 1..book'[i].filled
      BY <1>2, <2>3, <3>1
    <3>3. CASE i = j /\ n = book[j].filled + 1
      BY <3>1, <3>3
    <3>4. CASE ~(i = j /\ n = book[j].filled + 1)
      <4>1. n \in 1..book[i].filled
        <5>1. CASE i = j
          BY <2>2, <3>2, <3>4, <5>1
        <5>2. CASE i # j
          BY <2>1, <3>2, <5>2
        <5> QED
          BY <5>1, <5>2
      <4> QED
        BY <3>1, <3>2, <4>1, BoughtUnits
    <3> QED
      BY <3>3, <3>4
  <2>4. Bought(l)' \in SUBSET (Bought(l) \cup {x})
    BY <2>3
  <2>5. IsFiniteSet(Bought(l) \cup {x})
    BY <1>1, FS_AddElement
  <2> QED
    BY <2>4, <2>5, FS_Subset
<1> QED
  BY <1>4, <1>5

LEMMA PrimedUnits ==
  ASSUME NEW l
  PROVE  \A i, n : <<i, n>> \in Applied(l)' <=> i \in Buys(l)' /\ n \in 1..book'[i].applied
BY CountedUnits DEF Applied

\* No unit that was applied is taken back.
LEMMA AppliedGrow ==
  ASSUME BookTyped, BookTyped', Sent, [Next]_vars, NEW l
  PROVE  Applied(l) \subseteq Applied(l)'
<1> SUFFICES ASSUME NEW u \in Applied(l) PROVE u \in Applied(l)'
  OBVIOUS
<1>1. PICK i, n : u = <<i, n>>
  BY AppliedUnits
<1>2. i \in Buys(l) /\ n \in 1..book[i].applied
  BY <1>1, AppliedUnits
<1>3. i \in Ids
  BY <1>2 DEF Buys
<1>4. /\ i \in Ids' /\ book[i].applied \in Nat /\ book'[i].applied \in Nat
      /\ book'[i].applied >= book[i].applied
  <2>1. i \in Ids' /\ book'[i].applied >= book[i].applied
    BY <1>3, OrdersKept DEF Keeps
  <2>2. book'[i] \in Orders
    BY <2>1 DEF BookTyped, Ids
  <2> QED
    BY <1>3, <2>1, <2>2, BookIds DEF Orders
<1>5. i \in Buys(l)' /\ n \in 1..book'[i].applied
  BY <1>2, <1>3, <1>4, BuysKept
<1> QED
  BY <1>1, <1>5, PrimedUnits

\* Only a fill of its buys adds to a leg of a live basket.
LEMMA LegsFall ==
  ASSUME BookTyped, cfg.mode = "live_dual", [Next]_vars, NEW k \in Legs,
         ~\E ok \in BOOLEAN : ProcessFill(ok)
  PROVE  leg'[k].qty <= leg[k].qty
<1>0. leg \in [Legs -> LegStates] /\ leg[k] \in LegStates /\ leg[k].qty \in Nat
  BY DEF BookTyped, LegStates
<1>1. CASE leg' = leg
  BY <1>0, <1>1
<1>2. ASSUME NEW l \in Legs, TakeProfit(l) \/ Dca(l) PROVE leg'[k].qty <= leg[k].qty
  <2>1. CASE LegDcaLive(l)
    <3>1. leg' \in {leg, [leg EXCEPT ![l] = [leg[l] EXCEPT !.levels = leg[l].levels + 1]]}
      BY <2>1, DcaGrows
    <3>2. leg'[k] = leg[k] \/ leg'[k] = [leg[k] EXCEPT !.levels = leg[k].levels + 1]
      BY <1>0, <3>1
    <3> QED
      BY <1>0, <3>2 DEF LegStates
  <2>2. CASE ~LegDcaLive(l)
    BY <1>1, <1>2, <2>2 DEF TakeProfit, Dca, LegTakeProfitPaper, LegTakeProfitLive, LegHolds, LegDcaPaper
  <2> QED
    BY <2>1, <2>2
<1>3. CASE Idle \/ DualEntryLive \/ Sweep \/ LiveSend \/ Reconcile \/ FlattenSell \/ ExchangeFill
  BY <1>1, <1>3, IdleFrame DEF DualEntryLive, Sweep, LiveSend, Reconcile, FlattenSell, ExchangeFill, tradeVars
<1>4. CASE DualEntryPaper \/ FlattenPaper
  BY <1>4 DEF DualEntryPaper, FlattenPaper
<1> QED
  BY <1>2, <1>3, <1>4, StepKinds

\* A fill that adds a unit to the leg is a unit that was not applied before.
LEMMA FillsAdd ==
  ASSUME BookTyped, BookTyped', Sent, NEW ok \in BOOLEAN, ProcessFill(ok), NEW k \in Legs,
         leg'[k].qty > leg[k].qty
  PROVE  /\ leg'[k].qty = leg[k].qty + 1
         /\ \E x : x \in Applied(k)' /\ x \notin Applied(k)
<1>1. PICK i \in UnseenFills :
        /\ \A j \in Ids : j # i => book'[j] = book[j]
        /\ book'[i] = [book[i] EXCEPT !.seen = @ + 1,
                                     !.applied = IF ok /\ book[i].meta THEN @ + 1 ELSE @]
        /\ leg' = IF ok /\ book[i].meta
                  THEN [leg EXCEPT ![book[i].leg] = ApplyFillToLeg(@, book[i].side, FALSE)]
                  ELSE leg
  BY ProcessTouches
<1>2. i \in Ids /\ book[i] \in Orders /\ book[i].applied \in Nat /\ book[i].leg \in Legs
  BY BookIds DEF UnseenFills, Orders
<1>3. leg \in [Legs -> LegStates] /\ leg[k] \in LegStates /\ leg[k].qty \in Nat /\ MaxLevels \in Nat
  BY ConfigTyped DEF BookTyped, LegStates
<1>4. ok /\ book[i].meta /\ book[i].leg = k
  <2>1. leg'[k] # leg[k]
    BY <1>3
  <2>2. ok /\ book[i].meta
    BY <1>1, <2>1
  <2>3. leg' = [leg EXCEPT ![book[i].leg] = ApplyFillToLeg(leg[book[i].leg], book[i].side, FALSE)]
    BY <1>1, <2>2
  <2> QED
    BY <1>2, <1>3, <2>1, <2>2, <2>3
<1>5. leg'[k] = ApplyFillToLeg(leg[k], book[i].side, FALSE)
  BY <1>1, <1>3, <1>4
<1>6. leg'[k].qty = IF book[i].side = "buy" THEN leg[k].qty + 1 ELSE IF leg[k].qty > 0 THEN leg[k].qty - 1 ELSE 0
  <2> DEFINE side == book[i].side
  <2> HIDE DEF side
  <2>1. ApplyFillToLeg(leg[k], side, FALSE).qty =
          IF side = "buy" THEN leg[k].qty + 1 ELSE IF leg[k].qty > 0 THEN leg[k].qty - 1 ELSE 0
    BY <1>3, FillTyped
  <2>2. leg'[k].qty = ApplyFillToLeg(leg[k], side, FALSE).qty
    BY <1>5 DEF side
  <2> QED
    BY <2>1, <2>2 DEF side
<1>7. book[i].side = "buy" /\ leg'[k].qty = leg[k].qty + 1
  BY <1>3, <1>6
<1>8. i \in Buys(k)
  BY <1>2, <1>4, <1>7 DEF Buys
<1>9. book'[i].applied = book[i].applied + 1 /\ i \in Buys(k)'
  <2>1. Ids' = Ids
    BY ProcessTouches, SameIds
  <2>2. /\ book'[i].applied = book[i].applied + 1
        /\ book'[i].leg = book[i].leg /\ book'[i].side = book[i].side
    BY <1>1, <1>2, <1>4 DEF Orders
  <2> QED
    BY <1>2, <1>8, <2>1, <2>2 DEF Buys
<1>10. <<i, book[i].applied + 1>> \in Applied(k)'
  BY <1>2, <1>9, PrimedUnits
<1>11. <<i, book[i].applied + 1>> \notin Applied(k)
  BY <1>2, AppliedUnits
<1> QED
  BY <1>7, <1>10, <1>11

LEMMA CountedNext ==
  ASSUME BookTyped, BookTyped', Sent, Sent', BoughtFinite, BoughtFinite', Counted, [Next]_vars
  PROVE  Counted'
<1>1. cfg' = cfg
  BY DEF Next, Loop, vars, WriteState, DualEntryPaper, DualEntryLive, ProcessFill, FillsDone, Gate, Sweep,
         StepEntry, StepExit, LiveEntry, LiveSend, Reconcile, ReconcileError, FlattenPaper, FlattenLive,
         FlattenSell, Trade, TakeProfit, Dca, Settle, LoopEnd, Fail, ExchangeFill
<1> SUFFICES ASSUME cfg.mode = "live_dual", NEW k \in Legs
    PROVE  leg'[k].qty <= Cardinality(Applied(k)')
  BY <1>1 DEF Counted
<1>2. Applied(k) \subseteq Applied(k)'
  BY AppliedGrow
<1>3. IsFiniteSet(Applied(k)) /\ IsFiniteSet(Applied(k)')
  <2>1. IsFiniteSet(Bought(k)) /\ IsFiniteSet(Bought(k)')
    BY DEF BoughtFinite
  <2>2. Applied(k) \subseteq Bought(k)
    BY AppliedWasBought
  <2>3. Applied(k)' \subseteq Bought(k)'
    BY AppliedStaysBought DEF WasBought
  <2> QED
    BY <2>1, <2>2, <2>3, FS_Subset
<1>4. /\ Cardinality(Applied(k)) \in Nat /\ Cardinality(Applied(k)') \in Nat
      /\ Cardinality(Applied(k)) <= Cardinality(Applied(k)')
  BY <1>2, <1>3, FS_Subset, FS_CardinalityType
<1>5. leg[k].qty <= Cardinality(Applied(k)) /\ leg[k].qty \in Nat /\ leg'[k].qty \in Nat
  <2>1. leg[k].qty \in Nat /\ leg'[k].qty \in Nat
    BY DEF BookTyped, LegStates
  <2> QED
    BY <2>1 DEF Counted
<1>6. CASE leg'[k].qty <= leg[k].qty
  BY <1>4, <1>5, <1>6
<1>7. CASE leg'[k].qty > leg[k].qty
  <2>1. PICK ok \in BOOLEAN : ProcessFill(ok)
    BY <1>5, <1>7, LegsFall
  <2>2. PICK x : x \in Applied(k)' /\ x \notin Applied(k)
    BY <1>7, <2>1, FillsAdd
  <2>3. leg'[k].qty = leg[k].qty + 1
    BY <1>7, <2>1, FillsAdd
  <2>4. Applied(k) \cup {x} \in SUBSET Applied(k)'
    BY <1>2, <2>2
  <2>5. Cardinality(Applied(k) \cup {x}) = Cardinality(Applied(k)) + 1
    BY <1>3, <2>2, FS_AddElement
  <2>6. Cardinality(Applied(k) \cup {x}) <= Cardinality(Applied(k)')
    BY <1>3, <2>4, FS_Subset
  <2> QED
    BY <1>4, <1>5, <2>3, <2>5, <2>6
<1> QED
  BY <1>5, <1>6, <1>7

LEMMA CountedInit == Init => BoughtFinite /\ Counted
<1> SUFFICES ASSUME Init, NEW l \in Legs
    PROVE  IsFiniteSet(Bought(l)) /\ leg[l].qty <= Cardinality(Applied(l))
  BY DEF BoughtFinite, Counted
<1>1. Bought(l) = {} /\ Applied(l) = {} /\ leg[l].qty = 0
  BY DEF Init, Bought, Applied, Buys, Ids
<1>2. IsFiniteSet(Bought(l)) /\ Cardinality(Applied(l)) = 0
  BY <1>1, FS_EmptySet
<1> QED
  BY <1>1, <1>2

LEMMA CountedSpec == Spec => [](BoughtFinite /\ Counted)
<1>1. /\ BookTyped /\ BookTyped' /\ Sent /\ Sent' /\ BoughtFinite /\ Counted /\ [Next]_vars
      => BoughtFinite' /\ Counted'
  BY BoughtFiniteNext, CountedNext
<1> QED
  BY <1>1, TypesSpec, SweptSpec, CountedInit, PTL DEF Spec

\* A live leg never holds more than the exchange has filled of its buys, although every
\* poll lists all fills again and may break off anywhere.
THEOREM TradeLoopFillsCountOnce == Spec => []FillsCountOnce
<1>1. BookTyped /\ Sent /\ BoughtFinite /\ Counted => FillsCountOnce
  <2> SUFFICES ASSUME BookTyped, Sent, BoughtFinite, Counted, cfg.mode = "live_dual", NEW l \in Legs
      PROVE  leg[l].qty <= Cardinality(Bought(l))
    BY DEF FillsCountOnce
  <2>1. IsFiniteSet(Bought(l)) /\ Applied(l) \in SUBSET Bought(l)
    BY AppliedWasBought DEF BoughtFinite
  <2>2. Cardinality(Applied(l)) <= Cardinality(Bought(l)) /\ Cardinality(Applied(l)) \in Nat
        /\ Cardinality(Bought(l)) \in Nat
    BY <2>1, FS_Subset, FS_CardinalityType
  <2>3. leg[l].qty <= Cardinality(Applied(l)) /\ leg[l].qty \in Nat
    BY DEF Counted, BookTyped, LegStates
  <2> QED
    BY <2>2, <2>3
<1> QED
  BY <1>1, TypesSpec, SweptSpec, CountedSpec, PTL
=============================================================================
