------------------------- MODULE OnceTriggerProofs -------------------------
(***************************************************************************)
(* Proofs about OnceTrigger, for any number of windows and attempts: who   *)
(* holds a deferred once lock, and that the keys of the fired trigger      *)
(* bound the entries of a market, whatever updates of the context get      *)
(* lost.                                                                   *)
(***************************************************************************)
EXTENDS OnceTrigger, FiniteSetTheorems, TLAPS

Pcs == {"idle", "pass", "boundary", "sell", "persist", "publish", "exec", "apply", "store", "route"}
FastPcs == {"pass", "boundary", "sell", "persist", "publish"}
Windows == 0 .. NMarkets
Sides == 0 .. NOutcomes
Locks == [m : Windows, o : Sides, st : {"none", "pending", "expired", "released", "consumed"}]
Orders == [m : Windows, o : Sides, st : {"none", "open", "filled", "stopped", "sold"}]
Outputs == [pass : BOOLEAN, m : Windows, o : Sides, res : {"none", "done", "order", "retry"}]
Hooks == [kind : {"idle", "fill", "reentry", "writefill", "writere", "cachefill", "cachere"},
          by : Triggers]

\* The contexts of a run with a attempts.
Within(a) == {c \in Contexts : c.gen <= a /\ c.att <= a}

Typed ==
  /\ conf \in Configs /\ now \in Markets /\ open \in BOOLEAN
  /\ spec \in Windows /\ target \in Windows /\ dirty \in BOOLEAN /\ pc \in Pcs
  /\ db \in Within(conf.attempts) /\ cache \in Within(conf.attempts)
  /\ work \in Within(conf.attempts) /\ hctx \in Within(conf.attempts)
  /\ queue \subseteq Steps /\ cur \in Steps /\ keys \subseteq Triggers
  /\ onceKeys \subseteq Windows \X (0 .. conf.attempts)
  /\ lock \in [Triggers -> Locks] /\ ord \in [Triggers -> Orders]
  /\ late \subseteq Triggers /\ consumed \in Seq(Markets)
  /\ out \in Outputs /\ hook \in Hooks /\ slipped \subseteq Triggers /\ cut \subseteq Triggers

\* What a step brings along fits the place the loop is at.
Fitting ==
  /\ cur.role = "buy" => cur.m \in Markets
  /\ \A s \in queue : s.role = "buy" => s.m \in Markets
  /\ out.pass => out.m \in Markets /\ pc \in {"store", "route"} /\ cur.role = "trigger"
  /\ pc \in FastPcs => target \in Markets
  /\ pc = "apply" => cur.role = "buy"
  /\ out.res = "retry" => cur.role = "buy" /\ pc \in {"apply", "store", "route"}
  /\ hook.kind \in {"writere", "cachere"} => hctx.gen >= 1

---------------------------------------------------------------------------
(* What the operators on contexts, keys and locks return.                  *)

LEMMA Constants ==
  ASSUME conf \in Configs
  PROVE  /\ NMarkets \in Nat \ {0} /\ NOutcomes \in Nat \ {0} /\ MaxAttempts \in Nat
         /\ \A o \in 1 .. conf.outcomes : o \in Sides
         /\ NoOutcome \in Sides
         /\ conf.markets \in 1 .. NMarkets /\ conf.attempts \in 0 .. MaxAttempts
         /\ conf.scope \in {"market", "run"} /\ conf.deferred \in BOOLEAN
         /\ conf.confirm \in BOOLEAN
         /\ Markets \subseteq Windows /\ NoMarket \in Windows /\ NoMarket \notin Markets
BY OnceAssumption DEF Configuration, Markets, Windows, NoMarket, Sides, NoOutcome

LEMMA FreshWithin == ASSUME conf \in Configs PROVE Fresh \in Within(conf.attempts)
BY Constants DEF Fresh, Within, Contexts, Gens, NoMarket, Markets

LEMMA GenerationWithin ==
  ASSUME conf \in Configs, NEW c \in Within(conf.attempts), NEW g \in 0 .. conf.attempts,
         NEW m \in Windows
  PROVE  /\ [c EXCEPT !.att = g, !.am = m, !.gen = g] \in Within(conf.attempts)
         /\ [c EXCEPT !.att = g, !.am = m, !.gen = g].gen = g
         /\ [c EXCEPT !.gen = 0, !.slug = m] \in Within(conf.attempts)
<1>0. conf.attempts \in 0 .. MaxAttempts /\ MaxAttempts \in Nat
  BY Constants
<1>1. g \in Gens /\ 0 \in Gens /\ g <= conf.attempts /\ 0 <= conf.attempts
  BY <1>0 DEF Gens
<1>2. c \in Contexts /\ m \in 0 .. NMarkets /\ c.gen <= conf.attempts /\ c.att <= conf.attempts
  BY DEF Within, Windows
<1> DEFINE d == [c EXCEPT !.att = g, !.am = m, !.gen = g]
           e == [c EXCEPT !.gen = 0, !.slug = m]
<1>3. d \in Contexts /\ d.gen = g /\ d.att = g
  BY <1>1, <1>2 DEF Contexts
<1>4. e \in Contexts /\ e.gen = 0 /\ e.att = c.att
  BY <1>1, <1>2 DEF Contexts
<1> HIDE DEF d, e
<1>5. d \in Within(conf.attempts) /\ e \in Within(conf.attempts)
  BY <1>1, <1>2, <1>3, <1>4 DEF Within
<1> QED
  BY <1>3, <1>5 DEF d, e

LEMMA ContextOps ==
  ASSUME conf \in Configs, NEW c \in Within(conf.attempts), NEW m \in Windows
  PROVE  /\ ScopeOf(m) \in Windows
         /\ ClearOnce(c) \in Within(conf.attempts)
         /\ ClearRuntime(c) \in Within(conf.attempts)
         /\ MarkFired(c, m) \in Within(conf.attempts)
         /\ SyncScope(c, m) \in Within(conf.attempts)
         /\ Rollover(c, m) \in Within(conf.attempts)
<1> USE Constants
<1>1. ScopeOf(m) \in Windows
  BY DEF ScopeOf
<1>2. \A d \in Within(conf.attempts) : ClearOnce(d) \in Within(conf.attempts)
  BY DEF ClearOnce, Within, Contexts, Windows
<1>3. ClearRuntime(c) \in Within(conf.attempts)
  BY DEF ClearRuntime, Within, Contexts
<1>4. MarkFired(c, m) \in Within(conf.attempts)
  BY <1>1 DEF MarkFired, Within, Contexts, Windows
<1>5. SyncScope(c, m) \in Within(conf.attempts)
  BY <1>2 DEF SyncScope
<1>6. Rollover(c, m) \in Within(conf.attempts)
  <2>1. ClearOnce(ClearRuntime(c)) \in Within(conf.attempts)
    BY <1>2, <1>3
  <2>2. 0 \in 0 .. conf.attempts
    OBVIOUS
  <2> QED
    BY <2>1, <2>2, GenerationWithin DEF Rollover
<1> QED
  BY <1>1, <1>2, <1>3, <1>4, <1>5, <1>6

LEMMA ReconciledWithin ==
  ASSUME conf \in Configs, NEW c \in Within(conf.attempts), consumed \in Seq(Markets)
  PROVE  Reconciled(c) \in Within(conf.attempts)
<1>1. CASE \A i \in DOMAIN consumed : FiredFor(c, consumed[i])
  BY <1>1 DEF Reconciled
<1>2. CASE ~\A i \in DOMAIN consumed : FiredFor(c, consumed[i])
  <2>1. consumed[Len(consumed)] \in Windows
    BY <1>2, Constants
  <2> QED
    BY <1>2, <2>1, ContextOps DEF Reconciled
<1> QED
  BY <1>1, <1>2

LEMMA ReenteredWithin ==
  ASSUME conf \in Configs, NEW c \in Within(conf.attempts), NEW m \in Windows,
         ~(AttemptsUsed(c, m) >= conf.attempts)
  PROVE  Reentered(c, m) \in Within(conf.attempts) /\ Reentered(c, m).gen >= 1
<1> USE Constants
<1>1. AttemptsUsed(c, m) + 1 \in 1 .. conf.attempts
  BY DEF AttemptsUsed, Within, Contexts, Gens
<1>2. ClearRuntime(ClearOnce(c)) \in Within(conf.attempts)
  BY DEF ClearOnce, ClearRuntime, Within, Contexts, Windows
<1> DEFINE n == AttemptsUsed(c, m) + 1
           d == ClearRuntime(ClearOnce(c))
<1>3. n \in 0 .. conf.attempts /\ n >= 1
  BY <1>1
<1>4. Reentered(c, m) = [d EXCEPT !.att = n, !.am = m, !.gen = n]
  BY DEF Reentered
<1>5. d \in Within(conf.attempts)
  BY <1>2
<1> HIDE DEF n, d
<1>6. /\ [d EXCEPT !.att = n, !.am = m, !.gen = n] \in Within(conf.attempts)
      /\ [d EXCEPT !.att = n, !.am = m, !.gen = n].gen = n
  BY <1>3, <1>5, GenerationWithin
<1> QED
  BY <1>3, <1>4, <1>6

LEMMA KeysAreTriggers ==
  ASSUME conf \in Configs
  PROVE  /\ Seed \in Triggers
         /\ \A m \in Windows : \A c \in Within(conf.attempts) : WsKey(m, c.gen) \in Triggers
         /\ \A c \in Within(conf.attempts) : c.gen >= 1 => <<"re", 0, c.gen>> \in Triggers
<1> USE Constants
<1>1. \A m \in Windows : ScopeOf(m) \in Windows
  BY DEF ScopeOf
<1>2. \A c \in Within(conf.attempts) : c.gen \in Gens
  BY DEF Within, Contexts
<1> QED
  BY <1>1, <1>2 DEF Triggers, Seed, WsKey, Windows, Gens

LEMMA StepTypes ==
  ASSUME conf \in Configs, NEW t \in Triggers, NEW m \in Windows
  PROVE  /\ TriggerStep(t, m) \in Steps /\ TriggerStep(t, m).role = "trigger"
         /\ TriggerStep(t, m).by = t /\ TriggerStep(t, m).m = m /\ ~TriggerStep(t, m).held
BY Constants DEF TriggerStep, Steps, Windows, Sides

LEMMA BuyTypes ==
  ASSUME NEW t \in Triggers, NEW m \in Windows, NEW o \in Sides, NEW held \in BOOLEAN
  PROVE  /\ BuyStep(t, m, o, held) \in Steps /\ BuyStep(t, m, o, held).role = "buy"
         /\ BuyStep(t, m, o, held).m = m /\ BuyStep(t, m, o, held).by = t
         /\ BuyStep(t, m, o, held).o = o /\ BuyStep(t, m, o, held).held = held
BY DEF BuyStep, Steps, Windows, Sides

LEMMA SetLocksTyped ==
  ASSUME lock \in [Triggers -> Locks], NEW T,
         NEW st \in {"none", "pending", "expired", "released", "consumed"}
  PROVE  /\ SetLocks(T, st) \in [Triggers -> Locks]
         /\ \A t \in Triggers : /\ SetLocks(T, st)[t].m = lock[t].m /\ SetLocks(T, st)[t].o = lock[t].o
                                /\ SetLocks(T, st)[t].st = IF t \in T THEN st ELSE lock[t].st
BY DEF SetLocks, Locks

\* Whose key names market m and outcome o.
LEMMA PendingMeans ==
  ASSUME lock \in [Triggers -> Locks], NEW m, NEW o, NEW t \in Triggers
  PROVE  t \in PendingFor(m, o) <=> lock[t].m = m /\ lock[t].o = o /\ lock[t].st = "pending"
BY DEF PendingFor, Locks

\* Trigger steps are enqueued under their key.
LEMMA EnqueueTyped ==
  ASSUME Typed, NEW t \in Triggers, NEW m \in Windows, EnqueueTrigger(t, m)
  PROVE  /\ queue' \subseteq Steps /\ keys' \subseteq Triggers
         /\ \A s \in queue' : s.role = "buy" => s \in queue
<1>1. TriggerStep(t, m) \in Steps /\ TriggerStep(t, m).role # "buy"
  BY StepTypes DEF Typed
<1> QED
  BY <1>1 DEF EnqueueTrigger, stepVars, Typed

LEMMA IdleTyped ==
  ASSUME conf \in Configs, Idle
  PROVE  /\ pc' = "idle" /\ work' \in Within(conf.attempts) /\ dirty' \in BOOLEAN /\ target' \in Windows
         /\ cur' \in Steps /\ cur'.role = "trigger" /\ out' \in Outputs /\ ~out'.pass
         /\ out'.res = "none"
<1>1. SeedStep \in Steps /\ SeedStep.role = "trigger"
  BY Constants, KeysAreTriggers, StepTypes DEF SeedStep
<1>2. NoOutput \in Outputs /\ ~NoOutput.pass /\ NoOutput.res = "none"
  BY Constants DEF NoOutput, Outputs
<1> QED
  BY <1>1, <1>2, FreshWithin, Constants DEF Idle

LEMMA SpecialWithin ==
  ASSUME conf \in Configs, NEW c \in Within(conf.attempts)
  PROVE  /\ [c EXCEPT !.blk = TRUE] \in Within(conf.attempts)
         /\ \A m \in Windows : [c EXCEPT !.prev = "none", !.pend = FALSE, !.slug = m] \in Within(conf.attempts)
         /\ \A p \in {"in", "out"} : \A b \in BOOLEAN :
              /\ [c EXCEPT !.prev = p, !.pend = b] \in Within(conf.attempts)
              /\ [c EXCEPT !.mark = TRUE, !.prev = p, !.pend = @ \/ b] \in Within(conf.attempts)
         /\ [c EXCEPT !.mark = TRUE] \in Within(conf.attempts)
         /\ \A m \in Markets : [c EXCEPT !.sold = @ \cup {m}] \in Within(conf.attempts)
BY Constants DEF Within, Contexts, Windows

---------------------------------------------------------------------------
(* Types, step by step.                                                    *)

LEMMA TypedInit == Init => Typed /\ Fitting
<1> SUFFICES ASSUME Init PROVE Typed /\ Fitting
  OBVIOUS
<1>1. conf \in Configs /\ 1 \in Markets
  BY Constants DEF Init, Markets
<1>2. /\ SeedStep \in Steps /\ SeedStep.role = "trigger" /\ Seed \in Triggers
      /\ Fresh \in Within(conf.attempts) /\ NoMarket \in Windows /\ NoOutcome \in Sides
  BY <1>1, Constants, KeysAreTriggers, StepTypes, FreshWithin DEF SeedStep
<1>3. /\ NoOutput \in Outputs /\ ~NoOutput.pass /\ NoOutput.res = "none" /\ NoHook \in Hooks /\ NoHook.kind = "idle"
  BY <1>2 DEF NoOutput, Outputs, NoHook, Hooks
<1>4. /\ [t \in Triggers |-> NoLock] \in [Triggers -> Locks]
      /\ [t \in Triggers |-> NoOrder] \in [Triggers -> Orders]
  BY <1>2 DEF Locks, Orders, NoLock, NoOrder
<1>5. <<>> \in Seq(Markets)
  OBVIOUS
<1>6. /\ conf \in Configs /\ now = 1 /\ open = TRUE /\ db = Fresh /\ cache = Fresh /\ spec = NoMarket
      /\ pc = "idle" /\ work = Fresh /\ dirty = FALSE /\ target = NoMarket
      /\ cur = SeedStep /\ out = NoOutput /\ slipped = {} /\ cut = {}
      /\ queue = {SeedStep} /\ keys = {Seed} /\ onceKeys = {} /\ late = {}
      /\ consumed = <<>> /\ hook = NoHook /\ hctx = Fresh
      /\ lock \in [Triggers -> Locks] /\ ord \in [Triggers -> Orders]
  BY <1>4 DEF Init
<1>7. Typed
  BY <1>1, <1>2, <1>3, <1>5, <1>6 DEF Typed, Pcs
<1>8. Fitting
  BY <1>2, <1>3, <1>6 DEF Fitting, FastPcs
<1> QED
  BY <1>7, <1>8

LEMMA ClockTyped ==
  ASSUME Typed, Fitting, CloseWindow \/ NextMarket \/ \E t \in Triggers : LockTtl(t)
  PROVE  Typed' /\ Fitting'
<1>1. now' \in Markets /\ open' \in BOOLEAN /\ late' \subseteq Triggers
  <2>1. CASE CloseWindow
    BY <2>1 DEF Typed, CloseWindow, onceVars
  <2>2. CASE NextMarket
    BY <2>2, Constants DEF Typed, NextMarket, onceVars, Markets
  <2>3. CASE \E t \in Triggers : LockTtl(t)
    BY <2>3 DEF Typed, LockTtl, clock
  <2> QED
    BY <2>1, <2>2, <2>3
<1> QED
  BY <1>1 DEF Typed, Fitting, CloseWindow, NextMarket, LockTtl, clock, fast, loopVars, stepVars,
     onceVars, hooks, history

LEMMA PassTyped ==
  ASSUME Typed, Fitting, NEW z \in BOOLEAN, NEW elapsed \in BOOLEAN, NEW gate \in BOOLEAN,
         PassEvaluate(z, elapsed, gate)
  PROVE  Typed' /\ Fitting'
<1> DEFINE c == SyncScope(work, target)
           s == IF c.slug = target THEN c
                ELSE [c EXCEPT !.prev = "none", !.pend = FALSE, !.slug = target]
           crossed == Crossed(s.prev, z, conf.first)
           p == conf.confirm /\ Pending(s, crossed, z, elapsed)
<1>0. conf \in Configs /\ target \in Windows /\ target \in Markets
  BY DEF Typed, Fitting, PassEvaluate, FastPcs
<1>1. s \in Within(conf.attempts)
  BY <1>0, ContextOps, SpecialWithin DEF Typed
<1>2. p \in BOOLEAN
  BY DEF Pending
<1>3. /\ pc = "pass" /\ pc' = "persist"
      /\ UNCHANGED <<clock, db, fast, target, cur, out, onceVars, ord, hooks, history>>
  BY DEF PassEvaluate
<1>4. /\ work' \in {work, [s EXCEPT !.blk = TRUE],
                    [s EXCEPT !.prev = IF z THEN "in" ELSE "out", !.pend = p]}
      /\ dirty' \in BOOLEAN
      /\ UNCHANGED stepVars \/ EnqueueTrigger(WsKey(target, s.gen), target)
  BY DEF PassEvaluate, Typed
<1> HIDE DEF c, s, p
<1>5. work' \in Within(conf.attempts)
  <2>1. [s EXCEPT !.blk = TRUE] \in Within(conf.attempts)
    BY <1>0, <1>1, SpecialWithin
  <2>2. [s EXCEPT !.prev = IF z THEN "in" ELSE "out", !.pend = p] \in Within(conf.attempts)
    BY <1>0, <1>1, <1>2, SpecialWithin
  <2> QED
    BY <1>4, <2>1, <2>2 DEF Typed
<1>6. /\ queue' \subseteq Steps /\ keys' \subseteq Triggers
      /\ \A x \in queue' : x.role = "buy" => x \in queue
  <2>1. WsKey(target, s.gen) \in Triggers
    BY <1>0, <1>1, KeysAreTriggers
  <2>2. CASE EnqueueTrigger(WsKey(target, s.gen), target)
    BY <1>0, <2>1, <2>2, EnqueueTyped
  <2>3. CASE UNCHANGED stepVars
    BY <2>3 DEF Typed, stepVars
  <2> QED
    BY <1>4, <2>2, <2>3
<1> QED
  BY <1>0, <1>3, <1>4, <1>5, <1>6 DEF Typed, Fitting, clock, fast, onceVars, hooks, history, Pcs, FastPcs

LEMMA BoundaryTyped ==
  ASSUME Typed, Fitting, NEW z \in BOOLEAN, NEW gate \in BOOLEAN, BoundaryEvaluate(z, gate)
  PROVE  Typed' /\ Fitting'
<1> DEFINE crossed == Crossed("none", z, conf.first)
           b == conf.confirm /\ crossed
<1>0. conf \in Configs /\ target \in Markets /\ target \in Windows /\ work \in Within(conf.attempts)
  BY DEF Typed, Fitting, BoundaryEvaluate, FastPcs
<1>1. b \in BOOLEAN
  OBVIOUS
<1>2. /\ pc = "boundary" /\ pc' = "persist" /\ dirty' = TRUE
      /\ UNCHANGED <<clock, db, fast, target, cur, out, onceVars, ord, hooks, history>>
  BY DEF BoundaryEvaluate
<1>3. /\ work' \in {[work EXCEPT !.mark = TRUE],
                    [work EXCEPT !.mark = TRUE, !.prev = IF z THEN "in" ELSE "out", !.pend = @ \/ b]}
      /\ UNCHANGED stepVars \/ EnqueueTrigger(WsKey(target, work.gen), target)
  BY DEF BoundaryEvaluate
<1> HIDE DEF b
<1>4. work' \in Within(conf.attempts)
  BY <1>0, <1>1, <1>3, SpecialWithin
<1>5. /\ queue' \subseteq Steps /\ keys' \subseteq Triggers
      /\ \A x \in queue' : x.role = "buy" => x \in queue
  <2>1. WsKey(target, work.gen) \in Triggers
    BY <1>0, KeysAreTriggers
  <2>2. CASE EnqueueTrigger(WsKey(target, work.gen), target)
    BY <1>0, <2>1, <2>2, EnqueueTyped
  <2>3. CASE UNCHANGED stepVars
    BY <2>3 DEF Typed, stepVars
  <2> QED
    BY <1>3, <2>2, <2>3
<1> QED
  BY <1>0, <1>2, <1>4, <1>5 DEF Typed, Fitting, clock, fast, onceVars, hooks, history, Pcs, FastPcs

LEMMA FastTyped ==
  ASSUME Typed, Fitting,
         Rebuild \/ PassStart \/ TimerStart \/ BoundaryNoPrice \/ WindowEndSell \/ Persist \/ Publish
  PROVE  Typed' /\ Fitting'
<1>0. conf \in Configs /\ now \in Markets /\ now \in Windows
  BY Constants DEF Typed
<1> USE <1>0 DEF Typed, Fitting, Pcs, FastPcs
<1>1. CASE Rebuild
  <2>1. Rollover(db, now) \in Within(conf.attempts)
    BY ContextOps
  <2> QED
    BY <1>1, <2>1 DEF Rebuild, Take, clock, fast, stepVars, onceVars, hooks, history
<1>2. CASE PassStart \/ TimerStart
  <2>1. pc = "idle" /\ pc' \in {"pass", "boundary", "sell"} /\ UNCHANGED <<cur, out>>
    BY <1>2 DEF PassStart, TimerStart, Take
  <2> QED
    BY <1>2, <2>1 DEF PassStart, TimerStart, Take, clock, fast, stepVars, onceVars, hooks, history
<1>3. CASE BoundaryNoPrice \/ Persist
  <2>1. pc \in {"boundary", "persist"} /\ pc' \in {"persist", "publish"} /\ UNCHANGED <<cur, out>>
    BY <1>3 DEF BoundaryNoPrice, Persist
  <2> QED
    BY <1>3, <2>1 DEF BoundaryNoPrice, Persist, clock, fast, stepVars, onceVars, hooks, history
<1>4. CASE WindowEndSell
  <2>1. ord' \in [Triggers -> Orders]
    BY <1>4 DEF WindowEndSell, Orders
  <2>2. work' \in Within(conf.attempts)
    BY <1>4, SpecialWithin DEF WindowEndSell
  <2> QED
    BY <1>4, <2>1, <2>2 DEF WindowEndSell, clock, fast, stepVars, onceVars, hooks, history
<1>5. CASE Publish
  BY <1>5, IdleTyped DEF Publish, clock, stepVars, onceVars, hooks, history
<1> QED
  BY <1>1, <1>2, <1>3, <1>4, <1>5

LEMMA StepStartTyped ==
  ASSUME Typed, Fitting, NEW s \in queue, StepStart(s)
  PROVE  Typed' /\ Fitting'
<1>1. /\ queue' = queue \ {s} /\ cur' = s /\ pc = "idle" /\ pc' = "exec"
      /\ lock' = SetLocks(Expired, "expired") /\ work' = Reconciled(db)
      /\ UNCHANGED <<clock, db, fast, dirty, target, out, keys, onceKeys, late, consumed, ord, hooks, history>>
  BY DEF StepStart
<1>2. work' \in Within(conf.attempts) /\ lock' \in [Triggers -> Locks]
  BY <1>1, ReconciledWithin, SetLocksTyped DEF Typed
<1> QED
  BY <1>1, <1>2 DEF Typed, Fitting, clock, fast, hooks, history, Pcs, FastPcs

LEMMA StepMarketTyped ==
  ASSUME conf \in Configs, now \in Markets, NEW s \in Steps
  PROVE  StepMarket(s) \in Markets
BY Constants DEF StepMarket, Steps, Markets, NoMarket

LEMMA ExecuteTyped ==
  ASSUME Typed, Fitting, NEW pass \in BOOLEAN, NEW o \in 1 .. conf.outcomes, TriggerExecute(pass, o)
  PROVE  Typed' /\ Fitting'
<1> DEFINE m == StepMarket(cur)
           c == SyncScope(work, m)
<1>0. conf \in Configs /\ cur \in Steps /\ o \in Sides /\ NoOutcome \in Sides
  BY Constants DEF Typed
<1>1. m \in Markets /\ m \in Windows
  BY <1>0, StepMarketTyped, Constants DEF Typed
<1>2. c \in Within(conf.attempts) /\ ScopeOf(m) \in Windows
  BY <1>0, <1>1, ContextOps DEF Typed
<1>3. c.gen \in 0 .. conf.attempts
  BY <1>0, <1>2, Constants DEF Within, Contexts, Gens
<1>4. /\ pc = "exec" /\ cur.role = "trigger" /\ pc' = "store"
      /\ UNCHANGED <<clock, db, fast, dirty, target, cur, stepVars, lock, late, consumed, ord, hooks, history>>
      /\ \/ work' \in {[c EXCEPT !.blk = TRUE], MarkFired(c, m), [MarkFired(c, m) EXCEPT !.blk = TRUE]}
         \/ work' = c
      /\ \E b \in BOOLEAN : \E x \in {o, NoOutcome} : out' = Output(b, m, x, "done")
      /\ onceKeys' \in {onceKeys, onceKeys \cup {<<ScopeOf(m), c.gen>>}}
  BY DEF TriggerExecute, FirstFire
<1> HIDE DEF m, c
<1>5. work' \in Within(conf.attempts)
  BY <1>0, <1>1, <1>2, <1>4, ContextOps, SpecialWithin
<1>6. onceKeys' \subseteq Windows \X (0 .. conf.attempts)
  BY <1>2, <1>3, <1>4 DEF Typed
<1>7. out' \in Outputs /\ out'.m \in Markets /\ out'.res = "done"
  BY <1>0, <1>1, <1>4 DEF Output, Outputs
<1> QED
  BY <1>4, <1>5, <1>6, <1>7 DEF Typed, Fitting, clock, fast, stepVars, hooks, history, Pcs, FastPcs

\* What a place-order step creates is an order.
LEMMA CreatedTyped ==
  ASSUME Typed
  PROVE  /\ cur.by \in Triggers /\ Created \in [Triggers -> Orders]
         /\ Created[cur.by] = [m |-> cur.m, o |-> cur.o, st |-> "open"]
         /\ \A t \in Triggers : t # cur.by => Created[t] = ord[t]
<1>1. cur.by \in Triggers /\ cur.m \in Windows /\ cur.o \in Sides
  BY DEF Typed, Steps, Windows, Sides
<1>2. [m |-> cur.m, o |-> cur.o, st |-> "open"] \in Orders
  BY <1>1 DEF Orders
<1> QED
  BY <1>1, <1>2 DEF Created, Typed

LEMMA BuyTyped ==
  ASSUME Typed, Fitting, NEW r \in {"order", "retry", "none"}, BuyExecute(r)
  PROVE  Typed' /\ Fitting'
<1>1. /\ pc = "exec" /\ cur.role = "buy" /\ out' = Output(FALSE, cur.m, cur.o, r) /\ pc' = "apply"
      /\ ord' \in {ord, Created}
      /\ UNCHANGED <<clock, db, fast, work, dirty, target, cur, stepVars, onceVars, hooks, history>>
  BY DEF BuyExecute
<1>2. cur.m \in Windows /\ cur.o \in Sides
  BY DEF Typed, Steps, Windows, Sides
<1>3. out' \in Outputs /\ ~out'.pass
  BY <1>1, <1>2 DEF Output, Outputs
<1>4. ord' \in [Triggers -> Orders]
  BY <1>1, CreatedTyped DEF Typed
<1> QED
  BY <1>1, <1>3, <1>4 DEF Typed, Fitting, clock, fast, stepVars, onceVars, hooks, history, Pcs, FastPcs

LEMMA ApplyTyped ==
  ASSUME Typed, Fitting, ApplyDeferred
  PROVE  Typed' /\ Fitting'
<1>0. conf \in Configs /\ cur.m \in Windows /\ cur.m \in Markets
  BY DEF Typed, Fitting, Steps, Windows, ApplyDeferred
<1>1. /\ pc = "apply" /\ pc' = "store"
      /\ lock' \in {SetLocks(OwnLock, "consumed"), SetLocks(OwnLock, "released"), lock}
      /\ consumed' \in {consumed, Append(consumed, cur.m)}
      /\ work' \in {work, MarkFired(work, cur.m)}
      /\ onceKeys' \in {onceKeys, onceKeys \cup {<<ScopeOf(cur.m), work.gen>>}}
      /\ out' \in {out, [out EXCEPT !.res = "none"]}
      /\ UNCHANGED <<clock, db, fast, dirty, target, cur, stepVars, late, ord, hooks, history>>
  BY DEF ApplyDeferred
<1>2. /\ lock' \in [Triggers -> Locks] /\ consumed' \in Seq(Markets)
      /\ work' \in Within(conf.attempts)
  <2>1. lock' \in [Triggers -> Locks]
    BY <1>1, SetLocksTyped DEF Typed
  <2>2. consumed' \in Seq(Markets)
    BY <1>0, <1>1 DEF Typed
  <2>3. work' \in Within(conf.attempts)
    <3>1. MarkFired(work, cur.m) \in Within(conf.attempts)
      BY <1>0, ContextOps DEF Typed
    <3> QED
      BY <1>1, <3>1 DEF Typed
  <2> QED
    BY <2>1, <2>2, <2>3
<1>3. work.gen \in 0 .. conf.attempts
  BY <1>0, Constants DEF Typed, Within, Contexts, Gens
<1>4. onceKeys' \subseteq Windows \X (0 .. conf.attempts)
  <2>1. <<ScopeOf(cur.m), work.gen>> \in Windows \X (0 .. conf.attempts)
    BY <1>0, <1>3, ContextOps DEF Typed
  <2> QED
    BY <1>1, <2>1 DEF Typed
<1>5. out' \in Outputs /\ out'.pass = out.pass
  BY <1>1 DEF Typed, Outputs
<1> QED
  BY <1>1, <1>2, <1>4, <1>5 DEF Typed, Fitting, clock, fast, stepVars, hooks, history, Pcs, FastPcs

LEMMA AcquireTyped ==
  ASSUME Typed, Fitting, out.pass, NEW t \in Triggers, Acquire(t)
  PROVE  lock' \in [Triggers -> Locks]
<1>1. Locked(t) \in Locks
  BY DEF Locked, Locks, Typed, Outputs
<1>2. SetLocks(PendingFor(out.m, out.o), "expired") \in [Triggers -> Locks]
  BY SetLocksTyped DEF Typed
<1> QED
  BY <1>1, <1>2 DEF Acquire

LEMMA RouteTyped ==
  ASSUME Typed, Fitting,
         StoreContext \/ RouteEdges \/ (\E b \in BOOLEAN : StepError(b)) \/ StepCut \/ Crash
  PROVE  Typed' /\ Fitting'
<1>0. conf \in Configs /\ cur.by \in Triggers /\ cur.m \in Windows /\ NoMarket \in Windows
  BY Constants DEF Typed, Steps, Windows
<1>1. CASE StoreContext
  BY <1>1 DEF StoreContext, Typed, Fitting, Pcs, FastPcs, clock, fast, stepVars, onceVars, hooks, history
<1>2. CASE RouteEdges
  <2>1. /\ pc = "route" /\ Idle
        /\ UNCHANGED <<clock, db, fast, keys, onceKeys, late, consumed, ord, hooks, history>>
    BY <1>2 DEF RouteEdges
  <2>2. /\ lock' \in [Triggers -> Locks] /\ queue' \subseteq Steps
        /\ \A x \in queue' : x.role = "buy" => x.m \in Markets
    <3>1. CASE out.pass
      <4>1. out.m \in Markets /\ out.m \in Windows /\ out.o \in Sides
        BY <1>0, <3>1, Constants DEF Fitting, Typed, Outputs
      <4>2. \A h \in BOOLEAN : /\ BuyStep(cur.by, out.m, out.o, h) \in Steps
                               /\ BuyStep(cur.by, out.m, out.o, h).m = out.m
        BY <1>0, <4>1, BuyTypes
      <4>3. \/ queue' = queue
            \/ \E h \in BOOLEAN : queue' = queue \cup {BuyStep(cur.by, out.m, out.o, h)}
        BY <1>2, <3>1 DEF RouteEdges
      <4>4. lock' = lock \/ Acquire(cur.by)
        BY <1>2, <3>1 DEF RouteEdges
      <4>5. lock' \in [Triggers -> Locks]
        BY <1>0, <3>1, <4>4, AcquireTyped DEF Typed
      <4> QED
        BY <4>1, <4>2, <4>3, <4>5 DEF Typed, Fitting
    <3>2. CASE ~out.pass
      BY <1>2, <3>2 DEF RouteEdges, Typed, Fitting
    <3> QED
      BY <3>1, <3>2
  <2> QED
    BY <1>0, <2>1, <2>2, IdleTyped DEF Typed, Fitting, clock, fast, hooks, history, Pcs, FastPcs
<1>3. ASSUME NEW b \in BOOLEAN, StepError(b) PROVE Typed' /\ Fitting'
  <2>1. lock' \in [Triggers -> Locks]
    BY <1>3, SetLocksTyped DEF StepError, Typed
  <2>2. ord' \in [Triggers -> Orders] /\ slipped' \subseteq Triggers
    BY <1>0, <1>3, CreatedTyped DEF StepError, Typed
  <2> QED
    BY <1>0, <1>3, <2>1, <2>2, IdleTyped
       DEF StepError, Typed, Fitting, clock, fast, stepVars, hooks, Pcs, FastPcs
<1>4. CASE StepCut
  <2>1. lock' \in [Triggers -> Locks]
    BY <1>0, <1>4, AcquireTyped DEF StepCut, Typed
  <2> QED
    BY <1>0, <1>4, <2>1, IdleTyped DEF StepCut, Typed, Fitting, clock, fast, stepVars, hooks, Pcs, FastPcs
<1>5. CASE Crash
  <2>1. NoHook \in Hooks /\ NoHook.kind = "idle"
    BY <1>0, KeysAreTriggers DEF NoHook, Hooks
  <2> QED
    BY <1>0, <1>5, <2>1, IdleTyped, FreshWithin
       DEF Crash, Typed, Fitting, clock, stepVars, onceVars, history, Pcs, FastPcs
<1> QED
  BY <1>1, <1>2, <1>3, <1>4, <1>5

LEMMA TasksTyped ==
  ASSUME Typed, Fitting, OrderTasks
  PROVE  Typed' /\ Fitting'
<1>0. conf \in Configs /\ hook.by \in Triggers /\ HookMarket \in Windows
  BY DEF Typed, Hooks, HookMarket, Orders
<1>1. NoHook \in Hooks /\ NoHook.kind = "idle"
  BY <1>0, KeysAreTriggers DEF NoHook, Hooks
<1>2. ASSUME NEW t \in Triggers, NEW b \in BOOLEAN, OrderFills(t, b)
      PROVE  Typed' /\ Fitting'
  <2>1. ord' \in [Triggers -> Orders]
    BY <1>2 DEF OrderFills, Typed, Orders
  <2>2. hook' \in {hook, [kind |-> "fill", by |-> t]} /\ [kind |-> "fill", by |-> t] \in Hooks
    BY <1>2 DEF OrderFills, Hooks
  <2> QED
    BY <1>2, <2>1, <2>2 DEF OrderFills, Typed, Fitting, clock, fast, loopVars, stepVars, onceVars, history
<1>3. ASSUME NEW t \in Triggers, StopLossFills(t)
      PROVE  Typed' /\ Fitting'
  <2>1. ord' \in [Triggers -> Orders]
    BY <1>3 DEF StopLossFills, Typed, Orders
  <2>2. hook' = [kind |-> "reentry", by |-> t] /\ [kind |-> "reentry", by |-> t] \in Hooks
    BY <1>3 DEF StopLossFills, Hooks
  <2> QED
    BY <1>3, <2>1, <2>2 DEF StopLossFills, Typed, Fitting, clock, fast, loopVars, stepVars, onceVars, history
<1>4. CASE HookRead
  <2>1. hook' \in Hooks /\ hctx' \in Within(conf.attempts)
        /\ (hook'.kind \in {"writere", "cachere"} => hctx'.gen >= 1)
    <3>1. CASE hook.kind = "reentry" /\ AttemptsUsed(db, HookMarket) >= conf.attempts
      BY <1>1, <1>4, <3>1 DEF HookRead, Typed
    <3>2. CASE hook.kind = "reentry" /\ ~(AttemptsUsed(db, HookMarket) >= conf.attempts)
      <4>1. /\ Reentered(db, HookMarket) \in Within(conf.attempts)
            /\ Reentered(db, HookMarket).gen >= 1
        BY <1>0, <3>2, ReenteredWithin DEF Typed
      <4> QED
        BY <1>4, <3>2, <4>1 DEF HookRead, Typed, Hooks
    <3>3. CASE hook.kind = "fill"
      BY <1>4, <3>3 DEF HookRead, Typed, Hooks
    <3> QED
      BY <1>4, <3>1, <3>2, <3>3 DEF HookRead
  <2> QED
    BY <1>4, <2>1 DEF HookRead, Typed, Fitting, clock, fast, loopVars, stepVars, onceVars, history
<1>5. CASE HookWrite
  <2>1. hook' \in Hooks
    BY <1>5 DEF HookWrite, Typed, Hooks
  <2>2. hook'.kind \in {"writere", "cachere"} => hook.kind \in {"writere", "cachere"}
    BY <1>5 DEF HookWrite, Typed, Hooks
  <2> QED
    BY <1>5, <2>1, <2>2 DEF HookWrite, Typed, Fitting, clock, fast, loopVars, stepVars, onceVars, history
<1>6. CASE HookCache
  <2>1. cache' \in Within(conf.attempts)
    BY <1>6 DEF HookCache, Typed
  <2>2. /\ queue' \subseteq Steps /\ keys' \subseteq Triggers
        /\ \A x \in queue' : x.role = "buy" => x \in queue
    <3>1. CASE hook.kind = "cachere"
      <4>1. <<"re", 0, hctx.gen>> \in Triggers
        BY <1>0, <3>1, KeysAreTriggers DEF Typed, Fitting
      <4> QED
        BY <1>0, <1>6, <3>1, <4>1, Constants, EnqueueTyped DEF HookCache
    <3>2. CASE hook.kind # "cachere"
      BY <1>6, <3>2 DEF HookCache, stepVars, Typed
    <3> QED
      BY <3>1, <3>2
  <2> QED
    BY <1>0, <1>1, <1>6, <2>1, <2>2, FreshWithin
       DEF HookCache, Typed, Fitting, clock, loopVars, onceVars, history
<1> QED
  BY <1>2, <1>3, <1>4, <1>5, <1>6 DEF OrderTasks

LEMMA TypedNext == Typed /\ Fitting /\ [Next]_vars => Typed' /\ Fitting'
<1> SUFFICES ASSUME Typed, Fitting, [Next]_vars PROVE Typed' /\ Fitting'
  OBVIOUS
<1>1. CASE CloseWindow \/ NextMarket \/ \E t \in Triggers : LockTtl(t)
  BY <1>1, ClockTyped
<1>2. CASE FastPath
  BY <1>2, FastTyped, PassTyped, BoundaryTyped DEF FastPath
<1>3. CASE StepEngine
  BY <1>3, StepStartTyped, ExecuteTyped, BuyTyped, ApplyTyped, RouteTyped DEF StepEngine
<1>4. CASE OrderTasks
  BY <1>4, TasksTyped
<1>5. CASE (\E created \in BOOLEAN : StepError(created)) \/ StepCut \/ Crash
  BY <1>5, RouteTyped
<1>6. CASE UNCHANGED vars
  BY <1>6 DEF vars, clock, fast, loopVars, stepVars, onceVars, hooks, history, Typed, Fitting
<1> QED
  BY <1>1, <1>2, <1>3, <1>4, <1>5, <1>6 DEF Next

LEMMA TypedSpec == Spec => [](Typed /\ Fitting)
BY TypedInit, TypedNext, PTL DEF Spec

\* Every variable of the trigger, its steps and its locks has its type, and
\* the contexts everyone writes back stay within the attempts of the node.
THEOREM OnceTypes == Spec => []TypeOK
<1>1. Typed => TypeOK
  <2> SUFFICES ASSUME Typed PROVE TypeOK
    OBVIOUS
  <2>1. onceKeys \subseteq (0 .. NMarkets) \X Gens
    BY Constants DEF Typed, Windows, Gens
  <2>2. {db, cache, work, hctx} \subseteq Contexts
    BY DEF Typed, Within
  <2>3. \A i \in DOMAIN consumed : consumed[i] \in Markets
    BY DEF Typed
  <2>4. \A t \in Triggers :
          /\ lock[t] \in [m : 0 .. NMarkets, o : 0 .. NOutcomes,
                          st : {"none", "pending", "expired", "released", "consumed"}]
          /\ ord[t] \in [m : 0 .. NMarkets, o : 0 .. NOutcomes,
                         st : {"none", "open", "filled", "stopped", "sold"}]
    BY DEF Typed, Locks, Orders, Windows, Sides
  <2> QED
    BY <2>1, <2>2, <2>3, <2>4 DEF Typed, TypeOK, Windows, Pcs
<1> QED
  BY <1>1, TypedSpec, PTL

---------------------------------------------------------------------------
(* One holder.                                                             *)

Holder ==
  \A t, u \in Triggers :
    lock[t].st = "pending" /\ lock[u].st = "pending" /\ lock[t].m = lock[u].m /\ lock[t].o = lock[u].o
      => t = u

LEMMA HolderSet ==
  ASSUME lock \in [Triggers -> Locks], Holder, NEW T, NEW st \in {"expired", "released", "consumed"},
         lock' = SetLocks(T, st)
  PROVE  Holder'
BY SetLocksTyped DEF Holder

LEMMA HolderAcquire ==
  ASSUME Typed, Holder, NEW t \in Triggers, Acquire(t)
  PROVE  Holder'
<1> DEFINE L == SetLocks(PendingFor(out.m, out.o), "expired")
<1>0. lock \in [Triggers -> Locks]
  BY DEF Typed
<1>1. lock' = [L EXCEPT ![t] = Locked(t)]
  BY DEF Acquire
<1>2. /\ L \in [Triggers -> Locks]
      /\ \A u \in Triggers :
           /\ L[u].m = lock[u].m /\ L[u].o = lock[u].o
           /\ L[u].st = IF u \in PendingFor(out.m, out.o) THEN "expired" ELSE lock[u].st
  BY <1>0, SetLocksTyped
<1> HIDE DEF L
<1>3. \A u \in Triggers : L[u].st = "pending" => ~(L[u].m = out.m /\ L[u].o = out.o)
  BY <1>0, <1>2, PendingMeans
<1>4. /\ lock'[t].m = out.m /\ lock'[t].o = out.o
      /\ \A u \in Triggers : u # t => lock'[u] = L[u]
  BY <1>1, <1>2 DEF Locked
<1>5. \A u \in Triggers : L[u].st = "pending" => lock[u].st = "pending"
  BY <1>2
<1> QED
  BY <1>2, <1>3, <1>4, <1>5 DEF Holder

LEMMA HolderNext == Typed /\ Fitting /\ Holder /\ [Next]_vars => Holder'
<1> SUFFICES ASSUME Typed, Fitting, Holder, [Next]_vars PROVE Holder'
  OBVIOUS
<1>0. lock \in [Triggers -> Locks] /\ cur.by \in Triggers
  BY DEF Typed, Steps
<1>1. ASSUME UNCHANGED lock PROVE Holder'
  BY <1>1 DEF Holder
<1>2. CASE CloseWindow \/ NextMarket \/ (\E t \in Triggers : LockTtl(t)) \/ FastPath \/ OrderTasks
            \/ Crash \/ UNCHANGED vars
  BY <1>1, <1>2 DEF CloseWindow, NextMarket, LockTtl, FastPath, Rebuild, PassStart, TimerStart,
     BoundaryNoPrice, WindowEndSell, Persist, Publish, PassEvaluate, BoundaryEvaluate, OrderTasks,
     OrderFills, StopLossFills, HookRead, HookWrite, HookCache, Crash, onceVars, vars
<1>3. ASSUME NEW b \in BOOLEAN, StepError(b) PROVE Holder'
  BY <1>0, <1>1, <1>3, HolderSet DEF StepError
<1>4. CASE StepCut
  BY <1>0, <1>1, <1>4, HolderAcquire DEF StepCut
<1>5. CASE StepEngine
  <2>1. ASSUME NEW s \in queue, StepStart(s) PROVE Holder'
    BY <1>0, <2>1, HolderSet DEF StepStart
  <2>2. CASE ApplyDeferred
    BY <1>0, <1>1, <2>2, HolderSet DEF ApplyDeferred
  <2>3. CASE RouteEdges
    BY <1>0, <1>1, <2>3, HolderAcquire DEF RouteEdges
  <2>4. CASE StoreContext \/ (\E pass \in BOOLEAN : \E o \in 1 .. conf.outcomes : TriggerExecute(pass, o))
             \/ \E r \in {"order", "retry", "none"} : BuyExecute(r)
    BY <1>1, <2>4 DEF StoreContext, TriggerExecute, BuyExecute, onceVars
  <2> QED
    BY <1>5, <2>1, <2>2, <2>3, <2>4 DEF StepEngine
<1> QED
  BY <1>2, <1>3, <1>4, <1>5 DEF Next

\* At most one lock of an outcome of a market is pending, whatever steps,
\* crashes, expired locks and errors came before: the check and the insert of
\* the acquisition are one statement against the unique index.
THEOREM OnceOneHolder == Spec => []OneHolder
<1>1. Init => Holder
  BY DEF Init, Holder, NoLock
<1>2. Typed /\ Holder => OneHolder
  <2> SUFFICES ASSUME Typed, Holder, NEW m \in Markets, NEW o \in Outcomes
      PROVE  Cardinality(PendingFor(m, o)) <= 1
    BY DEF OneHolder
  <2>1. CASE PendingFor(m, o) = {}
    BY <2>1, FS_EmptySet
  <2>2. CASE PendingFor(m, o) # {}
    <3>1. PICK t : t \in PendingFor(m, o)
      BY <2>2
    <3>2. PendingFor(m, o) = {t}
      BY <3>1 DEF PendingFor, Holder
    <3>3. Cardinality({t}) = 1
      BY FS_Singleton
    <3> QED
      BY <3>2, <3>3
  <2> QED
    BY <2>1, <2>2
<1> QED
  BY <1>1, <1>2, HolderNext, TypedSpec, PTL DEF Spec

---------------------------------------------------------------------------
(* Entries and keys: whoever has passed for a market, from the passed      *)
(* trigger over its place-order step to the order, is counted by a key of  *)
(* the market's scope.                                                     *)

\* Trigger step t is about to place, or has placed, an order for market m.
Used(t, m) ==
  \/ ord[t].m = m /\ ord[t].st # "none"
  \/ \E s \in queue \cup {cur} : s.role = "buy" /\ s.by = t /\ s.m = m
  \/ out.pass /\ out.m = m /\ cur.by = t

UsedIn(s) == {t \in Triggers : \E m \in Markets : ScopeOf(m) = s /\ Used(t, m)}
KeysOf(s) == {k \in onceKeys : k[1] = s}

Counted ==
  ~conf.deferred =>
    \A s \in Windows : /\ IsFiniteSet(UsedIn(s)) /\ IsFiniteSet(KeysOf(s))
                      /\ Cardinality(UsedIn(s)) <= Cardinality(KeysOf(s))

\* A step that uses up nothing new, and loses no key.
LEMMA CountedStays ==
  ASSUME Typed, Counted, conf' = conf, onceKeys' = onceKeys \/ \E k : onceKeys' = onceKeys \cup {k},
         ~conf.deferred => \A t \in Triggers : \A m \in Markets : Used(t, m)' => Used(t, m)
  PROVE  Counted'
<1> SUFFICES ASSUME ~conf.deferred, NEW s \in Windows
    PROVE  (/\ IsFiniteSet(UsedIn(s)) /\ IsFiniteSet(KeysOf(s))
            /\ Cardinality(UsedIn(s)) <= Cardinality(KeysOf(s)))'
  BY DEF Counted, Windows
<1>1. UsedIn(s)' \subseteq UsedIn(s)
  BY DEF UsedIn, ScopeOf
<1>2. KeysOf(s)' = KeysOf(s) \/ \E k : KeysOf(s)' = KeysOf(s) \cup {k}
  BY DEF KeysOf
<1>3. IsFiniteSet(UsedIn(s)) /\ IsFiniteSet(KeysOf(s)) /\ Cardinality(UsedIn(s)) <= Cardinality(KeysOf(s))
  BY DEF Counted
<1>4. IsFiniteSet(UsedIn(s)') /\ Cardinality(UsedIn(s)') <= Cardinality(UsedIn(s))
  BY <1>1, <1>3, FS_Subset
<1>5. Cardinality(UsedIn(s)) \in Nat /\ Cardinality(KeysOf(s)) \in Nat /\ Cardinality(UsedIn(s)') \in Nat
  BY <1>3, <1>4, FS_CardinalityType
<1>6. IsFiniteSet(KeysOf(s)') /\ Cardinality(KeysOf(s)') \in {Cardinality(KeysOf(s)), Cardinality(KeysOf(s)) + 1}
  BY <1>2, <1>3, FS_AddElement
<1> QED
  BY <1>3, <1>4, <1>5, <1>6

\* A trigger that fires: it is used, and its key is new.
LEMMA CountedFires ==
  ASSUME Typed, Counted, conf' = conf, NEW u \in Triggers, NEW k, k \notin onceKeys,
         onceKeys' = onceKeys \cup {k},
         \A t \in Triggers : \A m \in Markets :
           Used(t, m)' => Used(t, m) \/ (t = u /\ ScopeOf(m) = k[1])
  PROVE  Counted'
<1> SUFFICES ASSUME ~conf.deferred, NEW s \in Windows
    PROVE  (/\ IsFiniteSet(UsedIn(s)) /\ IsFiniteSet(KeysOf(s))
            /\ Cardinality(UsedIn(s)) <= Cardinality(KeysOf(s)))'
  BY DEF Counted, Windows
<1>3. IsFiniteSet(UsedIn(s)) /\ IsFiniteSet(KeysOf(s)) /\ Cardinality(UsedIn(s)) <= Cardinality(KeysOf(s))
  BY DEF Counted
<1>4. Cardinality(UsedIn(s)) \in Nat /\ Cardinality(KeysOf(s)) \in Nat
  BY <1>3, FS_CardinalityType
<1>5. CASE k[1] = s
  <2>1. UsedIn(s)' \subseteq UsedIn(s) \cup {u}
    BY DEF UsedIn, ScopeOf
  <2>2. KeysOf(s)' = KeysOf(s) \cup {k} /\ k \notin KeysOf(s)
    BY <1>5 DEF KeysOf
  <2>3. IsFiniteSet(KeysOf(s)') /\ Cardinality(KeysOf(s)') = Cardinality(KeysOf(s)) + 1
    BY <1>3, <2>2, FS_AddElement
  <2>4. /\ IsFiniteSet(UsedIn(s) \cup {u})
        /\ Cardinality(UsedIn(s) \cup {u}) \in {Cardinality(UsedIn(s)), Cardinality(UsedIn(s)) + 1}
    BY <1>3, FS_AddElement
  <2>5. /\ IsFiniteSet(UsedIn(s)')
        /\ Cardinality(UsedIn(s)') <= Cardinality(UsedIn(s) \cup {u})
    BY <2>1, <2>4, FS_Subset
  <2>6. Cardinality(UsedIn(s)') \in Nat
    BY <2>5, FS_CardinalityType
  <2> QED
    BY <1>3, <1>4, <2>3, <2>4, <2>5, <2>6
<1>6. CASE k[1] # s
  <2>1. UsedIn(s)' \subseteq UsedIn(s)
    BY <1>6 DEF UsedIn, ScopeOf
  <2>2. KeysOf(s)' = KeysOf(s)
    BY <1>6 DEF KeysOf
  <2>3. IsFiniteSet(UsedIn(s)') /\ Cardinality(UsedIn(s)') <= Cardinality(UsedIn(s))
    BY <1>3, <2>1, FS_Subset
  <2>4. Cardinality(UsedIn(s)') \in Nat
    BY <2>3, FS_CardinalityType
  <2> QED
    BY <1>3, <1>4, <2>2, <2>3, <2>4
<1> QED
  BY <1>5, <1>6

LEMMA CountedInit == Init => Counted
<1> SUFFICES ASSUME Init, NEW s \in Windows
    PROVE  /\ IsFiniteSet(UsedIn(s)) /\ IsFiniteSet(KeysOf(s))
           /\ Cardinality(UsedIn(s)) <= Cardinality(KeysOf(s))
  BY DEF Counted
<1>1. UsedIn(s) = {}
  BY DEF UsedIn, Used, Init, TriggerStep, SeedStep, NoOutput, NoOrder
<1>2. KeysOf(s) = {}
  BY DEF KeysOf, Init
<1> QED
  BY <1>1, <1>2, FS_EmptySet

\* What Used needs to know of a step that takes its step off the queue or
\* drops it: nothing enters the places that are counted.
LEMMA UsedStays ==
  ASSUME Typed, NEW t \in Triggers, NEW m \in Markets, Used(t, m)',
         \A s \in queue' \cup {cur'} : s.role = "buy" => s \in queue \cup {cur},
         out'.pass => out' = out /\ cur' = cur,
         ord'[t].st # "none" => ord[t].st # "none" /\ ord'[t].m = ord[t].m
  PROVE  Used(t, m)
BY DEF Used

LEMMA EnqueueStays ==
  ASSUME NEW t, NEW m, EnqueueTrigger(t, m), NEW s \in queue', s.role = "buy"
  PROVE  s \in queue
BY DEF EnqueueTrigger, TriggerStep, stepVars

LEMMA CountedNext == Typed /\ Fitting /\ Counted /\ [Next]_vars => Counted'
<1> SUFFICES ASSUME Typed, Fitting, Counted, [Next]_vars PROVE Counted'
  OBVIOUS
<1>1. CASE CloseWindow \/ NextMarket \/ (\E t \in Triggers : LockTtl(t)) \/ HookRead \/ HookWrite
            \/ Rebuild \/ PassStart \/ TimerStart \/ BoundaryNoPrice \/ Persist \/ StoreContext
            \/ UNCHANGED vars
  <2>1. UNCHANGED <<conf, onceKeys, queue, cur, out, ord>>
    BY <1>1 DEF CloseWindow, NextMarket, LockTtl, HookRead, HookWrite, Rebuild, PassStart, TimerStart,
       BoundaryNoPrice, Persist, StoreContext, Take, vars, clock, stepVars, onceVars, loopVars
  <2> QED
    BY <2>1, CountedStays DEF Used
<1>2. CASE Publish \/ Crash \/ (\E b \in BOOLEAN : StepError(b)) \/ StepCut
  <2>1. UNCHANGED <<conf, onceKeys, queue>> /\ Idle
        /\ (ord' = ord \/ (cur.role = "buy" /\ ord' = Created))
    BY <1>2 DEF Publish, Crash, StepError, StepCut, clock, stepVars, onceVars
  <2>2. cur'.role = "trigger" /\ ~out'.pass
    BY <2>1 DEF Idle, TriggerStep, SeedStep, NoOutput
  <2> QED
    BY <2>1, <2>2, CreatedTyped, CountedStays DEF Used
<1>3. ASSUME NEW z \in BOOLEAN, NEW elapsed \in BOOLEAN, NEW gate \in BOOLEAN,
             PassEvaluate(z, elapsed, gate)
      PROVE  Counted'
  <2>1. UNCHANGED <<conf, onceKeys, cur, out, ord>>
    BY <1>3 DEF PassEvaluate, clock, onceVars
  <2>2. UNCHANGED queue \/ \E k, m : EnqueueTrigger(k, m)
    BY <1>3 DEF PassEvaluate, stepVars
  <2> QED
    BY <2>1, <2>2, CountedStays, EnqueueStays DEF Used
<1>4. ASSUME NEW z \in BOOLEAN, NEW gate \in BOOLEAN, BoundaryEvaluate(z, gate)
      PROVE  Counted'
  <2>1. UNCHANGED <<conf, onceKeys, cur, out, ord>>
    BY <1>4 DEF BoundaryEvaluate, clock, onceVars
  <2>2. UNCHANGED queue \/ \E k, m : EnqueueTrigger(k, m)
    BY <1>4 DEF BoundaryEvaluate, stepVars
  <2> QED
    BY <2>1, <2>2, CountedStays, EnqueueStays DEF Used
<1>5. CASE HookCache
  <2>1. UNCHANGED <<conf, onceKeys, cur, out, ord>>
    BY <1>5 DEF HookCache, clock, onceVars, loopVars
  <2>2. UNCHANGED queue \/ \E k, m : EnqueueTrigger(k, m)
    BY <1>5 DEF HookCache, stepVars
  <2> QED
    BY <2>1, <2>2, CountedStays, EnqueueStays DEF Used
<1>6. CASE WindowEndSell \/ \E t \in Triggers : (\E b \in BOOLEAN : OrderFills(t, b)) \/ StopLossFills(t)
  <2>1. UNCHANGED <<conf, onceKeys, queue, cur, out>>
    BY <1>6 DEF WindowEndSell, OrderFills, StopLossFills, clock, onceVars, loopVars, stepVars
  <2>2. \A t \in Triggers : ord'[t].m = ord[t].m /\ (ord'[t].st # "none" => ord[t].st # "none")
    BY <1>6 DEF WindowEndSell, OrderFills, StopLossFills, Typed, Orders
  <2> QED
    BY <2>1, <2>2, CountedStays DEF Used
<1>7. ASSUME NEW s \in queue, StepStart(s) PROVE Counted'
  <2>1. UNCHANGED <<conf, onceKeys, out, ord>> /\ queue' = queue \ {s} /\ cur' = s /\ pc = "idle"
    BY <1>7 DEF StepStart, clock
  <2>2. ~out.pass
    BY <2>1 DEF Fitting
  <2> QED
    BY <2>1, <2>2, CountedStays DEF Used
<1>8. ASSUME NEW r \in {"order", "retry", "none"}, BuyExecute(r) PROVE Counted'
  <2>1. UNCHANGED <<conf, onceKeys, queue, cur>> /\ cur.role = "buy" /\ ~out'.pass
    BY <1>8 DEF BuyExecute, Output, clock, onceVars, stepVars
  <2>2. \A t \in Triggers : ord'[t] # ord[t] => t = cur.by /\ ord'[t].m = cur.m
    BY <1>8, CreatedTyped DEF BuyExecute
  <2> QED
    BY <2>1, <2>2, CountedStays DEF Used
<1>9. CASE ApplyDeferred
  <2>1. UNCHANGED <<conf, queue, cur, ord>> /\ out'.pass = out.pass /\ out'.m = out.m
    BY <1>9 DEF ApplyDeferred, clock, stepVars, Typed, Outputs
  <2>2. onceKeys' = onceKeys \/ \E k : onceKeys' = onceKeys \cup {k}
    BY <1>9 DEF ApplyDeferred
  <2> QED
    BY <2>1, <2>2, CountedStays DEF Used
<1>10. CASE RouteEdges
  <2>1. UNCHANGED <<conf, onceKeys, ord>> /\ cur'.role = "trigger" /\ ~out'.pass
    BY <1>10 DEF RouteEdges, Idle, TriggerStep, SeedStep, NoOutput, clock
  <2>2. ~conf.deferred => \/ out.pass /\ queue' = queue \cup {BuyStep(cur.by, out.m, out.o, FALSE)}
                         \/ queue' \subseteq queue \cup {cur}
    BY <1>10 DEF RouteEdges
  <2>3. ASSUME ~conf.deferred, NEW t \in Triggers, NEW m \in Markets, Used(t, m)'
        PROVE  Used(t, m)
    BY <2>1, <2>2, <2>3 DEF Used, BuyStep
  <2> QED
    BY <2>1, <2>3, CountedStays
<1>11. ASSUME NEW pass \in BOOLEAN, NEW o \in 1 .. conf.outcomes, TriggerExecute(pass, o) PROVE Counted'
  <2> DEFINE m == StepMarket(cur)
             c == SyncScope(work, m)
             k == <<ScopeOf(m), c.gen>>
  <2>1. UNCHANGED <<conf, queue, cur, ord>> /\ cur.by \in Triggers
    BY <1>11 DEF TriggerExecute, clock, stepVars, Typed, Steps
  <2>2. CASE out'.pass /\ ~conf.deferred
    <3>0. \/ out' = Output(FALSE, m, NoOutcome, "done")
          \/ out' = Output(k \notin onceKeys, m, o, "done") /\ onceKeys' = onceKeys \cup {k}
          \/ out' = Output(pass, m, o, "done") /\ ~pass
      BY <1>11, <2>2 DEF TriggerExecute, FirstFire
    <3>1. out'.m = m /\ onceKeys' = onceKeys \cup {k} /\ k \notin onceKeys
      <4> HIDE DEF m, c, k
      <4>1. CASE out' = Output(FALSE, m, NoOutcome, "done")
        BY <2>2, <4>1, Zenon DEF Output
      <4>2. CASE out' = Output(k \notin onceKeys, m, o, "done") /\ onceKeys' = onceKeys \cup {k}
        BY <2>2, <4>2, Zenon DEF Output
      <4>3. CASE out' = Output(pass, m, o, "done") /\ ~pass
        BY <2>2, <4>3, Zenon DEF Output
      <4> QED
        BY <3>0, <4>1, <4>2, <4>3
    <3> k[1] = ScopeOf(m)
      OBVIOUS
    <3>2. ASSUME NEW t \in Triggers, NEW n \in Markets, Used(t, n)'
          PROVE  Used(t, n) \/ (t = cur.by /\ ScopeOf(n) = k[1])
      BY <2>1, <3>1, <3>2 DEF Used
    <3> HIDE DEF m, c, k
    <3> QED
      BY <2>1, <3>1, <3>2, CountedFires
  <2>3. CASE ~out'.pass /\ ~conf.deferred
    <3>1. onceKeys' = onceKeys \/ \E x : onceKeys' = onceKeys \cup {x}
      BY <1>11, <2>3 DEF TriggerExecute
    <3>2. ASSUME NEW t \in Triggers, NEW n \in Markets, Used(t, n)'
          PROVE  Used(t, n)
      BY <2>1, <2>3, <3>2 DEF Used
    <3> QED
      BY <2>1, <3>1, <3>2, CountedStays
  <2>4. CASE conf.deferred
    BY <2>1, <2>4 DEF Counted
  <2> QED
    BY <2>2, <2>3, <2>4
<1> QED
  BY <1>1, <1>2, <1>3, <1>4, <1>5, <1>6, <1>7, <1>8, <1>9, <1>10, <1>11
     DEF Next, FastPath, StepEngine, OrderTasks

LEMMA CountedSpec == Spec => []Counted
BY CountedInit, CountedNext, TypedSpec, PTL DEF Spec

\* The entries of a market are among what its scope has used.
LEMMA EntriesUsed ==
  ASSUME Typed, NEW m \in Markets
  PROVE  Entries(m) \subseteq UsedIn(ScopeOf(m)) /\ ScopeOf(m) \in Windows
BY Constants, ContextOps DEF Entries, UsedIn, Used, ScopeOf, Typed

\* Every entry of a trigger that is not deferred has a fired key of its own
\* behind it, whichever of the writers of the context came last, and whether
\* or not the process ended in between.
THEOREM OnceEntriesHaveKeys == Spec => []EntriesHaveKeys
<1>1. Typed /\ Counted => EntriesHaveKeys
  <2> SUFFICES ASSUME Typed, Counted, ~conf.deferred, NEW m \in Markets
      PROVE  Cardinality(Entries(m)) <= Cardinality({k \in onceKeys : k[1] = ScopeOf(m)})
    BY DEF EntriesHaveKeys
  <2> DEFINE s == ScopeOf(m)
  <2>1. Entries(m) \subseteq UsedIn(s) /\ s \in Windows
    BY EntriesUsed
  <2>2. IsFiniteSet(UsedIn(s)) /\ IsFiniteSet(KeysOf(s)) /\ Cardinality(UsedIn(s)) <= Cardinality(KeysOf(s))
    BY <2>1 DEF Counted
  <2>3. IsFiniteSet(Entries(m)) /\ Cardinality(Entries(m)) <= Cardinality(UsedIn(s))
    BY <2>1, <2>2, FS_Subset
  <2>4. /\ Cardinality(Entries(m)) \in Nat /\ Cardinality(UsedIn(s)) \in Nat
        /\ Cardinality(KeysOf(s)) \in Nat
    BY <2>2, <2>3, FS_CardinalityType
  <2> QED
    BY <2>2, <2>3, <2>4 DEF KeysOf
<1> QED
  BY <1>1, CountedSpec, TypedSpec, PTL

---------------------------------------------------------------------------
(* In the first window everything is about market 1.                       *)

Current ==
  /\ target <= now /\ spec <= now
  /\ out.pass => out.m <= now
  /\ \A s \in queue \cup {cur} : s.role = "trigger" => s.m <= now /\ ~s.held

LEMMA CurrentEnqueue ==
  ASSUME Typed, Current, NEW t \in Triggers, NEW m, m <= now, EnqueueTrigger(t, m)
  PROVE  \A s \in queue' : s.role = "trigger" => s.m <= now /\ ~s.held
BY DEF EnqueueTrigger, TriggerStep, stepVars, Current

LEMMA CurrentIdle ==
  ASSUME conf \in Configs, now \in Markets, Idle
  PROVE  target' <= now /\ ~out'.pass /\ cur'.role = "trigger" /\ cur'.m <= now /\ ~cur'.held
BY DEF Idle, SeedStep, TriggerStep, NoOutput, NoMarket, Markets

LEMMA CurrentInit == Init => Current
BY DEF Init, Current, SeedStep, TriggerStep, NoOutput, NoMarket

LEMMA CurrentNext == Typed /\ Fitting /\ Current /\ [Next]_vars => Current'
<1> SUFFICES ASSUME Typed, Fitting, Current, [Next]_vars PROVE Current'
  OBVIOUS
<1>0. conf \in Configs /\ now \in Markets /\ now \in Nat /\ 1 <= now
  BY Constants DEF Typed, Markets
<1>1. CASE CloseWindow \/ (\E t \in Triggers : LockTtl(t)) \/ HookRead \/ HookWrite
            \/ Rebuild \/ PassStart \/ TimerStart \/ BoundaryNoPrice \/ Persist \/ StoreContext
            \/ WindowEndSell \/ (\E t \in Triggers : (\E b \in BOOLEAN : OrderFills(t, b)) \/ StopLossFills(t))
            \/ UNCHANGED vars
  <2>1. UNCHANGED <<now, spec, queue, cur, out>> /\ target' \in {target, spec, now}
    BY <1>1 DEF CloseWindow, LockTtl, HookRead, HookWrite, Rebuild, PassStart, TimerStart,
       BoundaryNoPrice, Persist, StoreContext, WindowEndSell, OrderFills, StopLossFills, Take, vars,
       clock, fast, stepVars, loopVars
  <2> QED
    BY <1>0, <2>1 DEF Current
<1>2. CASE NextMarket
  <2>1. now' = now + 1 /\ UNCHANGED <<spec, target, queue, cur, out>>
    BY <1>2 DEF NextMarket, fast, stepVars, loopVars
  <2>2. target \in Nat /\ spec \in Nat /\ out.m \in Nat
        /\ \A s \in queue \cup {cur} : s.m \in Nat
    BY <1>0, Constants DEF Typed, Windows, Outputs, Steps
  <2> QED
    BY <1>0, <2>1, <2>2 DEF Current
<1>3. CASE Publish \/ Crash \/ (\E b \in BOOLEAN : StepError(b)) \/ StepCut
  <2>1. UNCHANGED <<now, queue>> /\ Idle /\ spec' \in {spec, target, NoMarket}
    BY <1>3 DEF Publish, Crash, StepError, StepCut, clock, fast, stepVars
  <2> QED
    BY <1>0, <2>1, CurrentIdle DEF Current, NoMarket
<1>4. ASSUME NEW z \in BOOLEAN, NEW elapsed \in BOOLEAN, NEW gate \in BOOLEAN,
             PassEvaluate(z, elapsed, gate)
      PROVE  Current'
  <2> DEFINE c == SyncScope(work, target)
             s == IF c.slug = target THEN c
                  ELSE [c EXCEPT !.prev = "none", !.pend = FALSE, !.slug = target]
  <2>1. UNCHANGED <<now, spec, target, cur, out>> /\ target \in Windows
    BY <1>4 DEF PassEvaluate, clock, fast, Typed
  <2>2. UNCHANGED queue \/ EnqueueTrigger(WsKey(target, s.gen), target)
    BY <1>4 DEF PassEvaluate, stepVars
  <2>3. s \in Within(conf.attempts)
    BY <1>0, <2>1, ContextOps, SpecialWithin DEF Typed
  <2> HIDE DEF s
  <2>4. WsKey(target, s.gen) \in Triggers
    BY <1>0, <2>1, <2>3, KeysAreTriggers
  <2> QED
    BY <2>1, <2>2, <2>4, CurrentEnqueue DEF Current
<1>5. ASSUME NEW z \in BOOLEAN, NEW gate \in BOOLEAN, BoundaryEvaluate(z, gate)
      PROVE  Current'
  <2>1. UNCHANGED <<now, spec, target, cur, out>> /\ target \in Windows
    BY <1>5 DEF BoundaryEvaluate, clock, fast, Typed
  <2>2. UNCHANGED queue \/ EnqueueTrigger(WsKey(target, work.gen), target)
    BY <1>5 DEF BoundaryEvaluate, stepVars
  <2>3. WsKey(target, work.gen) \in Triggers
    BY <1>0, <2>1, KeysAreTriggers DEF Typed
  <2> QED
    BY <2>1, <2>2, <2>3, CurrentEnqueue DEF Current
<1>6. CASE HookCache
  <2>1. UNCHANGED <<now, spec, target, cur, out>>
    BY <1>6 DEF HookCache, clock, loopVars
  <2>2. UNCHANGED queue \/ (EnqueueTrigger(<<"re", 0, hctx.gen>>, NoMarket) /\ hctx.gen >= 1)
    BY <1>6 DEF HookCache, stepVars, Fitting
  <2>3. hctx.gen >= 1 => <<"re", 0, hctx.gen>> \in Triggers
    BY <1>0, KeysAreTriggers DEF Typed
  <2>4. NoMarket <= now
    BY <1>0 DEF NoMarket
  <2> QED
    BY <2>1, <2>2, <2>3, <2>4, CurrentEnqueue DEF Current
<1>7. ASSUME NEW s \in queue, StepStart(s) PROVE Current'
  BY <1>7 DEF StepStart, Current, clock, fast
<1>8. CASE ApplyDeferred \/ \E r \in {"order", "retry", "none"} : BuyExecute(r)
  <2>1. UNCHANGED <<now, spec, target, queue, cur>> /\ ~out'.pass
    BY <1>8 DEF BuyExecute, ApplyDeferred, Output, clock, fast, stepVars, Fitting, Typed, Outputs
  <2> QED
    BY <2>1 DEF Current
<1>9. CASE RouteEdges
  <2>1. UNCHANGED <<now, spec>> /\ Idle
    BY <1>9 DEF RouteEdges, clock, fast
  <2>2. \A s \in queue' : s.role = "trigger" => s \in queue \cup {cur}
    BY <1>9 DEF RouteEdges, BuyStep
  <2> QED
    BY <1>0, <2>1, <2>2, CurrentIdle DEF Current
<1>10. ASSUME NEW pass \in BOOLEAN, NEW o \in 1 .. conf.outcomes, TriggerExecute(pass, o) PROVE Current'
  <2>1. UNCHANGED <<now, spec, target, queue, cur>> /\ out'.m = StepMarket(cur) /\ cur.role = "trigger"
    BY <1>10 DEF TriggerExecute, Output, clock, fast, stepVars
  <2>2. StepMarket(cur) <= now
    BY <1>0, <2>1 DEF StepMarket, Current
  <2> QED
    BY <2>1, <2>2 DEF Current
<1> QED
  BY <1>1, <1>2, <1>3, <1>4, <1>5, <1>6, <1>7, <1>8, <1>9, <1>10
     DEF Next, FastPath, StepEngine, OrderTasks

---------------------------------------------------------------------------
(* A trigger step is there once, and has no lock before it is over.        *)

Thinking == cur.role = "trigger" /\ pc \in {"exec", "store", "route"}

Unlocked ==
  /\ Seed \in keys
  /\ \A t \in Triggers : lock[t].st # "none" => t \in keys
  /\ \A s \in queue : s.role = "trigger" => s.by \in keys /\ lock[s.by].st = "none"
  /\ \A s, u \in queue : s.role = "trigger" /\ u.role = "trigger" /\ s.by = u.by => s = u
  /\ cur.role = "trigger" => cur.by \in keys
  /\ Thinking => /\ lock[cur.by].st = "none"
                 /\ \A s \in queue : s.role = "trigger" => s.by # cur.by

LEMMA UnlockedInit == Init => Unlocked
<1> SUFFICES ASSUME Init PROVE Unlocked
  OBVIOUS
<1>1. /\ keys = {Seed} /\ queue = {SeedStep} /\ cur = SeedStep /\ pc = "idle" /\ conf \in Configs
      /\ lock = [t \in Triggers |-> NoLock] /\ NoLock.st = "none"
  BY DEF Init, NoLock
<1>2. SeedStep.by = Seed /\ Seed \in Triggers
  BY <1>1, KeysAreTriggers, Constants DEF SeedStep, TriggerStep
<1>3. \A t \in Triggers : lock[t].st = "none"
  BY <1>1
<1> QED
  BY <1>1, <1>2, <1>3 DEF Unlocked, Thinking

\* The steps that leave locks and step in hand alone, and enqueue at most a
\* trigger step.
LEMMA UnlockedBeside ==
  ASSUME Typed, Unlocked, lock' = lock,
         UNCHANGED stepVars \/ \E t \in Triggers : \E m : EnqueueTrigger(t, m),
         cur' = cur \/ cur' = SeedStep, Thinking' => Thinking /\ cur' = cur
  PROVE  Unlocked'
<1>1. CASE UNCHANGED stepVars
  BY <1>1 DEF Unlocked, stepVars, SeedStep, TriggerStep
<1>2. ASSUME NEW t \in Triggers, NEW m, EnqueueTrigger(t, m), ~UNCHANGED stepVars PROVE Unlocked'
  <2>1. t \notin keys /\ keys' = keys \cup {t} /\ queue' = queue \cup {TriggerStep(t, m)}
    BY <1>2 DEF EnqueueTrigger
  <2>2. TriggerStep(t, m).by = t /\ TriggerStep(t, m).role = "trigger" /\ lock[t].st = "none"
    BY <2>1 DEF TriggerStep, Unlocked
  <2> HIDE DEF TriggerStep
  <2>3. SeedStep.by = Seed /\ SeedStep.role = "trigger"
    BY DEF SeedStep, TriggerStep
  <2> QED
    <3>1. Seed \in keys' /\ \A x \in Triggers : lock'[x].st # "none" => x \in keys'
      BY <2>1 DEF Unlocked
    <3>2. \A x \in queue' : x.role = "trigger" => x.by \in keys' /\ lock'[x.by].st = "none"
      BY <2>1, <2>2 DEF Unlocked
    <3>3. \A x, u \in queue' : x.role = "trigger" /\ u.role = "trigger" /\ x.by = u.by => x = u
      BY <2>1, <2>2 DEF Unlocked
    <3>4. cur'.role = "trigger" => cur'.by \in keys'
      BY <2>1, <2>3 DEF Unlocked
    <3>5. ASSUME Thinking'
          PROVE  lock'[cur'.by].st = "none" /\ \A x \in queue' : x.role = "trigger" => x.by # cur'.by
      <4>1. Thinking /\ cur' = cur /\ cur.by \in keys
        BY <3>5 DEF Unlocked, Thinking
      <4> QED
        BY <2>1, <2>2, <4>1 DEF Unlocked
    <3> QED
      BY <3>1, <3>2, <3>3, <3>4, <3>5 DEF Unlocked
<1> QED
  BY <1>1, <1>2

\* Locks that are there change their state; those that are not are not touched.
LEMMA UnlockedSet ==
  ASSUME Typed, Unlocked, NEW T \in SUBSET Triggers, NEW st \in {"expired", "released", "consumed"},
         \A t \in T : lock[t].st = "pending", lock' = SetLocks(T, st)
  PROVE  \A t \in Triggers : lock'[t].st = "none" <=> lock[t].st = "none"
BY SetLocksTyped DEF Typed

LEMMA UnlockedAcquire ==
  ASSUME Typed, Unlocked, Thinking, Acquire(cur.by)
  PROVE  /\ \A t \in Triggers : t # cur.by => (lock'[t].st = "none" <=> lock[t].st = "none")
         /\ cur.by \in Triggers /\ cur.by \in keys
<1> DEFINE L == SetLocks(PendingFor(out.m, out.o), "expired")
<1>1. lock' = [L EXCEPT ![cur.by] = Locked(cur.by)] /\ cur.by \in Triggers
  BY DEF Acquire, Typed, Steps
<1>2. L \in [Triggers -> Locks] /\ \A t \in Triggers : L[t].st = "none" <=> lock[t].st = "none"
  BY SetLocksTyped, PendingMeans DEF Typed
<1> HIDE DEF L
<1>3. \A t \in Triggers : t # cur.by => lock'[t] = L[t]
  BY <1>1, <1>2
<1> QED
  BY <1>1, <1>2, <1>3 DEF Unlocked, Thinking

LEMMA UnlockedNext == Typed /\ Fitting /\ Unlocked /\ [Next]_vars => Unlocked'
<1> SUFFICES ASSUME Typed, Fitting, Unlocked, [Next]_vars PROVE Unlocked'
  OBVIOUS
<1>0. lock \in [Triggers -> Locks] /\ conf \in Configs /\ SeedStep.by = Seed /\ SeedStep.role = "trigger"
  BY DEF Typed, SeedStep, TriggerStep
<1>1. CASE CloseWindow \/ NextMarket \/ (\E t \in Triggers : LockTtl(t)) \/ HookRead \/ HookWrite
            \/ (\E t \in Triggers : (\E b \in BOOLEAN : OrderFills(t, b)) \/ StopLossFills(t))
            \/ StoreContext \/ (\E pass \in BOOLEAN : \E o \in 1 .. conf.outcomes : TriggerExecute(pass, o))
            \/ (\E r \in {"order", "retry", "none"} : BuyExecute(r)) \/ UNCHANGED vars
  <2>1. UNCHANGED <<lock, cur>> /\ UNCHANGED stepVars /\ (Thinking' => Thinking)
    BY <1>1 DEF CloseWindow, NextMarket, LockTtl, HookRead, HookWrite, OrderFills, StopLossFills,
       StoreContext, TriggerExecute, BuyExecute, vars, onceVars, loopVars, stepVars, Thinking
  <2> QED
    BY <2>1, UnlockedBeside
<1>2. CASE Rebuild \/ PassStart \/ TimerStart \/ BoundaryNoPrice \/ WindowEndSell \/ Persist \/ Publish
            \/ Crash
  <2>1. lock' = lock /\ UNCHANGED stepVars /\ ~Thinking' /\ (cur' = cur \/ cur' = SeedStep)
    BY <1>2 DEF Rebuild, PassStart, TimerStart, BoundaryNoPrice, WindowEndSell, Persist, Publish, Crash,
       Take, Idle, onceVars, stepVars, Thinking
  <2> QED
    BY <2>1, UnlockedBeside
<1>3. ASSUME NEW z \in BOOLEAN, NEW elapsed \in BOOLEAN, NEW gate \in BOOLEAN,
             PassEvaluate(z, elapsed, gate)
      PROVE  Unlocked'
  <2> DEFINE c == SyncScope(work, target)
             s == IF c.slug = target THEN c
                  ELSE [c EXCEPT !.prev = "none", !.pend = FALSE, !.slug = target]
  <2>1. UNCHANGED <<lock, cur>> /\ ~Thinking' /\ target \in Windows
        /\ (UNCHANGED stepVars \/ EnqueueTrigger(WsKey(target, s.gen), target))
    BY <1>3 DEF PassEvaluate, onceVars, Thinking, Typed
  <2>2. s \in Within(conf.attempts)
    BY <1>0, <2>1, ContextOps, SpecialWithin DEF Typed
  <2> HIDE DEF s
  <2>3. WsKey(target, s.gen) \in Triggers
    BY <1>0, <2>1, <2>2, KeysAreTriggers
  <2> QED
    BY <2>1, <2>3, UnlockedBeside
<1>4. ASSUME NEW z \in BOOLEAN, NEW gate \in BOOLEAN, BoundaryEvaluate(z, gate)
      PROVE  Unlocked'
  <2>1. UNCHANGED <<lock, cur>> /\ ~Thinking' /\ target \in Windows
        /\ (UNCHANGED stepVars \/ EnqueueTrigger(WsKey(target, work.gen), target))
    BY <1>4 DEF BoundaryEvaluate, onceVars, Thinking, Typed
  <2>2. WsKey(target, work.gen) \in Triggers
    BY <1>0, <2>1, KeysAreTriggers DEF Typed
  <2> QED
    BY <2>1, <2>2, UnlockedBeside
<1>5. CASE HookCache
  <2>1. UNCHANGED <<lock, cur>> /\ (Thinking' => Thinking)
        /\ (UNCHANGED stepVars \/ (hctx.gen >= 1 /\ EnqueueTrigger(<<"re", 0, hctx.gen>>, NoMarket)))
    BY <1>5 DEF HookCache, onceVars, loopVars, Thinking, Fitting
  <2>2. hctx.gen >= 1 => <<"re", 0, hctx.gen>> \in Triggers
    BY <1>0, KeysAreTriggers DEF Typed
  <2> QED
    BY <2>1, <2>2, UnlockedBeside
<1>6. ASSUME NEW s \in queue, StepStart(s) PROVE Unlocked'
  <2>1. keys' = keys /\ queue' = queue \ {s} /\ cur' = s /\ lock' = SetLocks(Expired, "expired")
    BY <1>6 DEF StepStart
  <2>2. Expired \in SUBSET Triggers /\ \A t \in Expired : lock[t].st = "pending"
    BY DEF Expired, Typed
  <2>4. \A t \in Triggers : lock'[t].st = "none" <=> lock[t].st = "none"
    BY <2>1, <2>2, UnlockedSet
  <2>3. \A x \in queue : x.by \in Triggers
    BY DEF Typed, Steps
  <2> QED
    BY <2>1, <2>3, <2>4 DEF Unlocked, Thinking
<1>7. CASE ApplyDeferred \/ \E b \in BOOLEAN : StepError(b)
  <2>1. /\ UNCHANGED stepVars /\ (cur' = cur \/ cur' = SeedStep) /\ ~Thinking'
        /\ (lock' = lock \/ \E st \in {"released", "consumed"} : lock' = SetLocks(OwnLock, st))
    BY <1>0, <1>7 DEF ApplyDeferred, StepError, Idle, Thinking, Fitting
  <2>2. \A t \in Triggers : lock'[t].st = "none" <=> lock[t].st = "none"
    BY <1>0, <2>1, UnlockedSet, PendingMeans DEF OwnLock, PendingFor
  <2>3. \A x \in queue : x.by \in Triggers
    BY DEF Typed, Steps
  <2> QED
    BY <1>0, <2>1, <2>2, <2>3 DEF Unlocked, stepVars
<1>8. CASE RouteEdges \/ StepCut
  <2>1. keys' = keys /\ cur' = SeedStep /\ pc' = "idle"
    BY <1>8 DEF RouteEdges, StepCut, Idle, stepVars
  <2>2. lock' = lock \/ (out.pass /\ Acquire(cur.by))
    BY <1>8 DEF RouteEdges, StepCut
  <2>3. \A x \in queue' : x.role = "trigger" => x \in queue
    <3>1. BuyStep(cur.by, out.m, out.o, TRUE).role = "buy" /\ BuyStep(cur.by, out.m, out.o, FALSE).role = "buy"
      BY DEF BuyStep
    <3>2. CASE StepCut
      BY <3>2 DEF StepCut, stepVars
    <3>3. CASE RouteEdges
      BY <3>1, <3>3 DEF RouteEdges, Fitting
    <3> QED
      BY <1>8, <3>2, <3>3
  <2>4. \A x \in queue : x.by \in Triggers
    BY DEF Typed, Steps
  <2>5. CASE lock' = lock
    BY <1>0, <2>1, <2>3, <2>5 DEF Unlocked, Thinking
  <2>6. CASE out.pass /\ Acquire(cur.by)
    <3>1. Thinking
      BY <2>6, <1>8 DEF RouteEdges, StepCut, Fitting, Thinking
    <3> QED
      BY <1>0, <2>1, <2>3, <2>4, <2>6, <3>1, UnlockedAcquire DEF Unlocked, Thinking
  <2> QED
    BY <2>2, <2>5, <2>6
<1> QED
  BY <1>1, <1>2, <1>3, <1>4, <1>5, <1>6, <1>7, <1>8 DEF Next, FastPath, StepEngine, OrderTasks

---------------------------------------------------------------------------
(* A deferred once while InTime: one lock, one place-order step and one     *)
(* entry for each outcome.                                                  *)

\* The step in hand is a place-order step that is not over.
Placing ==
  cur.role = "buy" /\ (pc \in {"exec", "apply"} \/ (pc \in {"store", "route"} /\ out.res = "retry"))

Outstanding == {s \in queue : s.role = "buy"} \cup {s \in {cur} : Placing}

\* The step in hand has just placed its order.
Placed(s) == s = cur /\ pc = "apply" /\ out.res = "order"

Entered(t) == ord[t].st # "none" /\ t \notin slipped

Owns(s) == lock[s.by] = [m |-> 1, o |-> s.o, st |-> "pending"]

\* Lock u keeps others from entering outcome o, now or for good.
Bars(u, o) == lock[u].o = o /\ lock[u].st \in {"pending", "consumed"}

Promise ==
  /\ \A s \in Outstanding : s.held /\ s.m = 1 /\ Owns(s)
  /\ Placing => cur \notin queue
  /\ \A t \in Triggers : lock[t].st = "pending" => lock[t].m = 1
  /\ \A t, u \in Triggers : Entered(t) /\ Entered(u) /\ ord[t].o = ord[u].o => t = u
  /\ \A t \in Triggers : Entered(t) => /\ \E u \in Triggers : Bars(u, ord[t].o)
                                       /\ \A s \in Outstanding : s.o = ord[t].o => Placed(s)
  /\ (\E t \in Triggers : lock[t].st = "consumed") => consumed # <<>>
  /\ \A i \in DOMAIN consumed : consumed[i] = 1
  /\ consumed # <<>> => ~out.pass /\ (pc = "exec" => FiredFor(work, 1))

Promised == conf.deferred /\ InTime => Promise

LEMMA OutstandingTyped ==
  ASSUME Typed PROVE \A s \in Outstanding : s.by \in Triggers /\ s.role = "buy" /\ s \in Steps
BY DEF Typed, Steps, Outstanding, Placing

\* A step that keeps the locks, enters nothing, and adds nothing to place.
LEMMA PromiseStays ==
  ASSUME Typed, Promise, consumed' = consumed, lock' = lock,
         \A t \in Triggers : Entered(t)' => Entered(t) /\ ord'[t].o = ord[t].o,
         Outstanding' \subseteq Outstanding, Placing' => cur' \notin queue',
         out'.pass /\ consumed # <<>> => out.pass,
         pc' = "exec" /\ consumed # <<>> => FiredFor(work, 1)',
         \A s \in Outstanding' : Placed(s) => Placed(s)'
  PROVE  Promise'
<1>1. (\A s \in Outstanding : s.held /\ s.m = 1 /\ Owns(s))'
  BY DEF Promise, Owns
<1>2. (\A t, u \in Triggers : Entered(t) /\ Entered(u) /\ ord[t].o = ord[u].o => t = u)'
  BY DEF Promise
<1>3. (\A t \in Triggers : Entered(t) => /\ \E u \in Triggers : Bars(u, ord[t].o)
                                         /\ \A s \in Outstanding : s.o = ord[t].o => Placed(s))'
  BY DEF Promise, Bars
<1>4. (/\ \A t \in Triggers : lock[t].st = "pending" => lock[t].m = 1
       /\ (\E t \in Triggers : lock[t].st = "consumed") => consumed # <<>>
       /\ \A i \in DOMAIN consumed : consumed[i] = 1
       /\ consumed # <<>> => ~out.pass /\ (pc = "exec" => FiredFor(work, 1)))'
  BY DEF Promise
<1> QED
  BY <1>1, <1>2, <1>3, <1>4 DEF Promise

\* What the step in hand knows of the locks and orders while it is placing.
LEMMA PlacingKnows ==
  ASSUME Typed, Holder, Promise, Placing
  PROVE  /\ cur.held /\ cur.m = 1 /\ Owns(cur) /\ cur.by \in Triggers /\ cur \notin queue
         /\ OwnLock = {cur.by}
         /\ \A s \in Outstanding : s.o = cur.o => s = cur
         /\ pc # "apply" \/ out.res # "order" => \A t \in Triggers : Entered(t) => ord[t].o # cur.o
<1>1. cur \in Outstanding /\ cur.by \in Triggers /\ cur.role = "buy" /\ cur \in Steps
  BY DEF Outstanding, Typed, Steps, Placing
<1>2. cur.held /\ cur.m = 1 /\ Owns(cur) /\ cur \notin queue
  BY <1>1 DEF Promise
<1>3. OwnLock = {cur.by}
  BY <1>1, <1>2 DEF OwnLock, PendingFor, Holder, Owns
<1>4. ASSUME NEW s \in Outstanding, s.o = cur.o PROVE s = cur
  <2>1. s.by \in Triggers /\ s.role = "buy" /\ s \in Steps /\ s.held /\ s.m = 1 /\ Owns(s)
    BY OutstandingTyped DEF Promise
  <2>2. s.by = cur.by
    BY <1>1, <1>2, <1>4, <2>1 DEF Holder, Owns
  <2> QED
    BY <1>1, <1>2, <1>4, <2>1, <2>2 DEF Steps
<1>5. pc # "apply" \/ out.res # "order" => \A t \in Triggers : Entered(t) => ord[t].o # cur.o
  BY <1>1 DEF Promise, Placed
<1> QED
  BY <1>1, <1>2, <1>3, <1>4, <1>5

\* What is reconciled shows a consumed market as fired.
LEMMA ReconciledFired ==
  ASSUME conf \in Configs, NEW c \in Within(conf.attempts), consumed # <<>>, consumed \in Seq(Markets),
         \A i \in DOMAIN consumed : consumed[i] = 1
  PROVE  FiredFor(Reconciled(c), 1)
<1>1. Len(consumed) \in DOMAIN consumed /\ 1 \in DOMAIN consumed
  OBVIOUS
<1>2. CASE \A i \in DOMAIN consumed : FiredFor(c, consumed[i])
  BY <1>1, <1>2 DEF Reconciled
<1>3. CASE ~\A i \in DOMAIN consumed : FiredFor(c, consumed[i])
  <2>1. Reconciled(c) = MarkFired(c, 1)
    BY <1>1, <1>3 DEF Reconciled
  <2>2. MarkFired(c, 1).fired = TRUE /\ (conf.scope = "market" => MarkFired(c, 1).fm = 1)
    BY DEF MarkFired, ScopeOf, Within, Contexts
  <2> QED
    BY <2>1, <2>2 DEF FiredFor
<1> QED
  BY <1>2, <1>3

\* A place-order step ends its lock: what is left is about other outcomes.
LEMMA PromiseEnds ==
  ASSUME Typed, Holder, Promise, Placing, NEW st \in {"released", "consumed"},
         lock' = SetLocks({cur.by}, st), queue' = queue, ~Placing', pc' # "exec", ~out'.pass,
         \A t \in Triggers : Entered(t)' => Entered(t) /\ ord'[t].o = ord[t].o,
         st = "released" => consumed' = consumed /\ (pc # "apply" \/ out.res # "order"),
         st = "consumed" => consumed' = Append(consumed, 1)
  PROVE  Promise'
<1>1. /\ cur.by \in Triggers /\ cur \notin queue /\ Owns(cur)
      /\ \A s \in Outstanding : s.o = cur.o => s = cur
      /\ st = "released" => \A t \in Triggers : Entered(t) => ord[t].o # cur.o
  BY PlacingKnows
<1>2. /\ lock \in [Triggers -> Locks] /\ lock' \in [Triggers -> Locks]
      /\ \A t \in Triggers : /\ lock'[t].m = lock[t].m /\ lock'[t].o = lock[t].o
                             /\ lock'[t].st = IF t = cur.by THEN st ELSE lock[t].st
  BY SetLocksTyped DEF Typed
<1>3. Outstanding' = {s \in queue : s.role = "buy"}
  BY DEF Outstanding
<1>4. ASSUME NEW s \in Outstanding'
      PROVE  /\ s \in Outstanding /\ s.o # cur.o /\ s.held /\ s.m = 1 /\ Owns(s)' /\ ~Placed(s)
  <2>1. s \in Outstanding /\ s # cur
    BY <1>1, <1>3, <1>4 DEF Outstanding
  <2>2. s.o # cur.o /\ s.held /\ s.m = 1 /\ Owns(s) /\ s.by \in Triggers
    BY <1>1, <2>1, OutstandingTyped DEF Promise
  <2>3. lock[s.by].o = s.o /\ lock[cur.by].o = cur.o
    BY <1>1, <2>2 DEF Owns
  <2>4. s.by # cur.by
    BY <2>2, <2>3
  <2>5. lock'[s.by] = lock[s.by]
    BY <2>2, <2>4 DEF SetLocks
  <2> QED
    BY <2>1, <2>2, <2>5 DEF Owns, Placed
<1>5. (\A t, u \in Triggers : Entered(t) /\ Entered(u) /\ ord[t].o = ord[u].o => t = u)'
  BY DEF Promise
<1>6. ASSUME NEW t \in Triggers, Entered(t)'
      PROVE  /\ \E u \in Triggers : Bars(u, ord[t].o)'
             /\ \A s \in Outstanding' : s.o = ord'[t].o => Placed(s)'
  <2>1. Entered(t) /\ ord'[t].o = ord[t].o
    BY <1>6
  <2>2. PICK u \in Triggers : Bars(u, ord[t].o)
    BY <2>1 DEF Promise
  <2>3. st = "released" => u # cur.by
    <3>1. lock[u].o = ord[t].o /\ lock[cur.by].o = cur.o
      BY <1>1, <2>2 DEF Bars, Owns
    <3> QED
      BY <1>1, <2>1, <3>1
  <2>4. Bars(u, ord[t].o)'
    BY <1>2, <2>1, <2>2, <2>3 DEF Bars
  <2>5. \A s \in Outstanding' : s.o = ord'[t].o => FALSE
    BY <1>4, <2>1 DEF Promise
  <2> QED
    BY <2>4, <2>5
<1>7. (\A t \in Triggers : lock[t].st = "pending" => lock[t].m = 1)'
  BY <1>2 DEF Promise
<1>8. consumed' \in Seq(Markets) /\ (\A i \in DOMAIN consumed' : consumed'[i] = 1)
      /\ ((\E t \in Triggers : lock'[t].st = "consumed") => consumed' # <<>>)
  <2>1. CASE st = "released"
    BY <1>2, <2>1 DEF Promise, Typed
  <2>2. CASE st = "consumed"
    <3>1. consumed' = Append(consumed, 1) /\ consumed \in Seq(Markets) /\ 1 \in Markets
      BY <2>2, Constants DEF Typed, Markets
    <3>2. \A i \in DOMAIN consumed : consumed[i] = 1
      BY DEF Promise
    <3> QED
      BY <3>1, <3>2
  <2> QED
    BY <2>1, <2>2
<1> QED
  BY <1>4, <1>5, <1>6, <1>7, <1>8 DEF Promise

LEMMA PromiseBuy ==
  ASSUME Typed, Fitting, Holder, Promise, NEW r \in {"order", "retry", "none"}, BuyExecute(r)
  PROVE  Promise'
<1>1. /\ pc = "exec" /\ cur.role = "buy" /\ out' = Output(FALSE, cur.m, cur.o, r) /\ pc' = "apply"
      /\ ord' = IF r = "order" THEN Created ELSE ord
      /\ UNCHANGED <<cur, queue, lock, consumed, conf, slipped>>
  BY DEF BuyExecute, clock, onceVars, stepVars, history
<1>2. Placing /\ Placing'
  BY <1>1 DEF Placing
<1>3. /\ cur.by \in Triggers /\ cur \notin queue /\ Owns(cur)
      /\ \A s \in Outstanding : s.o = cur.o => s = cur
      /\ \A t \in Triggers : Entered(t) => ord[t].o # cur.o
  BY <1>1, <1>2, PlacingKnows
<1>4. out'.res = r /\ ~out'.pass
  BY <1>1 DEF Output
<1>5. Outstanding' = Outstanding
  BY <1>1, <1>2 DEF Outstanding
<1>6. CASE r # "order"
  <2>1. \A s \in Outstanding' : ~Placed(s)
    BY <1>1 DEF Placed
  <2>2. \A t \in Triggers : Entered(t)' => Entered(t) /\ ord'[t].o = ord[t].o
    BY <1>1, <1>6 DEF Entered
  <2> QED
    BY <1>1, <1>3, <1>4, <1>5, <2>1, <2>2, PromiseStays
<1>7. CASE r = "order"
  <2>1. /\ ord'[cur.by] = [m |-> cur.m, o |-> cur.o, st |-> "open"]
        /\ \A t \in Triggers : t # cur.by => ord'[t] = ord[t]
    BY <1>1, <1>7, CreatedTyped
  <2>2. \A t \in Triggers : t # cur.by /\ Entered(t)' => Entered(t) /\ ord'[t].o # cur.o
    BY <1>1, <1>3, <2>1 DEF Entered
  <2>3. (\A t, u \in Triggers : Entered(t) /\ Entered(u) /\ ord[t].o = ord[u].o => t = u)'
    BY <2>1, <2>2 DEF Promise
  <2>4. ASSUME NEW t \in Triggers, Entered(t)'
        PROVE  /\ \E u \in Triggers : Bars(u, ord[t].o)'
               /\ \A s \in Outstanding' : s.o = ord'[t].o => Placed(s)'
    <3>1. CASE t = cur.by
      <4>1. Bars(cur.by, ord[t].o)'
        BY <1>1, <1>3, <2>1, <3>1 DEF Bars, Owns
      <4>2. \A s \in Outstanding' : s.o = ord'[t].o => s = cur'
        BY <1>1, <1>3, <1>5, <2>1, <3>1
      <4> QED
        BY <1>1, <1>3, <1>4, <1>7, <4>1, <4>2 DEF Placed
    <3>2. CASE t # cur.by
      <4>1. Entered(t) /\ ord'[t].o = ord[t].o
        BY <2>1, <2>2, <2>4, <3>2
      <4>2. \A s \in Outstanding : s.o = ord[t].o => FALSE
        BY <1>1, <4>1 DEF Promise, Placed
      <4>3. \E u \in Triggers : Bars(u, ord[t].o)'
        BY <1>1, <4>1 DEF Promise, Bars
      <4> QED
        BY <1>5, <4>1, <4>2, <4>3
    <3> QED
      BY <3>1, <3>2
  <2>5. (\A s \in Outstanding : s.held /\ s.m = 1 /\ Owns(s))'
    BY <1>1, <1>5 DEF Promise, Owns
  <2> QED
    BY <1>1, <1>3, <1>4, <2>3, <2>4, <2>5 DEF Promise
<1> QED
  BY <1>6, <1>7

LEMMA PromiseApply ==
  ASSUME Typed, Fitting, Holder, Promise, InTime, ApplyDeferred
  PROVE  Promise'
<1>1. /\ pc = "apply" /\ pc' = "store" /\ cur.role = "buy" /\ Placing
      /\ UNCHANGED <<cur, queue, ord, conf, slipped>>
  BY DEF ApplyDeferred, Fitting, Placing, clock, stepVars, history
<1>2. cur.held /\ cur.m = 1 /\ OwnLock = {cur.by} /\ cur \notin queue
  BY <1>1, PlacingKnows
<1>3. late = {} /\ ~out.pass
  BY <1>1 DEF InTime, Fitting
<1>4. \A t \in Triggers : Entered(t)' => Entered(t) /\ ord'[t].o = ord[t].o
  BY <1>1 DEF Entered
<1>5. CASE out.res \in {"order", "none"}
  <2>1. /\ out' = out /\ ~Placing'
        /\ out.res = "order" => lock' = SetLocks({cur.by}, "consumed") /\ consumed' = Append(consumed, 1)
        /\ out.res = "none" => lock' = SetLocks({cur.by}, "released") /\ consumed' = consumed
    BY <1>1, <1>2, <1>3, <1>5 DEF ApplyDeferred, Placing
  <2>2. CASE out.res = "order"
    BY <1>1, <1>3, <1>4, <2>1, <2>2, PromiseEnds
  <2>3. CASE out.res = "none"
    BY <1>1, <1>3, <1>4, <2>1, <2>3, PromiseEnds
  <2> QED
    BY <1>5, <2>2, <2>3
<1>6. CASE out.res \notin {"order", "none"}
  <2>1. /\ lock' = lock /\ consumed' = consumed /\ out' = out
    BY <1>2, <1>3, <1>6 DEF ApplyDeferred
  <2>2. Outstanding' \subseteq Outstanding
    BY <1>1, <2>1 DEF Outstanding
  <2>3. \A s \in Outstanding' : ~Placed(s)
    BY <1>6 DEF Placed
  <2> QED
    BY <1>1, <1>2, <1>3, <1>4, <2>1, <2>2, <2>3, PromiseStays
<1> QED
  BY <1>5, <1>6

LEMMA PromiseStart ==
  ASSUME Typed, Fitting, Holder, Promise, InTime, NEW s \in queue, StepStart(s)
  PROVE  Promise'
<1>1. /\ pc = "idle" /\ pc' = "exec" /\ queue' = queue \ {s} /\ cur' = s
      /\ lock' = SetLocks(Expired, "expired") /\ work' = Reconciled(db)
      /\ UNCHANGED <<out, ord, consumed, conf, slipped>>
  BY DEF StepStart, clock, history
<1>2. lock' = lock
  <2>1. Expired = {}
    BY DEF Expired, InTime
  <2>2. SetLocks({}, "expired") = lock
    BY DEF SetLocks, Typed
  <2> QED
    BY <1>1, <2>1, <2>2
<1>3. Outstanding' \subseteq Outstanding
  BY <1>1 DEF Outstanding, Placing
<1>4. cur' \notin queue'
  BY <1>1
<1>5. consumed # <<>> => FiredFor(work, 1)'
  <2> SUFFICES ASSUME consumed # <<>> PROVE FiredFor(work, 1)'
    OBVIOUS
  <2>1. FiredFor(Reconciled(db), 1)
    BY ReconciledFired DEF Promise, Typed
  <2> QED
    BY <1>1, <2>1 DEF FiredFor
<1>6. \A x \in Outstanding' : ~Placed(x)
  BY <1>1 DEF Placed
<1>7. \A t \in Triggers : Entered(t)' => Entered(t) /\ ord'[t].o = ord[t].o
  BY <1>1 DEF Entered
<1> QED
  BY <1>1, <1>2, <1>3, <1>4, <1>5, <1>6, <1>7, PromiseStays

LEMMA PromiseExecute ==
  ASSUME Typed, Fitting, Promise, InTime, Current, NEW pass \in BOOLEAN, NEW o \in 1 .. conf.outcomes,
         TriggerExecute(pass, o)
  PROVE  Promise'
<1>1. /\ pc = "exec" /\ pc' = "store" /\ cur.role = "trigger"
      /\ UNCHANGED <<cur, queue, ord, lock, consumed, conf, slipped>>
  BY DEF TriggerExecute, clock, stepVars, history
<1>2. Outstanding' \subseteq Outstanding /\ ~Placing'
  BY <1>1 DEF Outstanding, Placing
<1>3. consumed # <<>> => ~out'.pass
  <2> SUFFICES ASSUME consumed # <<>> PROVE ~out'.pass
    OBVIOUS
  <2>1. FiredFor(work, 1)
    BY <1>1 DEF Promise
  <2>2. StepMarket(cur) = 1
    <3>1. cur.m \in 0 .. NMarkets /\ now = 1 /\ cur.m <= 1 /\ NMarkets \in Nat
      BY <1>1, Constants DEF Typed, Steps, InTime, Current
    <3>2. cur.m # 0 => cur.m = 1
      BY <3>1
    <3> QED
      BY <3>1, <3>2, Zenon DEF StepMarket, NoMarket
  <2>3. SyncScope(work, 1) = work
    BY <2>1 DEF SyncScope, FiredFor
  <2>4. out' = Output(FALSE, 1, NoOutcome, "done")
    BY <2>1, <2>2, <2>3 DEF TriggerExecute
  <2> QED
    BY <2>4 DEF Output
<1>4. \A x \in Outstanding' : ~Placed(x)
  BY <1>1 DEF Placed
<1>5. \A t \in Triggers : Entered(t)' => Entered(t) /\ ord'[t].o = ord[t].o
  BY <1>1 DEF Entered
<1> QED
  BY <1>1, <1>2, <1>3, <1>4, <1>5, PromiseStays

\* A lock is taken for an outcome nobody has entered or is about to enter.
LEMMA PromiseAcquires ==
  ASSUME Typed, Fitting, Unlocked, Promise, InTime, Current, pc = "route", out.pass,
         Acquire(cur.by), Idle, UNCHANGED <<ord, consumed, slipped>>,
         queue' = queue \/ queue' = queue \cup {BuyStep(cur.by, out.m, out.o, TRUE)}
  PROVE  Promise'
<1>0. /\ conf \in Configs /\ lock \in [Triggers -> Locks] /\ cur.by \in Triggers
      /\ out.o \in Sides /\ Thinking /\ lock[cur.by].st = "none"
  BY DEF Typed, Steps, Outputs, Fitting, Thinking, Unlocked
<1>1. out.m = 1 /\ 1 \in Windows
  BY <1>0, Constants DEF Current, InTime, Fitting, Typed, Markets, Windows
<1>2. PendingFor(1, out.o) = {} /\ consumed = <<>>
  BY <1>1 DEF Acquire, InTime, Promise
<1>3. /\ lock'[cur.by] = [m |-> 1, o |-> out.o, st |-> "pending"]
      /\ \A t \in Triggers : t # cur.by => lock'[t] = lock[t]
  <2>1. SetLocks({}, "expired") = lock
    BY DEF SetLocks, Typed
  <2> QED
    BY <1>0, <1>1, <1>2, <2>1 DEF Acquire, Locked
<1>4. \A t \in Triggers : ~Bars(t, out.o)
  BY <1>0, <1>2, PendingMeans DEF Promise, Bars
<1>5. /\ ~Placing' /\ pc' = "idle" /\ ~out'.pass
  BY DEF Idle, Placing, SeedStep, TriggerStep, NoOutput
<1>6. ASSUME NEW s \in Outstanding'
      PROVE  (s = BuyStep(cur.by, out.m, out.o, TRUE)) \/ (s \in Outstanding /\ s.o # out.o)
  <2>1. s \in Outstanding \/ s = BuyStep(cur.by, out.m, out.o, TRUE)
    BY <1>5, <1>6 DEF Outstanding
  <2>2. ASSUME s \in Outstanding PROVE s.o # out.o
    <3>1. Owns(s) /\ s.by \in Triggers
      BY <2>2, OutstandingTyped DEF Promise
    <3>2. lock[s.by].o = s.o /\ lock[s.by].st = "pending"
      BY <3>1 DEF Owns
    <3> QED
      BY <1>4, <3>1, <3>2 DEF Bars
  <2> QED
    BY <2>1, <2>2
<1>7. /\ BuyStep(cur.by, out.m, out.o, TRUE).held /\ BuyStep(cur.by, out.m, out.o, TRUE).m = 1
      /\ BuyStep(cur.by, out.m, out.o, TRUE).by = cur.by /\ BuyStep(cur.by, out.m, out.o, TRUE).o = out.o
  BY <1>0, <1>1 DEF BuyStep
<1>8. (\A s \in Outstanding : s.held /\ s.m = 1 /\ Owns(s))'
  <2> SUFFICES ASSUME NEW s \in Outstanding' PROVE s.held /\ s.m = 1 /\ Owns(s)'
    OBVIOUS
  <2>1. CASE s = BuyStep(cur.by, out.m, out.o, TRUE)
    BY <1>3, <1>7, <2>1 DEF Owns
  <2>2. CASE s \in Outstanding
    <3>1. s.held /\ s.m = 1 /\ Owns(s) /\ s.by \in Triggers
      BY <2>2, OutstandingTyped DEF Promise
    <3>2. s.by # cur.by
      BY <1>0, <3>1 DEF Owns
    <3> QED
      BY <1>3, <3>1, <3>2 DEF Owns
  <2> QED
    BY <1>6, <2>1, <2>2
<1>9. \A t \in Triggers : Entered(t)' <=> Entered(t)
  BY DEF Entered
<1>10. ASSUME NEW t \in Triggers, Entered(t)'
       PROVE  /\ \E u \in Triggers : Bars(u, ord[t].o)'
              /\ \A s \in Outstanding' : s.o = ord'[t].o => Placed(s)'
  <2>1. PICK u \in Triggers : Bars(u, ord[t].o)
    BY <1>9, <1>10 DEF Promise
  <2>2. u # cur.by /\ ord[t].o # out.o
    BY <1>0, <1>4, <2>1 DEF Bars
  <2>3. \A s \in Outstanding : s.o # ord[t].o
    BY <1>9, <1>10 DEF Promise, Placed
  <2>4. Bars(u, ord[t].o)'
    BY <1>3, <2>1, <2>2 DEF Bars
  <2> QED
    BY <1>6, <1>7, <2>2, <2>3, <2>4
<1>11. (\A t \in Triggers : lock[t].st = "pending" => lock[t].m = 1)'
  BY <1>3 DEF Promise
<1>12. (\E t \in Triggers : lock'[t].st = "consumed") => consumed' # <<>>
  BY <1>3 DEF Promise
<1> QED
  BY <1>2, <1>5, <1>8, <1>9, <1>10, <1>11, <1>12 DEF Promise

LEMMA PromiseRoute ==
  ASSUME Typed, Fitting, Holder, Unlocked, Promise, InTime, Current, conf.deferred,
         RouteEdges \/ StepCut
  PROVE  Promise'
<1>1. /\ pc \in {"apply", "store", "route"} /\ pc' = "idle" /\ ~Placing' /\ ~out'.pass /\ Idle
      /\ UNCHANGED <<ord, consumed, conf, slipped>>
  <2>1. SeedStep.role = "trigger" /\ ~NoOutput.pass
    BY DEF SeedStep, TriggerStep, NoOutput
  <2>2. pc' = "idle" /\ cur' = SeedStep /\ out' = NoOutput /\ Idle
    BY DEF RouteEdges, StepCut, Idle
  <2>3. pc \in {"apply", "store", "route"} /\ UNCHANGED <<ord, consumed, conf, slipped>>
    BY DEF RouteEdges, StepCut, clock, history
  <2> QED
    BY <2>1, <2>2, <2>3 DEF Placing
<1>2. CASE pc = "route" /\ out.pass /\ Acquire(cur.by)
          /\ (queue' = queue \/ queue' = queue \cup {BuyStep(cur.by, out.m, out.o, TRUE)})
  BY <1>1, <1>2, PromiseAcquires
<1>3. CASE lock' = lock /\ (queue' = queue \/ (pc = "route" /\ queue' = queue \cup {cur} /\ out.res = "retry"))
  <2>1. Outstanding' \subseteq Outstanding
    BY <1>1, <1>3 DEF Outstanding, Placing
  <2>2. \A s \in Outstanding' : ~Placed(s)
    <3> SUFFICES ASSUME NEW s \in Outstanding', Placed(s) PROVE FALSE
      OBVIOUS
    <3>1. pc = "apply" /\ queue' = queue /\ s = cur
      BY <1>3 DEF Placed
    <3>2. Placing /\ cur \in queue
      BY <1>1, <3>1 DEF Outstanding, Fitting, Placing
    <3> QED
      BY <3>2 DEF Promise
  <2>3. \A t \in Triggers : Entered(t)' => Entered(t) /\ ord'[t].o = ord[t].o
    BY <1>1 DEF Entered
  <2> QED
    BY <1>1, <1>3, <2>1, <2>2, <2>3, PromiseStays
<1> QED
  BY <1>2, <1>3 DEF RouteEdges, StepCut, stepVars

LEMMA PromiseError ==
  ASSUME Typed, Fitting, Holder, Promise, InTime, Current, NEW b \in BOOLEAN, StepError(b)
  PROVE  Promise'
<1>1. /\ pc = "exec" /\ pc' = "idle" /\ ~Placing' /\ ~out'.pass
      /\ lock' = (IF cur.held THEN SetLocks(OwnLock, "released") ELSE lock)
      /\ UNCHANGED <<consumed, queue, conf>>
  BY DEF StepError, Idle, Placing, SeedStep, TriggerStep, NoOutput, clock, stepVars
<1>2. \A t \in Triggers : Entered(t)' => Entered(t) /\ ord'[t].o = ord[t].o
  <2>1. CASE b
    <3>1. ord' = Created /\ slipped' = slipped \cup {cur.by}
      BY <2>1 DEF StepError
    <3> QED
      BY <3>1, CreatedTyped DEF Entered
  <2>2. CASE ~b
    BY <2>2 DEF StepError, Entered
  <2> QED
    BY <2>1, <2>2
<1>3. CASE cur.role = "buy"
  <2>1. Placing
    BY <1>1, <1>3 DEF Placing
  <2>2. lock' = SetLocks({cur.by}, "released")
    BY <1>1, <2>1, PlacingKnows
  <2> QED
    BY <1>1, <1>2, <2>1, <2>2, PromiseEnds
<1>4. CASE cur.role # "buy"
  <2>1. ~cur.held
    BY <1>4 DEF Current, Typed, Steps
  <2>2. lock' = lock
    BY <1>1, <2>1
  <2>3. Outstanding' \subseteq Outstanding /\ \A s \in Outstanding' : ~Placed(s)
    BY <1>1 DEF Outstanding, Placing, Placed
  <2> QED
    BY <1>1, <1>2, <2>2, <2>3, PromiseStays
<1> QED
  BY <1>3, <1>4

LEMMA PromiseCrash ==
  ASSUME Typed, Fitting, Promise, Crash
  PROVE  Promise'
<1>1. /\ pc' = "idle" /\ ~Placing' /\ ~out'.pass
      /\ UNCHANGED <<ord, consumed, queue, conf, lock, slipped>>
  BY DEF Crash, Idle, Placing, SeedStep, TriggerStep, NoOutput, clock, stepVars, onceVars, history
<1>2. Outstanding' = {s \in queue : s.role = "buy"}
  BY <1>1 DEF Outstanding
<1>3. \A s \in Outstanding' : ~Placed(s)
  <2> SUFFICES ASSUME NEW s \in Outstanding', Placed(s) PROVE FALSE
    OBVIOUS
  <2>1. Placing /\ cur \in queue
    BY <1>2 DEF Placed, Placing
  <2> QED
    BY <2>1 DEF Promise
<1>4. \A t \in Triggers : Entered(t)' => Entered(t) /\ ord'[t].o = ord[t].o
  BY <1>1 DEF Entered
<1>5. Outstanding' \subseteq Outstanding
  BY <1>2 DEF Outstanding
<1> QED
  BY <1>1, <1>3, <1>4, <1>5, PromiseStays

\* The steps of the fast path and of the order tasks, and the clock, leave the
\* locks and the step in hand alone, enqueue trigger steps only, and enter
\* nothing.
LEMMA PromiseBeside ==
  ASSUME Typed, Promise, conf' = conf, UNCHANGED <<lock, consumed, slipped>>, ~out'.pass \/ out' = out,
         \A s \in queue' : s.role = "buy" => s \in queue,
         \A s \in queue' : s.role \in {"buy", "trigger"},
         \A t \in Triggers : ord'[t].o = ord[t].o /\ (ord'[t].st # "none" => ord[t].st # "none"),
         \/ UNCHANGED <<pc, cur, out, work>>
         \/ pc \in FastPcs \cup {"idle"} /\ pc' \in FastPcs \cup {"idle"}
            /\ (cur' = cur \/ cur'.role = "trigger")
         \/ pc = "store" /\ pc' = "route" /\ UNCHANGED <<cur, out>>
  PROVE  Promise'
<1>1. Outstanding' \subseteq Outstanding
  BY DEF Outstanding, Placing, FastPcs
<1>2. Placing' => cur' \notin queue'
  BY DEF Promise, Placing, FastPcs
<1>3. \A s \in Outstanding' : Placed(s) => Placed(s)'
  BY DEF Placed, FastPcs
<1>4. pc' = "exec" /\ consumed # <<>> => FiredFor(work, 1)'
  BY DEF Promise, FiredFor, FastPcs
<1>5. \A t \in Triggers : Entered(t)' => Entered(t) /\ ord'[t].o = ord[t].o
  BY DEF Entered
<1> QED
  BY <1>1, <1>2, <1>3, <1>4, <1>5, PromiseStays

LEMMA EnqueueBeside ==
  ASSUME Typed, queue' = queue \/ \E k, m : EnqueueTrigger(k, m)
  PROVE  \A s \in queue' : s.role \in {"buy", "trigger"} /\ (s.role = "buy" => s \in queue)
BY DEF EnqueueTrigger, TriggerStep, stepVars, Typed, Steps

LEMMA PromiseNext ==
  ASSUME Typed, Typed', Fitting, Holder, Unlocked, Current, Promised, Next
  PROVE  Promised'
<1> SUFFICES ASSUME conf'.deferred, InTime' PROVE Promise'
  BY DEF Promised
<1>0. conf \in Configs /\ conf' = conf
  <2>1. conf' = conf
    BY DEF Next, CloseWindow, NextMarket, LockTtl, FastPath, Rebuild, PassStart, TimerStart,
       BoundaryNoPrice, WindowEndSell, Persist, Publish, PassEvaluate, BoundaryEvaluate, StepEngine,
       StepStart, TriggerExecute, BuyExecute, ApplyDeferred, StoreContext, RouteEdges, OrderTasks,
       OrderFills, StopLossFills, HookRead, HookWrite, HookCache, StepError, StepCut, Crash, clock
  <2> QED
    BY <2>1 DEF Typed
<1>1. ASSUME UNCHANGED <<now, late>> PROVE Promise /\ InTime
  BY <1>0, <1>1 DEF InTime, Promised
<1>2. CASE NextMarket
  BY <1>2 DEF NextMarket, InTime, Typed, Markets
<1>3. CASE \E t \in Triggers : LockTtl(t)
  BY <1>3 DEF LockTtl, InTime
<1>4. CASE CloseWindow \/ HookRead \/ HookWrite
  <2>1. UNCHANGED <<now, late, lock, consumed, slipped, queue, ord, pc, cur, out, work>>
    BY <1>4 DEF CloseWindow, HookRead, HookWrite, clock, onceVars, stepVars, loopVars, history
  <2> QED
    BY <1>0, <1>1, <2>1, EnqueueBeside, PromiseBeside
<1>5. CASE \E t \in Triggers : (\E b \in BOOLEAN : OrderFills(t, b)) \/ StopLossFills(t)
  <2>1. UNCHANGED <<now, late, lock, consumed, slipped, queue, pc, cur, out, work>>
    BY <1>5 DEF OrderFills, StopLossFills, clock, onceVars, stepVars, loopVars, history
  <2>2. \A t \in Triggers : ord'[t].o = ord[t].o /\ (ord'[t].st # "none" => ord[t].st # "none")
    BY <1>5 DEF OrderFills, StopLossFills, Typed, Orders
  <2> QED
    BY <1>0, <1>1, <2>1, <2>2, EnqueueBeside, PromiseBeside
<1>6. CASE HookCache
  <2>1. UNCHANGED <<now, late, lock, consumed, slipped, ord, pc, cur, out, work>>
    BY <1>6 DEF HookCache, clock, onceVars, loopVars, history
  <2>2. queue' = queue \/ \E k, m : EnqueueTrigger(k, m)
    BY <1>6 DEF HookCache, stepVars
  <2> QED
    BY <1>0, <1>1, <2>1, <2>2, EnqueueBeside, PromiseBeside
<1>7. CASE Rebuild \/ PassStart \/ TimerStart \/ BoundaryNoPrice \/ Persist \/ Publish
  <2>1. /\ UNCHANGED <<now, late, lock, consumed, slipped, ord, queue>>
        /\ pc \in FastPcs \cup {"idle"} /\ pc' \in FastPcs \cup {"idle"}
        /\ (cur' = cur \/ cur'.role = "trigger") /\ (~out'.pass \/ out' = out)
    BY <1>7 DEF Rebuild, PassStart, TimerStart, BoundaryNoPrice, Persist, Publish, Take, Idle,
       SeedStep, TriggerStep, NoOutput, FastPcs, clock, onceVars, stepVars, history
  <2> QED
    BY <1>0, <1>1, <2>1, EnqueueBeside, PromiseBeside
<1>8. CASE WindowEndSell
  <2>1. UNCHANGED <<now, late, lock, consumed, slipped, queue, cur, out>> /\ pc = "sell" /\ pc' = "persist"
    BY <1>8 DEF WindowEndSell, clock, onceVars, stepVars, history
  <2>2. \A t \in Triggers : ord'[t].o = ord[t].o /\ (ord'[t].st # "none" => ord[t].st # "none")
    BY <1>8 DEF WindowEndSell, Typed, Orders
  <2> QED
    BY <1>0, <1>1, <2>1, <2>2, EnqueueBeside, PromiseBeside DEF FastPcs
<1>9. ASSUME NEW z \in BOOLEAN, NEW elapsed \in BOOLEAN, NEW gate \in BOOLEAN,
             PassEvaluate(z, elapsed, gate)
      PROVE  Promise'
  <2>1. UNCHANGED <<now, late, lock, consumed, slipped, ord, cur, out>> /\ pc = "pass" /\ pc' = "persist"
    BY <1>9 DEF PassEvaluate, clock, onceVars, history
  <2>2. queue' = queue \/ \E k, m : EnqueueTrigger(k, m)
    BY <1>9 DEF PassEvaluate, stepVars
  <2> QED
    BY <1>0, <1>1, <2>1, <2>2, EnqueueBeside, PromiseBeside DEF FastPcs
<1>10. ASSUME NEW z \in BOOLEAN, NEW gate \in BOOLEAN, BoundaryEvaluate(z, gate)
      PROVE  Promise'
  <2>1. UNCHANGED <<now, late, lock, consumed, slipped, ord, cur, out>> /\ pc = "boundary" /\ pc' = "persist"
    BY <1>10 DEF BoundaryEvaluate, clock, onceVars, history
  <2>2. queue' = queue \/ \E k, m : EnqueueTrigger(k, m)
    BY <1>10 DEF BoundaryEvaluate, stepVars
  <2> QED
    BY <1>0, <1>1, <2>1, <2>2, EnqueueBeside, PromiseBeside DEF FastPcs
<1>11. CASE StoreContext
  <2>1. UNCHANGED <<now, late, lock, consumed, slipped, ord, queue, cur, out>> /\ pc = "store" /\ pc' = "route"
    BY <1>11 DEF StoreContext, clock, onceVars, stepVars, history
  <2> QED
    BY <1>0, <1>1, <2>1, EnqueueBeside, PromiseBeside
<1>12. ASSUME NEW s \in queue, StepStart(s) PROVE Promise'
  BY <1>1, <1>12, PromiseStart DEF StepStart, clock
<1>13. ASSUME NEW pass \in BOOLEAN, NEW o \in 1 .. conf.outcomes, TriggerExecute(pass, o) PROVE Promise'
  BY <1>1, <1>13, PromiseExecute DEF TriggerExecute, clock
<1>14. ASSUME NEW r \in {"order", "retry", "none"}, BuyExecute(r) PROVE Promise'
  BY <1>1, <1>14, PromiseBuy DEF BuyExecute, clock, onceVars
<1>15. CASE ApplyDeferred
  BY <1>1, <1>15, PromiseApply DEF ApplyDeferred, clock
<1>16. CASE RouteEdges \/ StepCut
  BY <1>0, <1>1, <1>16, PromiseRoute DEF RouteEdges, StepCut, clock
<1>17. ASSUME NEW b \in BOOLEAN, StepError(b) PROVE Promise'
  BY <1>1, <1>17, PromiseError DEF StepError, clock
<1>18. CASE Crash
  BY <1>1, <1>18, PromiseCrash DEF Crash, clock, onceVars
<1> QED
  BY <1>2, <1>3, <1>4, <1>5, <1>6, <1>7, <1>8, <1>9, <1>10, <1>11, <1>12, <1>13, <1>14, <1>15, <1>16,
     <1>17, <1>18 DEF Next, FastPath, StepEngine, OrderTasks

LEMMA PromiseInit == Init => Promised
<1> SUFFICES ASSUME Init PROVE Promise
  BY DEF Promised
<1>1. Outstanding = {} /\ ~Placing
  BY DEF Init, Outstanding, Placing, SeedStep, TriggerStep
<1>2. \A t \in Triggers : ~Entered(t) /\ lock[t].st \notin {"pending", "consumed"}
  BY DEF Init, Entered, NoOrder, NoLock
<1>3. consumed = <<>>
  BY DEF Init
<1> QED
  BY <1>1, <1>2, <1>3 DEF Promise

LEMMA PromiseSpec == Spec => []Promised
<1>1. Typed /\ Typed' /\ Fitting /\ Holder /\ Unlocked /\ Current /\ Promised /\ [Next]_vars => Promised'
  <2> SUFFICES ASSUME Typed, Typed', Fitting, Holder, Unlocked, Current, Promised, [Next]_vars
      PROVE  Promised'
    OBVIOUS
  <2>1. CASE Next
    BY <2>1, PromiseNext
  <2>2. CASE UNCHANGED vars
    BY <2>2 DEF vars, clock, fast, loopVars, stepVars, onceVars, hooks, history, Promised, Promise,
       InTime, Outstanding, Placing, Placed, Entered, Owns, Bars, FiredFor
  <2> QED
    BY <2>1, <2>2
<1>2. Init => Holder
  BY DEF Init, Holder, NoLock
<1> QED
  BY <1>1, <1>2, TypedSpec, HolderNext, UnlockedInit, UnlockedNext, CurrentInit, CurrentNext, PromiseInit,
     PTL DEF Spec

\* A scope has no more keys than the node has attempts, and one.
LEMMA KeysBounded ==
  ASSUME Typed, NEW s \in Windows
  PROVE  IsFiniteSet(KeysOf(s)) /\ Cardinality(KeysOf(s)) <= conf.attempts + 1
<1>0. conf.attempts \in Nat
  BY Constants DEF Typed
<1>1. KeysOf(s) \subseteq {s} \X (0 .. conf.attempts)
  BY DEF KeysOf, Typed
<1>2. IsFiniteSet(0 .. conf.attempts) /\ Cardinality(0 .. conf.attempts) = conf.attempts + 1
  BY <1>0, FS_Interval
<1>3. IsFiniteSet({s}) /\ Cardinality({s}) = 1
  BY FS_Singleton
<1>4. /\ IsFiniteSet({s} \X (0 .. conf.attempts))
      /\ Cardinality({s} \X (0 .. conf.attempts)) = 1 * (conf.attempts + 1)
  BY <1>2, <1>3, FS_Product
<1>5. IsFiniteSet(KeysOf(s)) /\ Cardinality(KeysOf(s)) <= Cardinality({s} \X (0 .. conf.attempts))
  BY <1>1, <1>4, FS_Subset
<1> QED
  BY <1>0, <1>4, <1>5

LEMMA UsedBounded ==
  ASSUME Typed, Counted, ~conf.deferred, NEW s \in Windows, NEW E, E \subseteq UsedIn(s)
  PROVE  Cardinality(E) <= conf.attempts + 1
<1>1. IsFiniteSet(UsedIn(s)) /\ Cardinality(UsedIn(s)) <= Cardinality(KeysOf(s))
  BY DEF Counted
<1>2. IsFiniteSet(E) /\ Cardinality(E) <= Cardinality(UsedIn(s))
  BY <1>1, FS_Subset
<1>3. IsFiniteSet(KeysOf(s)) /\ Cardinality(KeysOf(s)) <= conf.attempts + 1 /\ conf.attempts \in Nat
  BY KeysBounded, Constants DEF Typed
<1>4. Cardinality(E) \in Nat /\ Cardinality(UsedIn(s)) \in Nat /\ Cardinality(KeysOf(s)) \in Nat
  BY <1>1, <1>2, <1>3, FS_CardinalityType
<1> QED
  BY <1>1, <1>2, <1>3, <1>4

LEMMA AtMostOne ==
  ASSUME NEW E, \A t, u \in E : t = u
  PROVE  Cardinality(E) <= 1
<1>1. CASE E = {}
  BY <1>1, FS_EmptySet
<1>2. CASE E # {}
  <2>1. PICK t : E = {t}
    BY <1>2
  <2> QED
    BY <2>1, FS_Singleton
<1> QED
  BY <1>1, <1>2

\* Whatever updates of the context get lost, and whoever fails or crashes
\* where, a market is entered once and once more for each re-entry allowed,
\* whichever of its outcomes passes, and in run scope so is the whole run.
\* With a deferred once that holds of each outcome of a market by itself, as
\* long as no lock has outlived its TTL and the first window is the current
\* one, and for the entries whose step did not fail once the order was there.
THEOREM OnceEntriesBounded == Spec => []EntriesBounded
<1>1. Typed /\ Counted /\ Promised => EntriesBounded
  <2> SUFFICES ASSUME Typed, Counted, Promised PROVE EntriesBounded
    OBVIOUS
  <2>0. conf.attempts \in Nat /\ conf.deferred \in BOOLEAN
    BY Constants DEF Typed
  <2> DEFINE all == UNION {Entries(m) : m \in Markets}
  <2>1. ASSUME conf.deferred /\ InTime, NEW m \in Markets, NEW o \in Outcomes
        PROVE  Cardinality(EntriesOf(m, o) \ slipped) <= conf.attempts + 1
    <3> DEFINE E == EntriesOf(m, o) \ slipped
    <3>1. \A t, u \in E : t = u
      BY <2>1 DEF Promised, Promise, Entered, EntriesOf, Entries
    <3>2. IsFiniteSet(E)
      <4>1. E = {} \/ \E t : E = {t}
        BY <3>1
      <4> QED
        BY <4>1, FS_EmptySet, FS_Singleton
    <3> HIDE DEF E
    <3>3. Cardinality(E) <= 1 /\ Cardinality(E) \in Nat
      BY <3>1, <3>2, AtMostOne, FS_CardinalityType
    <3>4. Cardinality(E) <= conf.attempts + 1
      BY <2>0, <3>3
    <3> QED
      BY <3>4 DEF E
  <2>2. ASSUME ~conf.deferred
        PROVE  /\ \A m \in Markets : Cardinality(Entries(m)) <= conf.attempts + 1
               /\ conf.scope = "run" => Cardinality(all) <= conf.attempts + 1
    <3>1. \A m \in Markets : Entries(m) \subseteq UsedIn(ScopeOf(m)) /\ ScopeOf(m) \in Windows
      BY EntriesUsed
    <3>2. \A m \in Markets : Cardinality(Entries(m)) <= conf.attempts + 1
      BY <2>2, <3>1, UsedBounded
    <3>3. ASSUME conf.scope = "run" PROVE Cardinality(all) <= conf.attempts + 1
      <4>1. \A m \in Markets : ScopeOf(m) = 0
        BY <3>3 DEF ScopeOf, NoMarket
      <4>2. all \subseteq UsedIn(0)
        BY <3>1, <4>1
      <4>3. 0 \in Windows
        BY Constants DEF Typed, NoMarket
      <4> HIDE DEF all
      <4> QED
        BY <2>2, <4>2, <4>3, UsedBounded
    <3> QED
      BY <3>2, <3>3
  <2> QED
    BY <2>0, <2>1, <2>2 DEF EntriesBounded
<1> QED
  BY <1>1, TypedSpec, CountedSpec, PromiseSpec, PTL
=============================================================================
