---------------------------- MODULE OnceTrigger ----------------------------
(***************************************************************************)
(* A market price trigger that fires once (per market or per run), the     *)
(* fast path that watches prices for it, and the order its action places.  *)
(*                                                                         *)
(* The state of the trigger lives in the context of its run, a JSON column *)
(* that everyone reads, changes and writes back as a whole: the websocket  *)
(* pass and the timers work on a copy in the fast path's cache, a step on  *)
(* the copy it read when it started, and the tasks of the order engine     *)
(* (buy fill lock, re-entry after a stop loss) on the row itself.  The     *)
(* flow loop is one task, so passes, timers and steps exclude each other;  *)
(* the order tasks run beside it.  What survives lost updates are the      *)
(* idempotency keys of steps and of the fired trigger.                     *)
(*                                                                         *)
(* One run, one trigger node, one place-order node behind it; markets are  *)
(* the windows of an auto scope, numbered in time.  A trigger may watch    *)
(* several outcomes of its market; a price is in or out of its zone, and   *)
(* which outcome passes is a choice, as are elapsed confirmation times,    *)
(* guards and what a place-order node decides.                             *)
(***************************************************************************)
EXTENDS Naturals, FiniteSets, Sequences

CONSTANTS
  NMarkets,     \* bound on the windows the clock goes through
  NOutcomes,    \* bound on the outcomes a trigger watches
  MaxAttempts,  \* bound on reentry_max_attempts
  Configs       \* the configurations of the two nodes, see Configuration

\* markets: windows in the run's life.  outcomes: the watched outcomes.
\* faults: what may fail.  scope: onceScope.  attempts: reentry_max_attempts.  deferred:
\* deferOnceUntilOrderAccepted.  confirm: confirmationMs > 0.  level:
\* level_above or level_below, crossed whenever in the zone.  first: a first
\* price in the zone counts (window mode last, custom_range).  window: the
\* trigger has a sub-window, and sells at its end.  fillLock: buyFillLock.
Configuration ==
  [markets : 1 .. NMarkets, outcomes : 1 .. NOutcomes,
   faults : SUBSET {"crash", "error"}, scope : {"market", "run"},
   attempts : 0 .. MaxAttempts, deferred : BOOLEAN, confirm : BOOLEAN, level : BOOLEAN,
   first : BOOLEAN, window : BOOLEAN, fillLock : BOOLEAN]

ASSUME OnceAssumption ==
  /\ NMarkets \in Nat \ {0} /\ NOutcomes \in Nat \ {0} /\ MaxAttempts \in Nat
  /\ Configs \subseteq Configuration

Markets == 1 .. NMarkets
Outcomes == 1 .. NOutcomes
Gens == 0 .. MaxAttempts

VARIABLES
  conf,            \* the configuration
  now, open,       \* the current window; is its sub-window still open
  db,              \* trade_flow_runs.context_json: the state of the two nodes
  cache, spec,     \* the fast path's copy, and the market its node spec has
  pc, work, dirty, target, \* the flow loop: place, copy in hand, context_dirty, its market
  cur, out,        \* the step in hand, and the output of its node
  queue, keys,     \* queued steps, idempotency keys of the steps ever enqueued
  onceKeys,        \* idempotency_keys: flow-once-fired
  lock, late, consumed, \* trade_flow_deferred_once_locks: state by the step that
                   \* acquired it, locks past expires_at, markets in order of consumption
  ord,             \* the orders of the action, by the trigger step they come from
  hook, hctx,      \* a task of the order engine in the run's context
  slipped,         \* history: orders whose step failed once they were created
  cut              \* history: steps that failed once their node was done

loopVars == <<pc, work, dirty, target, cur, out>>
stepVars == <<queue, keys>>
onceVars == <<onceKeys, lock, late, consumed>>
clock == <<conf, now, open>>
fast == <<cache, spec>>
hooks == <<hook, hctx>>
history == <<slipped, cut>>
vars == <<clock, db, fast, loopVars, stepVars, onceVars, ord, hooks, history>>

NoMarket == 0
NoOutcome == 0

\* Trigger steps, by idempotency key: seed:<run>, ws-once:<market>:<gen>,
\* reentry:<gen> (which does not name the market).
Seed == <<"seed", 0, 0>>
Triggers == {Seed} \cup ({"ws"} \X (0 .. NMarkets) \X Gens) \cup ({"re"} \X {0} \X (1 .. MaxAttempts))

\* A step: a trigger step, which names a market if the fast path enqueued it,
\* or the place-order step that followed one.
TriggerStep(t, m) == [role |-> "trigger", by |-> t, m |-> m, o |-> NoOutcome, held |-> FALSE]
BuyStep(t, m, o, held) == [role |-> "buy", by |-> t, m |-> m, o |-> o, held |-> held]
Steps == [role : {"trigger", "buy"}, by : Triggers, m : 0 .. NMarkets, o : 0 .. NOutcomes,
          held : BOOLEAN]
SeedStep == TriggerStep(Seed, NoMarket)

Contexts == [fired : BOOLEAN, fm : 0 .. NMarkets, blk : BOOLEAN, gen : Gens,
             att : Gens, am : 0 .. NMarkets, slug : 0 .. NMarkets,
             prev : {"none", "in", "out"}, pend : BOOLEAN, mark : BOOLEAN,
             sold : SUBSET Markets]

Fresh == [fired |-> FALSE, fm |-> NoMarket, blk |-> FALSE, gen |-> 0, att |-> 0, am |-> NoMarket,
          slug |-> NoMarket, prev |-> "none", pend |-> FALSE, mark |-> FALSE, sold |-> {}]

---------------------------------------------------------------------------
(* The once state in a context.                                            *)

\* The part of a market in keys and in the fired state.
ScopeOf(m) == IF conf.scope = "market" THEN m ELSE NoMarket

FiredFor(c, m) == c.fired /\ (conf.scope = "market" => c.fm = m)

ClearOnce(c) == [c EXCEPT !.fired = FALSE, !.fm = NoMarket, !.blk = FALSE]

ClearRuntime(c) == [c EXCEPT !.prev = "none", !.pend = FALSE, !.mark = FALSE]

MarkFired(c, m) == [c EXCEPT !.fired = TRUE, !.fm = ScopeOf(m), !.blk = FALSE]

\* In market scope a state fired for another market is dropped.
SyncScope(c, m) ==
  IF conf.scope = "market" /\ c.fired /\ c.fm # m THEN ClearOnce(c) ELSE c

\* A new window: prices, markers and once state of the last one go, and with
\* them the re-entry generation.
Rollover(c, m) ==
  IF c.slug = m THEN c
  ELSE [ClearOnce(ClearRuntime(c)) EXCEPT !.gen = 0, !.slug = m]

\* Every consumed lock whose market the context does not show as fired marks
\* it, in order of consumption.  The context holds one fired market: as soon as
\* one lock marks it, those after it do too, and the last one stays.
Reconciled(c) ==
  IF \A i \in DOMAIN consumed : FiredFor(c, consumed[i]) THEN c
  ELSE MarkFired(c, consumed[Len(consumed)])

AttemptsUsed(c, m) == IF c.am = m THEN c.att ELSE 0

\* Mutant: the attempt is counted twice.
ReenteredTwice(c, m) ==
  [ClearRuntime(ClearOnce(c)) EXCEPT !.att = AttemptsUsed(c, m) + 2, !.am = m,
                                     !.gen = AttemptsUsed(c, m) + 2]

\* What a re-entry writes: attempts of the action, the next generation and a
\* cleared trigger.
Reentered(c, m) ==
  [ClearRuntime(ClearOnce(c)) EXCEPT !.att = AttemptsUsed(c, m) + 1, !.am = m,
                                     !.gen = AttemptsUsed(c, m) + 1]

Crossed(prev, z, first) == z /\ (conf.level \/ prev = "out" \/ (prev = "none" /\ first))

\* ON CONFLICT (run_id, idempotency_key) DO NOTHING.
EnqueueTrigger(t, m) ==
  IF t \in keys THEN UNCHANGED stepVars
  ELSE keys' = keys \cup {t} /\ queue' = queue \cup {TriggerStep(t, m)}

WsKey(m, g) == <<"ws", ScopeOf(m), g>>

NoHook == [kind |-> "idle", by |-> Seed]
NoOutput == [pass |-> FALSE, m |-> NoMarket, o |-> NoOutcome, res |-> "none"]
NoLock == [m |-> NoMarket, o |-> NoOutcome, st |-> "none"]
NoOrder == [m |-> NoMarket, o |-> NoOutcome, st |-> "none"]

\* The loop is back at its select: nothing is in hand.
Idle ==
  /\ pc' = "idle" /\ work' = Fresh /\ dirty' = FALSE /\ target' = NoMarket
  /\ cur' = SeedStep /\ out' = NoOutput

---------------------------------------------------------------------------
Init ==
  /\ conf \in Configs
  /\ now = 1 /\ open = TRUE
  /\ db = Fresh /\ cache = Fresh /\ spec = NoMarket
  /\ pc = "idle" /\ work = Fresh /\ dirty = FALSE /\ target = NoMarket
  /\ cur = SeedStep /\ out = NoOutput
  /\ queue = {SeedStep} /\ keys = {Seed}
  /\ onceKeys = {} /\ lock = [t \in Triggers |-> NoLock] /\ late = {} /\ consumed = <<>>
  /\ ord = [t \in Triggers |-> NoOrder]
  /\ hook = NoHook /\ hctx = Fresh /\ slipped = {} /\ cut = {}

---------------------------------------------------------------------------
(* The clock.                                                              *)

CloseWindow ==
  /\ conf.window /\ open /\ open' = FALSE
  /\ UNCHANGED <<conf, now, db, fast, loopVars, stepVars, onceVars, ord, hooks, history>>

NextMarket ==
  /\ now < conf.markets /\ now' = now + 1 /\ open' = TRUE
  /\ UNCHANGED <<conf, db, fast, loopVars, stepVars, onceVars, ord, hooks, history>>

\* expires_at of a lock passes.
LockTtl(t) ==
  /\ lock[t].st = "pending" /\ t \notin late
  /\ late' = late \cup {t}
  /\ UNCHANGED <<clock, db, fast, loopVars, stepVars, onceKeys, lock, consumed, ord, hooks, history>>

---------------------------------------------------------------------------
(* The fast path: rebuild, websocket pass, timers.  All three work on a    *)
(* copy, then write the row if the copy is dirty, then replace the cache.  *)

Take(c, m, d, p) ==
  /\ work' = c /\ target' = m /\ dirty' = d /\ pc' = p
  /\ UNCHANGED <<cur, out>>

\* The cache is built from the row when it is empty, its market is stale, or
\* a definition has changed; otherwise it stays as it is.
Rebuild ==
  /\ pc = "idle"
  /\ LET c == Rollover(db, now) IN Take(c, now, c # db, "persist")
  /\ UNCHANGED <<clock, db, fast, stepVars, onceVars, ord, hooks, history>>

\* A pass is not started on a stale cache.
PassStart ==
  /\ pc = "idle" /\ spec = now
  /\ Take(cache, spec, FALSE, "pass")
  /\ UNCHANGED <<clock, db, fast, stepVars, onceVars, ord, hooks, history>>

\* What a price does to a pending confirmation: a cross starts it, a price
\* out of the zone ends it, and so does the one that confirms it.
Pending(c, crossed, z, elapsed) ==
  CASE crossed -> TRUE
    [] ~crossed /\ c.pend /\ z /\ ~elapsed -> TRUE
    [] OTHER -> FALSE

ShouldEnqueue(c, crossed, z, elapsed) ==
  IF conf.confirm THEN ~crossed /\ c.pend /\ z /\ elapsed ELSE crossed

\* The websocket pass over the node.  z: the price is in the zone; elapsed:
\* the confirmation time is over; gate: the price-to-beat gate lets it pass.
PassEvaluate(z, elapsed, gate) ==
  LET c == SyncScope(work, target)
      s == IF c.slug = target THEN c
           ELSE [c EXCEPT !.prev = "none", !.pend = FALSE, !.slug = target]
      crossed == Crossed(s.prev, z, conf.first)
  IN /\ pc = "pass" /\ pc' = "persist"
     /\ CASE ~open -> UNCHANGED <<work, dirty, stepVars>>
          [] open /\ FiredFor(s, target) ->
               /\ work' = [s EXCEPT !.blk = TRUE]
               /\ dirty' = (~s.blk \/ c.slug # target)
               /\ UNCHANGED stepVars
          [] OTHER ->
               /\ work' = [s EXCEPT !.prev = IF z THEN "in" ELSE "out",
                                    !.pend = conf.confirm /\ Pending(s, crossed, z, elapsed)]
               /\ dirty' = TRUE
               /\ IF ShouldEnqueue(s, crossed, z, elapsed) /\ gate
                  THEN EnqueueTrigger(WsKey(target, s.gen), target) ELSE UNCHANGED stepVars
     /\ UNCHANGED <<clock, db, fast, target, cur, out, onceVars, ord, hooks, history>>

BoundaryDue == conf.window /\ open /\ ~cache.mark
SellDue == ~open /\ FiredFor(cache, spec) /\ spec \notin cache.sold

TimerStart ==
  /\ pc = "idle" /\ spec = now /\ (BoundaryDue \/ SellDue)
  /\ Take(cache, spec, FALSE, IF BoundaryDue THEN "boundary" ELSE "sell")
  /\ UNCHANGED <<clock, db, fast, stepVars, onceVars, ord, hooks, history>>

\* The sub-window opens: the trigger is evaluated without a previous price.
BoundaryEvaluate(z, gate) ==
  LET crossed == Crossed("none", z, conf.first) IN
  /\ pc = "boundary" /\ pc' = "persist" /\ dirty' = TRUE
  /\ IF FiredFor(work, target)
     THEN work' = [work EXCEPT !.mark = TRUE] /\ UNCHANGED stepVars
     ELSE /\ work' = [work EXCEPT !.mark = TRUE, !.prev = IF z THEN "in" ELSE "out",
                                  !.pend = @ \/ (conf.confirm /\ crossed)]
          /\ IF crossed /\ ~conf.confirm /\ gate
             THEN EnqueueTrigger(WsKey(target, work.gen), target) ELSE UNCHANGED stepVars
  /\ UNCHANGED <<clock, db, fast, target, cur, out, onceVars, ord, hooks, history>>

\* Without a price the boundary is tried again.
BoundaryNoPrice ==
  /\ pc = "boundary" /\ ~FiredFor(work, target)
  /\ pc' = "persist" /\ dirty' = TRUE
  /\ UNCHANGED <<clock, db, fast, work, target, cur, out, stepVars, onceVars, ord, hooks, history>>

\* Completed place-order steps of a node, by the node's key.  The orders
\* belong to the action's node.
OrdersOf(node, m) ==
  IF node = "trigger" THEN {} ELSE {t \in Triggers : ord[t].m = m /\ ord[t].st # "none"}

\* The sub-window is over: the order is looked up among the steps of the
\* trigger's node; without one the sale is marked as skipped.
WindowEndSell ==
  /\ pc = "sell" /\ pc' = "persist" /\ dirty' = TRUE
  /\ work' = [work EXCEPT !.sold = @ \cup {target}]
  /\ ord' = [t \in Triggers |-> IF t \in OrdersOf("trigger", target) /\ ord[t].st = "filled"
                                THEN [ord[t] EXCEPT !.st = "sold"] ELSE ord[t]]
  /\ UNCHANGED <<clock, db, fast, target, cur, out, stepVars, onceVars, hooks, history>>

Persist ==
  /\ pc = "persist" /\ pc' = "publish"
  /\ db' = IF dirty THEN work ELSE db
  /\ UNCHANGED <<clock, fast, work, dirty, target, cur, out, stepVars, onceVars, ord, hooks, history>>

\* The cache is replaced whether or not the copy is dirty.
Publish ==
  /\ pc = "publish" /\ Idle
  /\ cache' = work /\ spec' = target
  /\ UNCHANGED <<clock, db, stepVars, onceVars, ord, hooks, history>>

---------------------------------------------------------------------------
(* A step: the context is read, locks are reconciled, the node is          *)
(* executed, and only then is the context written back.                    *)

Expired == {t \in late : lock[t].st = "pending"}

\* The locks of set T in state st.
SetLocks(T, st) == [t \in Triggers |-> IF t \in T THEN [lock[t] EXCEPT !.st = st] ELSE lock[t]]

StepStart(s) ==
  /\ pc = "idle" /\ s \in queue
  /\ queue' = queue \ {s} /\ cur' = s
  /\ lock' = SetLocks(Expired, "expired")
  /\ work' = Reconciled(db)
  /\ pc' = "exec"
  /\ UNCHANGED <<clock, db, fast, dirty, target, out, keys, onceKeys, late, consumed, ord, hooks, history>>

\* The market a trigger step is about: a fast path step brings its own, any
\* other takes the current one.
StepMarket(s) == IF s.m # NoMarket THEN s.m ELSE now

Output(p, m, o, r) == [pass |-> p, m |-> m, o |-> o, res |-> r]

\* Mutant: the fired key is not looked at.
FireAlways(c, m) == TRUE
FirstFire(c, m) == <<ScopeOf(m), c.gen>> \notin onceKeys

\* pass: the condition, the gates and the underlying protection hold, for
\* outcome o.  A fast path step for an old window may be dropped as expired:
\* pass is FALSE.
TriggerExecute(pass, o) ==
  LET m == StepMarket(cur)
      c == SyncScope(work, m)
  IN /\ pc = "exec" /\ cur.role = "trigger"
     /\ pc' = "store"
     /\ CASE FiredFor(c, m) ->
               /\ work' = [c EXCEPT !.blk = TRUE] /\ out' = Output(FALSE, m, NoOutcome, "done")
               /\ UNCHANGED onceKeys
          [] ~FiredFor(c, m) /\ pass /\ ~conf.deferred ->
               /\ work' = IF FirstFire(c, m) THEN MarkFired(c, m)
                          ELSE [MarkFired(c, m) EXCEPT !.blk = TRUE]
               /\ out' = Output(FirstFire(c, m), m, o, "done")
               /\ onceKeys' = onceKeys \cup {<<ScopeOf(m), c.gen>>}
          [] OTHER ->
               /\ work' = c /\ out' = Output(pass, m, o, "done")
               /\ UNCHANGED onceKeys
     /\ UNCHANGED <<clock, db, fast, dirty, target, cur, stepVars, lock, late, consumed, ord, hooks, history>>

\* The order a place-order step creates.
Created == [ord EXCEPT ![cur.by] = [m |-> cur.m, o |-> cur.o, st |-> "open"]]

\* The place-order node creates an order, wants to be repeated, or neither.
BuyExecute(r) ==
  /\ pc = "exec" /\ cur.role = "buy"
  /\ out' = Output(FALSE, cur.m, cur.o, r) /\ pc' = "apply"
  /\ ord' = IF r = "order" THEN Created ELSE ord
  /\ UNCHANGED <<clock, db, fast, work, dirty, target, cur, stepVars, onceVars, hooks, history>>

\* Locks are found by their key, which names market and outcome, and not by
\* their row.
PendingFor(m, o) == {t \in Triggers : lock[t] = [m |-> m, o |-> o, st |-> "pending"]}

\* The locks of the key the step in hand brings along.
OwnLock == PendingFor(cur.m, cur.o)

\* Mutant: a node that neither orders nor repeats keeps the lock.
ApplyDeferredKeeps ==
  LET take == cur.held /\ out.res = "order" /\ OwnLock # {}
  IN /\ pc = "apply" /\ pc' = "store"
     /\ lock' = IF take THEN SetLocks(OwnLock, "consumed") ELSE lock
     /\ consumed' = IF take THEN Append(consumed, cur.m) ELSE consumed
     /\ work' = IF take THEN MarkFired(work, cur.m) ELSE work
     /\ onceKeys' = IF take THEN onceKeys \cup {<<ScopeOf(cur.m), work.gen>>} ELSE onceKeys
     /\ UNCHANGED <<clock, db, fast, dirty, target, cur, out, stepVars, late, ord, hooks, history>>

\* apply_deferred_once_after_node_execution: a repeat past expires_at gives
\* the lock up, and itself if there was one; an order consumes it; anything
\* else releases it.
ApplyDeferred ==
  LET give == cur.held /\ (out.res = "none" \/ (out.res = "retry" /\ cur.by \in late))
      take == cur.held /\ out.res = "order" /\ OwnLock # {}
  IN /\ pc = "apply" /\ pc' = "store"
     /\ lock' = IF take THEN SetLocks(OwnLock, "consumed")
                ELSE IF give THEN SetLocks(OwnLock, "released") ELSE lock
     /\ consumed' = IF take THEN Append(consumed, cur.m) ELSE consumed
     /\ work' = IF take THEN MarkFired(work, cur.m) ELSE work
     /\ onceKeys' = IF take THEN onceKeys \cup {<<ScopeOf(cur.m), work.gen>>} ELSE onceKeys
     /\ out' = IF give /\ out.res = "retry" /\ OwnLock # {} THEN [out EXCEPT !.res = "none"] ELSE out
     /\ UNCHANGED <<clock, db, fast, dirty, target, cur, stepVars, late, ord, hooks, history>>

StoreContext ==
  /\ pc = "store" /\ pc' = "route"
  /\ db' = work
  /\ UNCHANGED <<clock, fast, work, dirty, target, cur, out, stepVars, onceVars, ord, hooks, history>>

\* The lock row of trigger step t for the output in hand.
Locked(t) == [m |-> out.m, o |-> out.o, st |-> "pending"]

\* Mutant: the unique index on pending locks is gone.
AcquireAlways(t) == lock' = [lock EXCEPT ![t] = Locked(t)]

\* acquire_trade_flow_deferred_once_lock: overdue locks of the key expire,
\* then the lock is taken unless another is pending.
Acquire(t) ==
  LET L == PendingFor(out.m, out.o) IN
  L \subseteq late /\ lock' = [SetLocks(L, "expired") EXCEPT ![t] = Locked(t)]

\* A passed trigger enqueues the place-order step, behind a deferred once only
\* with its lock; a repeat enqueues the step again.
RouteEdges ==
  /\ pc = "route" /\ Idle
  /\ \/ /\ out.pass /\ conf.deferred /\ Acquire(cur.by)
        /\ queue' = queue \cup {BuyStep(cur.by, out.m, out.o, TRUE)}
     \/ /\ out.pass /\ conf.deferred /\ ~(PendingFor(out.m, out.o) \subseteq late)
        /\ UNCHANGED <<lock, queue>>
     \/ /\ out.pass /\ ~conf.deferred
        /\ queue' = queue \cup {BuyStep(cur.by, out.m, out.o, FALSE)} /\ UNCHANGED lock
     \/ /\ ~out.pass
        /\ queue' = IF out.res = "retry" THEN queue \cup {cur} ELSE queue
        /\ UNCHANGED lock
  /\ UNCHANGED <<clock, db, fast, keys, onceKeys, late, consumed, ord, hooks, history>>

\* The node fails: the lock is released, the context is not written.  A
\* place-order node has further writes to make once it has created its order,
\* and the step fails just the same when one of them does.
StepError(created) ==
  /\ "error" \in conf.faults /\ pc = "exec" /\ Idle
  /\ created => cur.role = "buy"
  /\ lock' = IF cur.held THEN SetLocks(OwnLock, "released") ELSE lock
  /\ ord' = IF created THEN Created ELSE ord
  /\ slipped' = IF created THEN slipped \cup {cur.by} ELSE slipped
  /\ UNCHANGED <<clock, db, fast, stepVars, onceKeys, late, consumed, hooks, cut>>

\* An error once the node is done: the step is marked failed, and whatever is
\* not written stays so.  A lock that was taken may be left without its step.
StepCut ==
  /\ "error" \in conf.faults /\ pc \in {"apply", "store", "route"} /\ Idle
  /\ \/ UNCHANGED lock
     \/ pc = "route" /\ out.pass /\ conf.deferred /\ Acquire(cur.by)
  /\ cut' = cut \cup {cur.by}
  /\ UNCHANGED <<clock, db, fast, stepVars, onceKeys, late, consumed, ord, hooks, slipped>>

\* The process ends and starts again: the step in hand stays 'running' and is
\* canceled later, the cache is empty, tasks of the order engine are gone.
Crash ==
  /\ "crash" \in conf.faults /\ pc # "idle"
  /\ Idle /\ cache' = Fresh /\ spec' = NoMarket
  /\ hook' = NoHook /\ hctx' = Fresh
  /\ UNCHANGED <<clock, db, stepVars, onceVars, ord, history>>

---------------------------------------------------------------------------
(* The order engine's tasks in the context of the run.                     *)

\* A buy fills; with a buy fill lock the fill is recorded in the context.
OrderFills(t, recorded) ==
  /\ ord[t].st = "open" /\ ord' = [ord EXCEPT ![t].st = "filled"]
  /\ (recorded => conf.fillLock)
  /\ IF recorded THEN hook.kind = "idle" /\ hook' = [kind |-> "fill", by |-> t] ELSE UNCHANGED hook
  /\ UNCHANGED <<clock, db, fast, loopVars, stepVars, onceVars, hctx, history>>

\* The stop loss of a position fills, which starts a re-entry.
StopLossFills(t) ==
  /\ ord[t].st = "filled" /\ ord' = [ord EXCEPT ![t].st = "stopped"]
  /\ hook.kind = "idle" /\ hook' = [kind |-> "reentry", by |-> t]
  /\ UNCHANGED <<clock, db, fast, loopVars, stepVars, onceVars, hctx, history>>

HookMarket == ord[hook.by].m

\* Mutant: the limit on re-entries is not looked at.
HookReadUnlimited ==
  /\ hook.kind \in {"fill", "reentry"}
  /\ hook' = [hook EXCEPT !.kind = IF @ = "fill" THEN "writefill" ELSE "writere"]
  /\ hctx' = IF hook.kind = "fill" THEN db ELSE Reentered(db, HookMarket)
  /\ UNCHANGED <<clock, db, fast, loopVars, stepVars, onceVars, ord, history>>

\* The row is read; without attempts left the re-entry ends here.
HookRead ==
  /\ hook.kind \in {"fill", "reentry"}
  /\ IF hook.kind = "reentry" /\ AttemptsUsed(db, HookMarket) >= conf.attempts
     THEN hook' = NoHook /\ UNCHANGED hctx
     ELSE /\ hook' = [hook EXCEPT !.kind = IF @ = "fill" THEN "writefill" ELSE "writere"]
          /\ hctx' = IF hook.kind = "fill" THEN db ELSE Reentered(db, HookMarket)
  /\ UNCHANGED <<clock, db, fast, loopVars, stepVars, onceVars, ord, history>>

HookWrite ==
  /\ hook.kind \in {"writefill", "writere"}
  /\ db' = hctx /\ hook' = [hook EXCEPT !.kind = IF @ = "writefill" THEN "cachefill" ELSE "cachere"]
  /\ UNCHANGED <<clock, fast, loopVars, stepVars, onceVars, ord, hctx, history>>

\* The cache's copy is replaced, and a re-entry enqueues its trigger step.
HookCache ==
  /\ hook.kind \in {"cachefill", "cachere"}
  /\ cache' = IF spec = NoMarket THEN cache ELSE hctx
  /\ IF hook.kind = "cachere" THEN EnqueueTrigger(<<"re", 0, hctx.gen>>, NoMarket) ELSE UNCHANGED stepVars
  /\ hook' = NoHook /\ hctx' = Fresh
  /\ UNCHANGED <<clock, db, spec, loopVars, onceVars, ord, history>>

---------------------------------------------------------------------------
FastPath ==
  \/ Rebuild \/ PassStart \/ TimerStart \/ BoundaryNoPrice \/ WindowEndSell \/ Persist \/ Publish
  \/ \E z, elapsed, gate \in BOOLEAN : PassEvaluate(z, elapsed, gate)
  \/ \E z, gate \in BOOLEAN : BoundaryEvaluate(z, gate)

StepEngine ==
  \/ \E s \in queue : StepStart(s)
  \/ \E pass \in BOOLEAN : \E o \in 1 .. conf.outcomes : TriggerExecute(pass, o)
  \/ \E r \in {"order", "retry", "none"} : BuyExecute(r)
  \/ ApplyDeferred \/ StoreContext \/ RouteEdges

OrderTasks ==
  \/ \E t \in Triggers : (\E b \in BOOLEAN : OrderFills(t, b)) \/ StopLossFills(t)
  \/ HookRead \/ HookWrite \/ HookCache

Next ==
  \/ CloseWindow \/ NextMarket \/ \E t \in Triggers : LockTtl(t)
  \/ FastPath \/ StepEngine \/ OrderTasks
  \/ (\E created \in BOOLEAN : StepError(created)) \/ StepCut \/ Crash

Spec == Init /\ [][Next]_vars

\* The loop never ends and gets to the queued steps; a node that is executed
\* comes to an end; time goes on.
LiveSpec ==
  /\ Spec
  /\ WF_vars(FastPath \/ StepEngine) /\ SF_vars(\E s \in queue : StepStart(s))
  /\ WF_vars(\E t \in Triggers : LockTtl(t))

---------------------------------------------------------------------------
(* Properties.                                                             *)

TypeOK ==
  /\ conf \in Configs /\ now \in Markets /\ open \in BOOLEAN /\ spec \in 0 .. NMarkets /\ target \in 0 .. NMarkets
  /\ {db, cache, work, hctx} \subseteq Contexts /\ dirty \in BOOLEAN
  /\ pc \in {"idle", "pass", "boundary", "sell", "persist", "publish", "exec", "apply", "store", "route"}
  /\ queue \subseteq Steps /\ cur \in Steps /\ keys \subseteq Triggers
  /\ onceKeys \subseteq (0 .. NMarkets) \X Gens
  /\ \A t \in Triggers :
       /\ lock[t] \in [m : 0 .. NMarkets, o : 0 .. NOutcomes,
                       st : {"none", "pending", "expired", "released", "consumed"}]
       /\ ord[t] \in [m : 0 .. NMarkets, o : 0 .. NOutcomes,
                      st : {"none", "open", "filled", "stopped", "sold"}]
  /\ late \subseteq Triggers /\ \A i \in DOMAIN consumed : consumed[i] \in Markets
  /\ slipped \subseteq Triggers /\ cut \subseteq Triggers

\* The entries of a market, and of one of its outcomes.
Entries(m) == {t \in Triggers : ord[t].m = m /\ ord[t].st # "none"}
EntriesOf(m, o) == {t \in Entries(m) : ord[t].o = o}

\* No lock has outlived its TTL, and the first window is still the current one.
InTime == late = {} /\ now = 1

\* Whatever updates of the context get lost, a market sees at most one entry
\* and one more for each re-entry allowed, over all its outcomes; in run scope
\* so does the whole run.  A deferred once promises less: only while InTime,
\* for each outcome of a market by itself, and not counting the entries whose
\* step failed after the order was created, which give their lock back.
EntriesBounded ==
  /\ ~conf.deferred =>
       /\ \A m \in Markets : Cardinality(Entries(m)) <= conf.attempts + 1
       /\ conf.scope = "run" => Cardinality(UNION {Entries(m) : m \in Markets}) <= conf.attempts + 1
  /\ conf.deferred /\ InTime =>
       \A m \in Markets, o \in Outcomes : Cardinality(EntriesOf(m, o) \ slipped) <= conf.attempts + 1

\* A fired key stands behind every entry of a trigger that is not deferred:
\* an entry whose key was lost could be repeated.
EntriesHaveKeys ==
  ~conf.deferred =>
    \A m \in Markets : Cardinality(Entries(m)) <= Cardinality({k \in onceKeys : k[1] = ScopeOf(m)})

\* At most one lock of an outcome of a market is pending at any time.
OneHolder == \A m \in Markets, o \in Outcomes : Cardinality(PendingFor(m, o)) <= 1

\* No outcome of a market is locked for ever: its lock is released, consumed
\* or expired, unless the step that should do so was cut off by an error after
\* its node; such a lock is left to its TTL and the next step of the run.
LockEnds ==
  \A m \in Markets, o \in Outcomes :
    PendingFor(m, o) # {} ~> (PendingFor(m, o) = {} \/ PendingFor(m, o) \cap cut # {})
=============================================================================
